CONSTANTS
  PacketSizes <- MCPacketSizes
  MAX_FAULTS = 1
SPECIFICATION UsbFairSpec
INVARIANTS
  NoGhostDevice
  DescriptorIsWhole
PROPERTIES
  DataFollowsSetup
  DetectionEnds
