CONSTANTS
  PORTS = {"pic32mz", "baikal_t1"}
  RAM_END <- MCRamEnd
  CODE_END <- MCCodeEnd
  Asks <- MCAsks
  MAX_VMS = 3
  Buffers <- MCBuffers
SPECIFICATION Spec
CHECK_DEADLOCK FALSE
INVARIANTS
  MemoriesAreSeparate
  MachinesAreMapped
  HypercallsReachTheGuest
