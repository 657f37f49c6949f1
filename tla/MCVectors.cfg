CONSTANTS
  Builds <- SixHandlers
  Devices <- MCDevices
  Mapped <- MCMapped
  IoAddress = {1, 2, 4, 5, 7}
  NONE = NONE
SPECIFICATION DispatchSpec
INVARIANT InterruptsReachTheirHandler
CHECK_DEADLOCK FALSE
