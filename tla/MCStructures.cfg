CONSTANTS
  Capacity = 3
  Elem = {a, b, c}
  NULL = NULL
  GARBAGE = GARBAGE
  UNITS = 11
  Requests = {2, 4}
  RX_DESCRIPTORS = 4
  RX_BYTES_PER_DESC = 2
  FrameSizes = {1, 3, 4, 6, 9}
  MaxArrivals = 3
  MTU = 2
  SIZES = 4
  SendSizes = {0, 1, 3, 5}
  MaxSends = 2
  QUADS = 3
  Payloads = {p, q}
  ERASED = ERASED
  SPOILED = SPOILED
  W = 6
  Dwords = {0, 1, 2, 7, 8, 9, 31, 32, 63, 64, 65, 127, 128, 999, 1000, 1001, 2047, 2048,
            2049, 2111, 2112, 3000, 3968, 4031, 4032, 4094, 4095}
  THIRD = 4
  GUARD = 6
  EXCESS = 30
  Exponents = {30, 31, 32, 44, 45}
  Mantissas = {0, 1, 1023, 1365, 2046, 2047}
  FloatWords <- MCFloatWords
  LAST_ADDRESS = 2
  Strap = {"10"}
  MAX_TIMEOUTS = 1
  Builds <- MCBuilds
  Devices <- MCDevices
  Mapped <- MCMapped
  IoAddress = {1, 2, 4, 5, 7, 8}
  NONE = NONE
SPECIFICATION MCSpec
INVARIANTS
  HeapIsSound
  DescriptorsInTurn
  LinkIsNegotiated
  FlashHoldsOneWrite
  ArithmeticIsExact
  FloatsAreClose
  HypercallsReachTheirDriver
  InterruptsReachTheirHandler
  DevicesKeepToTheirGuests
PROPERTIES
  ImplementsSequence
  RingIsFifo
  LastFrameIsWhole
