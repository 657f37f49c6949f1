CONSTANTS
  NUMBER_OF_VM = 3
  NUMBER_OF_FRAMES = 2
  Payload = {p}
  POLLING = {0}
  WINDOW = 3
  NONE = NONE
SPECIFICATION Spec
INVARIANTS
  BuffersAreExact
PROPERTIES
  ImplementsInboxes
  FramesAreReceived
