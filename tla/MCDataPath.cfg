SPECIFICATION Spec
CONSTANTS
  Slots = 2
  QueueLen = 1
  UdpLen = 2
  Modes <- ModesDef
INVARIANTS
  WaitsHaveAnEnd
PROPERTIES
  SlotsSuffice
  HandoverSpec
  FrameGetsIn
