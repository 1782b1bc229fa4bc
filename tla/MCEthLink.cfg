SPECIFICATION LinkSpec
CONSTANTS
  Clients = {c1, c2, c3, c4}
  NoClient = NoClient
  Senders = {}
  NoSender = NoSender
  MessageCount = 1
  ConnectTime = 1
  Servers <- ServersDef
  DefaultServer <- DefaultDef
  MaxClients = 3
INVARIANTS
  WalksEnd
  SoundWhenExclusive
  LiveAreListed
SYMMETRY Symmetry
CHECK_DEADLOCK FALSE
