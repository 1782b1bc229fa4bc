SPECIFICATION LinkSpec
CONSTANTS
  Clients = {c1, c2, c3}
  NoClient = NoClient
  Senders = {s1, s2}
  NoSender = NoSender
  MessageCount = 2
  ConnectTime = 1
  Servers <- ServersDef
  DefaultServer <- DefaultDef
  MaxClients = 2
INVARIANT SoundWhenExclusive
CHECK_DEADLOCK FALSE
