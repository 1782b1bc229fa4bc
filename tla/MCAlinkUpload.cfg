SPECIFICATION UploadSpec
CONSTANTS
  Clients = {c1, c2, c3}
  NoClient = NoClient
  Senders = {s1, s2}
  NoSender = NoSender
  MessageCount = 2
  ConnectTime = 1
INVARIANTS
  SubscribersLive
  SendsToLive
PROPERTIES
  NobodyDropped
  UploadAdvances
SYMMETRY Symmetry
CHECK_DEADLOCK FALSE
