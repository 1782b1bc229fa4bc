SPECIFICATION FairUploadSpec
CONSTANTS
  Clients = {c1, c2}
  NoClient = NoClient
  Senders = {s1}
  NoSender = NoSender
  MessageCount = 2
  ConnectTime = 2
PROPERTIES
  WaitersServed
CHECK_DEADLOCK FALSE
