SPECIFICATION FairSpec
CONSTANTS
  WebSockets = {w1}
  Streams = {}
  NoClient = none
  Names = {"admin"}
  Spellings = {"admin"}
  TrimSpace <- Trim
  Private = {}
  Publishers = {p1}
  Closers = {"run", "close"}
  ClientBuffer = 1
  MaxPublishes = 1
  MaxRequests = 1
PROPERTIES
  CloseReturns
  RemovedIsTornDown
  AcceptedIsWritten
CHECK_DEADLOCK FALSE
