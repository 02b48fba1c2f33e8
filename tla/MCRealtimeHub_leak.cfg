SPECIFICATION Spec
CONSTANTS
  WebSockets = {w1}
  Streams = {}
  NoClient = none
  Names = {"admin"}
  Spellings = {"admin"}
  TrimSpace <- Trim
  Private = {}
  Publishers = {p1}
  Closers = {"run"}
  ClientBuffer = 1
  MaxPublishes = 1
  MaxRequests = 2
INVARIANTS
  EvictedIsUnsubscribed
CHECK_DEADLOCK FALSE
