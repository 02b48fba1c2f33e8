SPECIFICATION HubSpec
CONSTANTS
  WebSockets = {w1}
  Streams = {s1, s2}
  NoClient = none
  Names = {"admin"}
  Spellings = {"admin", "admin "}
  TrimSpace <- Trim
  Private = {"admin"}
  Publishers = {p1}
  Closers = {"run"}
  ClientBuffer = 1
  MaxPublishes = 2
  MaxRequests = 2
SYMMETRY Symmetry
INVARIANTS
  PublisherOrder
  AuthorizedStream
  AcknowledgedView
  DeliveredOrEvicted
  ClosedHubIsEmpty
CHECK_DEADLOCK FALSE
