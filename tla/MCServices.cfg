SPECIFICATION Spec
CONSTANTS
  None = none
  Unknown = unknown
  Keys = {"k"}
  Callers = {c1, c2}
  Text = text
  Texts = {text}
  Blank = blank
  IntEdge = 1
  Calls <- SomeCalls
  MaxTime = 3
  Senders = {s1, s2}
  RequestsPerMinute = 1
  Handlers = {h1, h2}
  Burst = 1
  TicksPerMinute = 2
  MaxClients = 1
  MaxIdle = 3
  MaxTicks = 5
  Names = {"a", "b"}
  Users = {u1, u2}
  Chunks = 2
  MaxPuts = 3
  Emitters = {"e1", "e2"}
  MaxHandlers = 3
  MaxEmits = 2
  Ids = {1, 2, 3}
  Columns = {"done", "rank"}
  Values = {0, 1}
  PartOf <- IsPartOf
  Endpoints <- TaskEndpoints
  Asks <- TaskAsks
  MaxInValues = 2
  IntLimit = 8
  MaxEdits = 1
  Absent = Absent
  Bad = Bad
  Apps <- SomeApps
  Environments <- SomeEnvironments
  Dotenvs <- SomeDotenvs
  Malformed <- NoLine
  IntOf <- Numbers
  DurationOf <- Times
  SchemeOf <- Schemes
  RedisReads = {"redis://r", "unix:///r"}
  AsynqReads = {"redis://r", "redis://r/x"}
  Networks = {"10.0.0.0/8"}
  LongSecrets = {"long"}
  Rooted = {"/docs", "/openapi.json", "/metrics", "/_ginkit"}
  Relative = {"/"}
  ApiVersions = {"v25.0"}
  S3Endpoints = {"s3:9000"}
SYMMETRY Symmetry
INVARIANTS
  RateIsKept
  WholeFiles
  EmitReachesEveryone
  CursorWalkIsComplete
  PagesCoverTheTable
  WhatLoadAcceptsStarts
PROPERTIES
  ImplementsStore
  OnlyWantedIsShown
CHECK_DEADLOCK FALSE
