SPECIFICATION RFairSpec
CONSTANTS
  c1 = c1
  c2 = c2
  t1 = t1
  NoClient = NoClient
  Clients = {c1, c2}
  Tokens = {t1}
  Kinds = {"download", "upload"}
  TTLs = {2}
  AskedTTLs = {2}
  TTLDefault = 2
  TTLMax = 3
  LeaseSeconds = 1
  GraceSeconds = 1
  Faults = {"kv_error", "cancelled"}
  SinkFaults = {"cancelled"}
  Durable = TRUE
  SlowBackend = TRUE
  MaxTime = 2
  MaxFence = 2
  MaxRestarts = 0
INVARIANTS
  SinkSharedOnlyAfterLapse
PROPERTIES
  FailureKeepsTheLink
  RequestsAnswered
