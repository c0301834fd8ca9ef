SPECIFICATION RSpec
CONSTANTS
  c1 = c1
  c2 = c2
  t1 = t1
  NoClient = NoClient
  Clients = {c1, c2}
  Tokens = {t1}
  Kinds = {"download", "upload"}
  TTLs = {0, 2, 4}
  AskedTTLs = {0, 5}
  TTLDefault = 2
  TTLMax = 4
  LeaseSeconds = 1
  GraceSeconds = 2
  Faults = {}
  SinkFaults = {"error", "cancelled"}
  Durable = FALSE
  SlowBackend = FALSE
  MaxTime = 4
  MaxFence = 3
  MaxRestarts = 1
SYMMETRY Symmetry
INVARIANTS
  RoutesTypeOK
  NoReservationLeftBehind
  SettledLinkExpires
