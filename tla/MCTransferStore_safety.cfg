SPECIFICATION Spec
CONSTANTS
  c1 = c1
  c2 = c2
  c3 = c3
  t1 = t1
  t2 = t2
  NoClient = NoClient
  Clients = {c1, c2, c3}
  Tokens = {t1}
  Kinds = {"download"}
  TTLs = {0, 3}
  LeaseSeconds = 2
  GraceSeconds = 2
  Faults = {"cancelled"}
  Durable = TRUE
  SlowBackend = TRUE
  MaxTime = 3
  MaxFence = 3
  MaxRestarts = 1
SYMMETRY Symmetry
INVARIANTS
  TypeOK
  ReadModifyWriteExclusive
  AtMostOneLiveHolder
PROPERTIES
  SupersededHolderIsHarmless
  ExpirySlidesByTheDelay
  ImplementsTransferTokens
