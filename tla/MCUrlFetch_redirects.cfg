SPECIFICATION FFairSpec
CONSTANTS
  pub = pub
  priv = priv
  mcast = mcast
  nat_pub = nat_pub
  nat_priv = nat_priv
  www = www
  intern = intern
  Names = {www, intern}
  BlockedNames = {intern}
  Addresses = {pub, priv, mcast, nat_pub, nat_priv}
  Global = {pub, mcast, nat_pub, nat_priv}
  Multicast = {mcast}
  Nat64 <- MCNat64
  Answers <- MCAnswers
  Locations <- MCLocations
  Requested <- MCRequested
  MaxRedirects = 2
  MaxBytes = 3
  ChunkSizes = {1, 2}
  TimeoutS = 2
INVARIANTS FTypeOK DialsCheckedAddress OneNamePerHop CapExact
PROPERTY FetchesEnd
CHECK_DEADLOCK FALSE
