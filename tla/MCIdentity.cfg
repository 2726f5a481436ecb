SPECIFICATION IdentitySpec
CONSTANTS
  Ids = {s1, s2}
  Users = {u1}
  TTL = 2
  MaxTime = 5
  Tabs = {b1, b2}
  Items = {k1, k2}
  Threshold = 2
  MaxRows = 2
  MaxSalts = 3
  MaxFails = 2
INVARIANTS
  SessionsSound
  VaultOpens
  NothingLost
  OnlyOwnKeys
PROPERTIES
  LifetimeKept
SYMMETRY Interchangeable
CHECK_DEADLOCK FALSE
