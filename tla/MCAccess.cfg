CONSTANTS
  Nonce = {x1, x2, x3}
  Addr = {a1}
  Handler = {g1, g2}
  MaxClockSkew = 1
  seenPruneSize = 1
  maxSeenNonces = 2
  localAddrRefresh = 1
  Delay = 1
  MaxAgentClock = 3
  Key = {k1, k2, k3}
  Visitor = {h1, h2}
  limit = 2
  window = 3
  Two = {k1, k2}
  maxKeys = 2
  NoOne = NoOne
  Login = {l1, l2}
  maxAge = 2
  MaxStarts = 2
  second = 2
  MaxClock = 4
SPECIFICATION Spec
INVARIANTS AcceptedJustly
PROPERTIES ReplayRefused RefusedJustly LimiterHonest EndedForGood
SYMMETRY Symmetries
CHECK_DEADLOCK FALSE
