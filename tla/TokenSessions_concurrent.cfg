\* Two requests in flight, rows that expire after one tick, every interleaving.
CONSTANTS
  Users = {u1}
  Requests = {r1, r2}
  NoUser = NoUser
  RefreshTtl = 1
  MaxTokens = 3
  MaxClock = 2
SPECIFICATION SessionSpec
SYMMETRY SessionSymmetry
INVARIANTS RotatedParentRevoked KnownUntilExpiry
PROPERTIES DeletedAccountRunsDry ImplementsLifecycle
