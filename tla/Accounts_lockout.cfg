\* Two requests about one account, locks of one and two minutes.
CONSTANTS
  Requests = {r1, r2}
  MaxAttempts = 2
  MaxLock = 2
  MaxFailures = 5
  MaxClock = 6
SPECIFICATION AccountSpec
SYMMETRY RequestSymmetry
INVARIANTS LocksAreEarned
PROPERTIES LockHoldsToItsEnd GoneStaysGone
CHECK_DEADLOCK FALSE
