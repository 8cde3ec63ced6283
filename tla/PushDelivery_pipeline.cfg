\* Two registrations overlap at the cap; a delivery fails and is retried beside a third.
CONSTANTS
  Users = {u1, u2}
  Tokens = {t1, t2, t3}
  Registers = {r1, r2}
  NoUser = NoUser
  NoDevice = NoDevice
  MaxDevices = 2
  StaleAfter = 0
  MaxId = 3
  MaxClock = 1
  MaxJobs = 1
  MaxAttempts = 2
  MaxStalls = 0
SPECIFICATION DeliverySpec
SYMMETRY PushSymmetry
CONSTRAINT OneTrouble
INVARIANTS CapKept BoundedDuplicates RecordsTellTruth
PROPERTIES EvictsStalest PrunesOnlyDead
