\* Two connections, retention window 0 ("keep forever").
CONSTANTS
  Writers = {w1, w2}
  Jobs = {j1}
  Events = {login, erase}
  RetentionRun = retentionRun
  NoWriter = NoWriter
  AuditLogDays = 0
  MaxSequence = 3
  MaxClock = 1
SPECIFICATION AuditFairSpec
INVARIANTS AuditTypeOK ChainVerifies
PROPERTIES RecordReturns ImplementsAppendOnlyTrail
\* The bound on inserted rows lets the system go quiet.
CHECK_DEADLOCK FALSE
