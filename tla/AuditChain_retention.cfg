\* Two connections and a retention job with a window of one tick.
CONSTANTS
  Writers = {w1, w2}
  Jobs = {j1}
  Events = {login}
  RetentionRun = retentionRun
  NoWriter = NoWriter
  AuditLogDays = 1
  MaxSequence = 4
  MaxClock = 3
SPECIFICATION AuditSpec
INVARIANTS HistoryCommitted VerifyPinpointsDeletion
PROPERTIES OnlyAgedRowsLeave
SYMMETRY WriterSymmetry
CHECK_DEADLOCK FALSE
