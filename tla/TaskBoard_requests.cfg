\* Two requests about one task of one of two users, and the erasure of both.
CONSTANTS
  Users = {u1, u2}
  Tasks = {t1}
  Requests = {r1, r2}
  Status = {todo, done}
  Todo = todo
  NoUser = NoUser
  NoTask = NoTask
SPECIFICATION BoardSpec
SYMMETRY BoardSymmetry
INVARIANTS AssignedByOwner
PROPERTIES RemovedRunsDry ErasedRunsDry
\* The one task can be gone with everybody.
CHECK_DEADLOCK FALSE
