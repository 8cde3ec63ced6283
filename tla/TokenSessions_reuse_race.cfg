\* Reuse is detected while a rotation is under way.
CONSTANTS
  Users = {u1}
  Requests = {r1, r2}
  NoUser = NoUser
  RefreshTtl = 1
  MaxTokens = 4
  MaxClock = 0
SPECIFICATION SessionSpec
INVARIANTS NothingSurvivesReuse
