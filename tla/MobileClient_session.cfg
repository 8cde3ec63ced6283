\* One device, two requests at the server at a time, killed and cut off at will.
CONSTANTS
  Users = {u1}
  Owner = u1
  Requests = {r1, r2}
  NoUser = NoUser
  NoRequest = NoRequest
  RefreshTtl = 0
  MaxTokens = 3
  MaxClock = 1
SPECIFICATION MobileSpec
SYMMETRY SlotSymmetry
INVARIANTS ClientTypeOK SpentOnce KeychainUnspent NoFalseAlarm SignedOutHoldsNothing
CONSTRAINT OneTrouble
