\* One user, one notification, windows of one day.
CONSTANTS
  Notes = {n1}
  Requests = {r1}
  NoCopy = NoCopy
  Grace = 1
  Window = 1
SPECIFICATION SubjectFairSpec
CONSTRAINT PlainlyNotified
INVARIANTS ProvenErasureComplete
PROPERTIES NotesRunDry ScrubsOnlyAged ScrubbedInTheEnd
