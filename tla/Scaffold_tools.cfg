\* Two clients, two project names (one that leaves the api unrenamed), three runs of the tools.
CONSTANTS
  Clients = {"web", "mobile"}
  ProjectNames <- Shop
  FreeNames <- Free
  Picks <- Asked
  MaxRuns = 3
SPECIFICATION ScaffoldSpec
INVARIANTS CapabilityInstalled WiringComplete NothingDangling RegistriesMatch RenamesFollowed
CHECK_DEADLOCK FALSE
