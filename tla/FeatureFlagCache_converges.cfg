\* Two instances, two evaluations and an admin request in flight.
CONSTANTS
  Instances = {i1, i2}
  Writes = {w1}
  Lookups = {l1, l2}
  Nowhere = Nowhere
  Nobody = Nobody
  MaxVersion = 3
SPECIFICATION FlagFairSpec
PROPERTIES CopiesMoveForward Converges
