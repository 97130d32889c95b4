SPECIFICATION LogSpec
CONSTANTS
  Nodes = {n1, n2}
  Slots = {1}
  EpochLength = 2
  MinCommittee = 1
  DeployBlock = 2
  CHUNK = 1
  MaxBlock = 9
  MaxMutations = 2
  MaxBumps = 1

INVARIANT RateIsExact
CHECK_DEADLOCK FALSE
