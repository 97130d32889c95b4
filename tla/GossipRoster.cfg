SPECIFICATION MeshSpec
CONSTANTS
  Nodes = {"seed", "a", "b"}
  Seeds = {"seed"}
  Joined = {"seed", "a"}
  Faulty = {"a"}
  Leavers = {}
  MaxFaults = 1
PROPERTIES
  RosterConverges
CHECK_DEADLOCK FALSE
