SPECIFICATION SliceSpec
CONSTANTS
  o1 = o1
  o2 = o2
  n1 = n1
  n2 = n2
  Operators = {o1, o2}
  NodeIds = {n1, n2}
  NoNode = NoNode
  Keys <- MCKeys
  watchlist = {o2}
  Members = {o1}
  OFFLINE_THRESHOLD_MS = 1
  MAX_HEARTBEAT_SKEW_MS = 2
  MAX_LIVENESS_LEDGER = 1
  FinalityLag = 1
  ClockOf <- MCClockOf
  Offsets <- MCOffsets
  Start = 1
  MaxNow = 4
  MaxVerifying = 2
  Static = {"s1"}
  Users = {"u1", "u2"}
  Roles = {"r1"}
  RoleFromBlock = 1
  ChunkSize = 2
  Confirmations = 1
  RefreshEvery = 1
  MaxStale = 1
  LogCap = 1
  MaxLatest = 4
  MaxEvents = 2
  MaxReadFaults = 1
INVARIANTS
  RolesTrue
PROPERTIES
  HeardNotAccused
  SilentReported
