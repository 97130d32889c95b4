SPECIFICATION SliceSpec
CONSTANTS
  k1 = k1
  k2 = k2
  k3 = k3
  dep = dep
  op = op
  reg = reg
  acct = acct
  NodeIds = {1, 2, 3}
  Keys = {k1, k2, k3}
  NodeIdOf <- MCNodeIdOf
  Addrs = {dep, op}
  Registries = {reg}
  NoAddr = NoAddr
  NoKey = NoKey
  Deployer = dep
  MaxStake = 1
  MaxBatch = 2
  MaxListed = 3
  MAX_NODE_COUNT = 100
  TreeSize = 3
  MAX_UINT = 1000
  Accounts = {acct}
  Draw <- MCDraw
  MIN_EPOCH_LENGTH = 2
  PIN_WINDOW = 2
  MAX_BLOCK_SECONDS = 1
  GUARDIAN_EXIT_DELAY = 7
  MIN_COMMITTEE = 1
  DefaultOversample <- MCDefaultOversample
  EpochLengths = {0, 2, 3}
  Oversamples <- MCOversamples
  MinCommittees = {0, 2}
  BlockTimes = {1}
  MaxBlock = 5
  MaxConfig = 2
  MaxAgg = 1
INVARIANTS
  CommitmentExact
  CommitteeIsFrozenQuorum
  RegistryConsistent
  ReadinessSound
  TreeOpens
CHECK_DEADLOCK FALSE
