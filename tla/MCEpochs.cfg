SPECIFICATION ServiceSpec
CONSTANTS
  k1 = k1
  dep = dep
  op = op
  reg = reg
  acct = acct
  NodeIds = {1}
  Keys = {k1}
  NodeIdOf <- MCNodeIdOf
  Addrs = {dep, op}
  Registries = {reg}
  NoAddr = NoAddr
  NoKey = NoKey
  Deployer = dep
  MaxStake = 1
  MaxBatch = 0
  MaxListed = 1
  MAX_NODE_COUNT = 100
  TreeSize = 1
  MAX_UINT = 1000
  Accounts = {acct}
  Draw <- MCDraw
  MIN_EPOCH_LENGTH = 2
  PIN_WINDOW = 2
  MAX_BLOCK_SECONDS = 1
  GUARDIAN_EXIT_DELAY = 5
  MIN_COMMITTEE = 1
  DefaultOversample <- MCDefaultOversample
  EpochLengths = {2, 4}
  Oversamples <- MCOversamples
  MinCommittees = {1}
  BlockTimes = {1, 3}
  MaxBlock = 5
  MaxConfig = 6
  MaxAgg = 2
INVARIANTS
  FrozenStillBonded
  ServiceNotStuck
PROPERTY
  PinsEligibleSet
