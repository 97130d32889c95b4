SPECIFICATION SliceSpec
CONSTANTS
  MAX_SIGNERS = 100
  MAX_UINT = 65535
  MaxPool = 600
  Oversamples <- MCOversamples
  Nodes = {"n1", "n2"}
  EpochLength = 2
  Keepers = {"k1", "k2"}
  PIN_WINDOW = 256
  MinCommittee = 1
  Founders = {"n1"}
  FirstBlock = 3
  KeeperMaxBlock = 5
  MaxConfig = 2
  MaxChanges = 1
  LogSlots = {1}
  DeployBlock = 2
  CHUNK = 1
  LogMaxBlock = 8
  MaxMutations = 2
  MaxBumps = 1
  CommentCap = 2
  MaxFlips = 2
  MaxElapsed = 2
  AlertsMaxFaults = 2
  Validators = {"v1", "v2"}
  Stranger = "x"
  Seats = {1, 2}
  Keys = {"k1", "k2"}
  BatchSize = 2
  Batches <- MCBatches
  Resting <- MCResting
  MaxStrangers = 1
  Verifiers = {"v1", "v2"}
  Expected = "v1"
  Delay = 1
  MaxTime = 4
  Machines = {"n1", "n2", "n3"}
  MaxTroubles = 3
  MaxFaults = 1
INVARIANTS
  CurveSound
  ReportsTrue
  LogTellsTruth
  VerifiedAreSeated
  ArtifactTells
PROPERTIES
  PinnedWhileOpen
  IssuesFollowHealth
  RetryCompletes
  NeverWorsens
CHECK_DEADLOCK FALSE
