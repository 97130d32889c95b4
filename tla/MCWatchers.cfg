SPECIFICATION SliceSpec
CONSTANTS
  MaxSlots = 2
  Logs <- MCLogs
  LogBlock <- MCLogBlock
  LogProposal <- MCLogProposal
  LogTx <- MCLogTx
  SlotTables <- MCSlotTables
  Aggregator <- MCAggregator
  Configs <- MCConfigs
  Sepolia = 5
  FromBlock = 1
  Finality = 1
  LogChunk = 1
  MaxAttempts = 2
  MaxHead = 3
  MaxBoots = 2
  MaxFaults = 1
  Peers = {"p1", "p2"}
  Self = "self"
  Calls = {1}
  slotOf <- CoSignSlots
  Confirms = {"self", "p1"}
  Faulty = {"p2"}
  Threshold = 2
  perConnCap = 1
  maxValidations = 2
  FaultyMax = 2
  Churn = {2}
  Modes = {"armed", "dry", "file"}
  FileOnly = FALSE
  Lookback = 0
  MaxBlock = 2
  MaxFailures = 2
  MaxCrashes = 2
  MaxProposals = 6
  MaxPeer = 2
  MaxRecoveries = 2
INVARIANTS
  NoLogSkipped
  RecordsTrue
  SlashPaidOnce
  QuorumSound
  HonestNotCrowdedOut
PROPERTIES
  EveryLogSettles
  QueuedCompleted
  CallEnds
  EventuallyConsistent
CHECK_DEADLOCK FALSE
