SPECIFICATION SliceSpec
CONSTANTS
  large = large
  small = small
  stranger = stranger
  t1 = t1
  t2 = t2
  r1 = r1
  r2 = r2
  NoToken = NoToken
  NoOp = NoOp
  Ops <- MCOps
  Tokens <- MCTokens
  Requests <- MCRequests
  Confirms = {1}
  confirmEnabled = TRUE
  nativeValue <- MCValue
  thresholdWei = 5
  ttlMs = 2
  HasContact <- OnlyLarge
  Addressable <- OnlyLarge
  HasChannel = TRUE
  rustSignerUrl = TRUE
  rustSignerRequired = TRUE
  privateKey = TRUE
  Restarts = FALSE
  MaxNow = 3
  NoKey = "none"
  Ids = {"a", "b"}
  Keys = {"k1", "k2"}
  Created <- IdentityCreated
  OnDisk <- IdentityOnDisk
  SignerModes = {"none", "required"}
  Passphrase = TRUE
  MaxBlocks = 2
  MaxJobs = 2
  MaxBoots = 2
  MaxFaults = 1
  Addresses = {"a", "b"}
  Values = {0, 2}
  Amounts = {1}
  Caps = {1}
  MaxCalls = 2
  Bodies <- RelayBodies
  MaxPerAddress = 1
  MaxGlobal = 2
  HourLength = 2
  RelayMaxClock = 3
  Payments <- X402Payments
  AuthEnabled = TRUE
  AuthTtl = 0
  X402MaxClock = 1
  MaxRequests = 3
  ServiceFaults = 1
SYMMETRY Symmetry
INVARIANT
  ConsumedBySuccessfulSign
CHECK_DEADLOCK FALSE
