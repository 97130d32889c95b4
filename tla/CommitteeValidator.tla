--------------------------- MODULE CommitteeValidator --------------------------
(***************************************************************************)
(* contracts/src/AAStarCommitteeValidator.sol: epochs, the snapshots that  *)
(* freeze the active set for the next epoch's committees, and validate in  *)
(* committee mode.  The contract is composed with its environment: the     *)
(* chain (block number and clock), and the SuperPaymaster contracts that   *)
(* let an operator withdraw its stake after an exit notice.                *)
(*                                                                         *)
(* A block's hash is represented by its number (distinct blocks have       *)
(* distinct hashes), a snapshot's Merkle root by the vector of its leaves. *)
(***************************************************************************)
EXTENDS ActiveSet, CommitteeMath

CONSTANTS
  Accounts,             \* smart accounts that enroll
  Draw,                 \* keccak256(CMT_SELECT, seed, account, node)
  MIN_EPOCH_LENGTH,     \* 64
  PIN_WINDOW,           \* 256
  MAX_BLOCK_SECONDS,    \* 24
  GUARDIAN_EXIT_DELAY,  \* 2 days
  MIN_COMMITTEE,        \* 3
  DefaultOversample,    \* <<5, 4>>
  EpochLengths,         \* bound: the values of each setting considered
  Oversamples,
  MinCommittees,
  BlockTimes,           \* seconds from one block to the next
  MaxBlock,             \* bound: blocks
  MaxConfig,            \* bound: configuration changes
  MaxAgg                \* bound: aggregators a Registry publishes in turn

Epochs == 0..MaxBlock

ASSUME CommitteeAssumption ==
  /\ MIN_EPOCH_LENGTH \in Nat \ {0}
  /\ PIN_WINDOW \in Nat
  /\ MAX_BLOCK_SECONDS \in Nat
  /\ GUARDIAN_EXIT_DELAY \in Nat \ {0}
  /\ MIN_COMMITTEE \in Nat \ {0}
  /\ MAX_NODE_COUNT >= 58   \* the largest quorum of the curve
  /\ EpochLengths \subseteq Nat
  /\ MinCommittees \subseteq Nat
  /\ Oversamples \subseteq Nat \X Nat
  /\ DefaultOversample \in Nat \X Nat /\ DefaultOversample[2] # 0
  /\ BlockTimes \subseteq Nat \ {0}
  /\ MaxBlock \in Nat /\ MaxConfig \in Nat /\ MaxAgg \in Nat
  /\ NoAddr \notin Registries \X (1..MaxAgg)

VARIABLES
  epochLength,      \* blocks per epoch, 0 when committee mode is off
  oversample,       \* <<oversampleNum, oversampleDen>>
  minCommittee,
  blsAggregator,    \* a <<registry, generation>> or NoAddr
  configVersion,
  enrolledAccount,  \* the set of accounts mapped to true
  epochPinned,      \* the set of epochs mapped to true
  epochs,           \* epoch -> epochSeed, epochSetRoot, epochSetCount,
                    \*          epochConfigVersion, epochSetValidUntil
  blockNumber,
  timestamp,
  publishedAggregator,  \* external: registry -> generation, 0 before the first
  exitReadyAt,      \* external: aggregator -> operator -> readyAt, 0 for none
  freeze            \* history: what was true when the epoch was pinned, and
                    \* whether an operator frozen with it has withdrawn since

configVars    == <<epochLength, oversample, minCommittee, blsAggregator>>
epochVars     == <<epochPinned, epochs, freeze>>
chainVars     == <<blockNumber, timestamp>>
exitVars      == <<publishedAggregator, exitReadyAt>>
committeeVars == <<activeVars, configVars, configVersion, enrolledAccount,
                   epochVars, chainVars, exitVars>>

Aggregators == Registries \X (1..MaxAgg)

\* Everything a snapshot's meaning depends on
Config == [epochLength |-> epochLength, oversample |-> oversample,
           minCommittee |-> minCommittee, blsAggregator |-> blsAggregator,
           registry |-> registry, requireStake |-> requireStake,
           minStake |-> minStake]

NoEpoch == [seed |-> 0, setRoot |-> [s \in Slots |-> 0], setCount |-> 0,
            configVersion |-> 0, validUntil |-> 0]

CommitteeInit ==
  /\ ActiveInit
  /\ epochLength = 0
  /\ oversample = DefaultOversample
  /\ minCommittee = MIN_COMMITTEE
  /\ blsAggregator = NoAddr
  /\ configVersion = 0
  /\ enrolledAccount = {}
  /\ epochPinned = {}
  /\ epochs = [e \in Epochs |-> NoEpoch]
  /\ blockNumber = 0
  /\ timestamp = 0
  /\ publishedAggregator = [r \in Registries |-> 0]
  /\ exitReadyAt = [g \in Aggregators |-> [a \in Addrs |-> 0]]
  /\ freeze = [e \in Epochs |-> [config |-> Config, block |-> 0, time |-> 0,
                                 nodes |-> {}, operators |-> {}, lost |-> FALSE]]

--------------------------------------------------------------------------------
(* Configuration. *)

\* configVersion += 1
BumpConfig ==
  /\ configVersion < MaxConfig
  /\ configVersion' = configVersion + 1

\* Mutant: the version is not bumped
KeepConfig == UNCHANGED configVersion

\* _onEligibilityConfigChanged
OnEligibilityConfigChanged == BumpConfig

OnlyConfig == UNCHANGED <<activeVars, enrolledAccount, epochVars, chainVars, exitVars>>

SetEpochLength(a, len) ==
  /\ a = owner
  /\ len = 0 \/ len >= MIN_EPOCH_LENGTH
  /\ len = 0 \/ 2 * len * MAX_BLOCK_SECONDS < GUARDIAN_EXIT_DELAY
  /\ epochLength' = len
  /\ BumpConfig
  /\ OnlyConfig /\ UNCHANGED <<oversample, minCommittee, blsAggregator>>

\* _registryAggregator() returns agg
RegistryAggregatorIs(agg) ==
  /\ registry # NoAddr
  /\ publishedAggregator[registry] # 0
  /\ agg = <<registry, publishedAggregator[registry]>>

SetBlsAggregator(a, agg) ==
  /\ a = owner
  /\ RegistryAggregatorIs(agg)
  /\ blsAggregator' = agg
  /\ BumpConfig
  /\ OnlyConfig /\ UNCHANGED <<epochLength, oversample, minCommittee>>

SetMinCommittee(a, m) ==
  /\ a = owner
  /\ m >= MIN_COMMITTEE
  /\ minCommittee' = m
  /\ BumpConfig
  /\ OnlyConfig /\ UNCHANGED <<epochLength, oversample, blsAggregator>>

SetOversample(a, over) ==
  /\ a = owner
  /\ over[2] # 0 /\ over[2] <= 1000000000
  /\ over[2] <= over[1] /\ over[1] <= 8 * over[2]
  /\ oversample' = over
  /\ BumpConfig
  /\ OnlyConfig /\ UNCHANGED <<epochLength, minCommittee, blsAggregator>>

Enroll(x) ==
  /\ enrolledAccount' = enrolledAccount \cup {x}
  /\ UNCHANGED <<activeVars, configVars, configVersion, epochVars, chainVars, exitVars>>

Unenroll(x) ==
  /\ enrolledAccount' = enrolledAccount \ {x}
  /\ UNCHANGED <<activeVars, configVars, configVersion, epochVars, chainVars, exitVars>>

--------------------------------------------------------------------------------
(* Snapshots. *)

currentEpoch == blockNumber \div epochLength

\* _isEligibleForSnapshot
IsEligibleForSnapshot(n) ==
  IF n \in isBootstrap THEN ~requireStake
  ELSE /\ IsStaked(nodeOperator[n])
       /\ blsAggregator # NoAddr
       /\ exitReadyAt[blsAggregator][nodeOperator[n]] = 0

\* The blocks in which the hash of the epoch's first block can be read
PinWindow(e) ==
  /\ blockNumber > e * epochLength
  /\ blockNumber <= e * epochLength + PIN_WINDOW

\* The requires snapshotEpoch puts on every listed node
NodePinnable(n) ==
  /\ n \in isBootstrap \/ RegistryAggregatorIs(blsAggregator)
  /\ IsEligibleForSnapshot(n)

SnapshotEpoch(list) ==
  LET e == currentEpoch IN
  /\ epochLength # 0
  /\ e \notin epochPinned \/ epochs[e].configVersion # configVersion
  /\ PinWindow(e)
  /\ ListAccepted(list)
  /\ \A i \in DOMAIN list : NodePinnable(list[i])
  /\ epochs' = [epochs EXCEPT ![e] =
                  [seed |-> e * epochLength, setRoot |-> leaves,
                   setCount |-> activeCount, configVersion |-> configVersion,
                   validUntil |-> timestamp + GUARDIAN_EXIT_DELAY]]
  /\ epochPinned' = epochPinned \cup {e}
  /\ freeze' = [freeze EXCEPT ![e] =
                  [config |-> Config, block |-> blockNumber, time |-> timestamp,
                   nodes |-> isRegistered,
                   operators |-> {nodeOperator[n] : n \in isRegistered \ isBootstrap},
                   lost |-> FALSE]]
  /\ UNCHANGED <<activeVars, configVars, configVersion, enrolledAccount,
                 chainVars, exitVars>>

\* Mutant: there is no way to retire a node whose operator is leaving
SyncExitNever(n) == FALSE /\ UNCHANGED committeeVars

SyncExitNotice(n) ==
  /\ n \in isRegistered
  /\ n \notin isBootstrap
  /\ blsAggregator # NoAddr
  /\ RegistryAggregatorIs(blsAggregator)
  /\ exitReadyAt[blsAggregator][nodeOperator[n]] # 0
  /\ Deactivate(n)
  /\ OnNodeDeactivated(n)
  /\ UNCHANGED <<policyVars, stakeVars, configVars, configVersion, enrolledAccount,
                 epochVars, chainVars, exitVars>>

--------------------------------------------------------------------------------
(* External: the chain, and SuperPaymaster's exit ledger as the contract's   *)
(* comments describe it.  A Registry moves on from one aggregator to its     *)
(* successor, operators file notices with the one in force, and stake leaves *)
(* through a notice that has matured.                                        *)

Tick(d) ==
  /\ blockNumber < MaxBlock
  /\ blockNumber' = blockNumber + 1
  /\ timestamp' = timestamp + d
  /\ UNCHANGED <<activeVars, configVars, configVersion, enrolledAccount, epochVars, exitVars>>

PublishAggregator(r) ==
  /\ publishedAggregator[r] < MaxAgg
  /\ publishedAggregator' = [publishedAggregator EXCEPT ![r] = @ + 1]
  /\ UNCHANGED <<activeVars, configVars, configVersion, enrolledAccount, epochVars,
                 chainVars, exitReadyAt>>

FileExit(r, a) ==
  LET agg == <<r, publishedAggregator[r]>> IN
  /\ publishedAggregator[r] # 0
  /\ a \in role[r]
  /\ exitReadyAt[agg][a] = 0
  /\ exitReadyAt' = [exitReadyAt EXCEPT ![agg][a] = timestamp + GUARDIAN_EXIT_DELAY]
  /\ UNCHANGED <<activeVars, configVars, configVersion, enrolledAccount, epochVars,
                 chainVars, publishedAggregator>>

CancelExit(r, a) ==
  LET agg == <<r, publishedAggregator[r]>> IN
  /\ publishedAggregator[r] # 0
  /\ exitReadyAt[agg][a] # 0
  /\ exitReadyAt' = [exitReadyAt EXCEPT ![agg][a] = 0]
  /\ UNCHANGED <<activeVars, configVars, configVersion, enrolledAccount, epochVars,
                 chainVars, publishedAggregator>>

\* The operator's stake leaves: the epochs it was frozen into have lost a bond
WithdrawStake(r, a) ==
  LET agg == <<r, publishedAggregator[r]>> IN
  /\ publishedAggregator[r] # 0
  /\ a \in role[r]
  /\ exitReadyAt[agg][a] # 0
  /\ exitReadyAt[agg][a] <= timestamp
  /\ exitReadyAt' = [exitReadyAt EXCEPT ![agg][a] = 0]
  /\ role' = [role EXCEPT ![r] = @ \ {a}]
  /\ stake' = [stake EXCEPT ![r][a] = 0]
  /\ freeze' = [e \in Epochs |->
                  IF freeze[e].config.registry = r /\ a \in freeze[e].operators
                  THEN [freeze[e] EXCEPT !.lost = TRUE] ELSE freeze[e]]
  /\ UNCHANGED <<identityVars, policyVars, slotVars, configVars, configVersion,
                 enrolledAccount, epochPinned, epochs, chainVars, publishedAggregator>>

--------------------------------------------------------------------------------
(* The system. *)

RestUnchanged == UNCHANGED <<configVars, enrolledAccount, epochVars, chainVars, exitVars>>

InheritedNext ==
  \/ MembershipNext /\ UNCHANGED configVersion /\ RestUnchanged
  \/ OtherNext /\ UNCHANGED <<slotVars, configVersion>> /\ RestUnchanged
  \/ PolicyNext /\ UNCHANGED slotVars /\ OnEligibilityConfigChanged /\ RestUnchanged

ConfigNext ==
  \/ \E a \in Addrs, len \in EpochLengths : SetEpochLength(a, len)
  \/ \E a \in Addrs, agg \in Aggregators : SetBlsAggregator(a, agg)
  \/ \E a \in Addrs, m \in MinCommittees : SetMinCommittee(a, m)
  \/ \E a \in Addrs, over \in Oversamples : SetOversample(a, over)

AccountNext == \E x \in Accounts : Enroll(x) \/ Unenroll(x)

KeeperNext ==
  \/ \E list \in Lists : SnapshotEpoch(list)
  \/ \E n \in NodeIds : SyncExitNotice(n)

ExternalNext ==
  \/ \E d \in BlockTimes : Tick(d)
  \/ \E r \in Registries : PublishAggregator(r)
  \/ \E r \in Registries, a \in Addrs : FileExit(r, a)
  \/ \E r \in Registries, a \in Addrs : CancelExit(r, a)
  \/ \E r \in Registries, a \in Addrs : WithdrawStake(r, a)

CommitteeNext ==
  InheritedNext \/ ConfigNext \/ AccountNext \/ KeeperNext \/ ExternalNext

CommitteeSpec == CommitteeInit /\ [][CommitteeNext]_committeeVars

--------------------------------------------------------------------------------
(* validate in committee mode. *)

\* Mutant: a snapshot is still usable in its last second
EpochUsableInclusive(e) ==
  /\ e \in epochPinned
  /\ epochs[e].configVersion = configVersion
  /\ timestamp <= epochs[e].validUntil

\* _epochUsable
EpochUsable(e) ==
  /\ e \in epochPinned
  /\ epochs[e].configVersion = configVersion
  /\ timestamp < epochs[e].validUntil

requiredQuorum ==
  LET e == currentEpoch
      n == epochs[e - 1].setCount
  IN  IF epochLength = 0 THEN MAX_UINT
      ELSE IF e = 0 \/ ~EpochUsable(e) \/ ~EpochUsable(e - 1) THEN MAX_UINT
      ELSE IF n < minCommittee THEN MAX_UINT
      ELSE quorumOf(expectedCommittee(n))

\* Mutant: the Merkle proof of membership in the frozen set is not checked
SignerVerifiedLive(account, n, slot, e) ==
  LET count == epochs[e - 1].setCount
      t     == thresholdOf(count, expectedCommittee(count), oversample)
  IN  /\ slot \in Slots
      /\ n \in isRegistered
      /\ ~(requireStake /\ n \in isBootstrap)
      /\ t # MAX_UINT => Draw[<<epochs[e].seed, account, n>>] < t

\* _verifyCommitteeSigners for one signer, given as its node id and slot
SignerVerified(account, n, slot, e) ==
  LET count == epochs[e - 1].setCount
      t     == thresholdOf(count, expectedCommittee(count), oversample)
  IN  /\ slot \in Slots
      /\ n \in isRegistered
      /\ ~(requireStake /\ n \in isBootstrap)
      /\ epochs[e - 1].setRoot[slot] = n
      /\ t # MAX_UINT => Draw[<<epochs[e].seed, account, n>>] < t

\* validate up to the pairing check, in committee mode, for the signers and
\* the slots in the payload
CommitteeAccepts(account, ids, slots) ==
  LET e == currentEpoch IN
  /\ epochLength # 0
  /\ e # 0
  /\ EpochUsable(e)
  /\ EpochUsable(e - 1)
  /\ epochs[e - 1].setCount >= minCommittee
  /\ account \in enrolledAccount
  /\ 0 < Len(ids) /\ Len(ids) <= MAX_NODE_COUNT
  /\ Len(ids) >= quorumOf(expectedCommittee(epochs[e - 1].setCount))
  /\ \A i \in DOMAIN ids :
       /\ i > 1 => ids[i - 1] < ids[i]
       /\ SignerVerified(account, ids[i], slots[i], e)

--------------------------------------------------------------------------------
(* Properties. *)

\* The type invariant; the settings stay in the ranges their setters enforce,
\* so that no later computation divides by zero.
CommitteeTypeOK ==
  /\ epochLength \in Nat
  /\ epochLength = 0 \/ epochLength >= MIN_EPOCH_LENGTH
  /\ oversample \in Nat \X Nat /\ oversample[2] # 0
  /\ minCommittee \in Nat /\ minCommittee >= MIN_COMMITTEE
  /\ blsAggregator \in Aggregators \cup {NoAddr}
  /\ configVersion \in 0..MaxConfig
  /\ enrolledAccount \subseteq Accounts
  /\ epochPinned \subseteq Epochs
  /\ epochs \in [Epochs -> [seed: Nat, setRoot: [Slots -> NodeIds \cup {0}],
                            setCount: Nat, configVersion: 0..MaxConfig,
                            validUntil: Nat]]
  /\ blockNumber \in 0..MaxBlock
  /\ timestamp \in Nat
  /\ publishedAggregator \in [Registries -> 0..MaxAgg]
  /\ exitReadyAt \in [Aggregators -> [Addrs -> Nat]]
  /\ DOMAIN freeze = Epochs

\* The set a committee is drawn from was frozen before the block whose hash
\* seeds the draw: nobody could register to order.  It holds across changes of
\* the schedule, re-pins and missed epochs.
LookAhead ==
  \A e \in Epochs \ {0} : EpochUsable(e) /\ EpochUsable(e - 1) =>
    freeze[e - 1].block < epochs[e].seed

\* Frozen implies still bonded: while a snapshot is usable, no operator frozen
\* into it has withdrawn its stake, although notices are filed, cancelled and
\* filed again, the Registry changes its aggregator and the chain may halt.
FrozenStillBonded == \A e \in Epochs : EpochUsable(e) => ~freeze[e].lost

\* A usable snapshot was taken under the configuration in force: no setter
\* changes what an already frozen committee means.
PinnedUnderCurrentConfig ==
  \A e \in Epochs : EpochUsable(e) => freeze[e].config = Config

\* What is pinned is the whole registered set, every member of it eligible at
\* that moment: the root commits to exactly those nodes and the count, which
\* the floor and the quorum are computed from, is their number.
PinsEligibleSet ==
  [][\A e \in Epochs :
       (e \in epochPinned' \ epochPinned \/ epochs'[e] # epochs[e]) =>
         /\ \A n \in isRegistered : IsEligibleForSnapshot(n)
         /\ {epochs'[e].setRoot[s] : s \in Slots} \ {0} = isRegistered
         /\ epochs'[e].setCount = Cardinality(isRegistered)]_committeeVars

\* Every committee validate accepts is a quorum of the frozen set: its signers
\* are different nodes that were registered when the set was frozen and are
\* registered now, at least two thirds of the committee expected from a pool
\* of that size, although nodes left, came back in other slots and were
\* replaced in between.
CommitteeIsFrozenQuorum ==
  epochLength # 0 /\ currentEpoch # 0 /\ EpochUsable(currentEpoch - 1) =>
    LET nodes == freeze[currentEpoch - 1].nodes IN
    \A x \in Accounts, ids \in Lists :
      (\E slots \in [DOMAIN ids -> Slots] : CommitteeAccepts(x, ids, slots)) =>
        /\ Range(ids) \subseteq nodes \cap isRegistered
        /\ 3 * Cardinality(Range(ids)) >= 2 * expectedCommittee(Cardinality(nodes))

\* As long as blocks have come at MAX_BLOCK_SECONDS on average since the set was
\* pinned, the bound on the epoch length keeps the look-ahead set unexpired
\* throughout the epoch that needs it.
LookAheadOutlivesEpoch ==
  \A e \in Epochs \ {0} :
    /\ epochLength # 0
    /\ currentEpoch = e
    /\ e - 1 \in epochPinned
    /\ epochs[e - 1].configVersion = configVersion
    /\ timestamp - freeze[e - 1].time
         <= (blockNumber - freeze[e - 1].block) * MAX_BLOCK_SECONDS
    => timestamp < epochs[e - 1].validUntil

\* A node that blocks the snapshot can be retired by anyone, unless the
\* validator has to be pointed at the Registry's current aggregator first.
NoSnapshotDeadlock ==
  \A n \in isRegistered :
    ~IsEligibleForSnapshot(n) /\ RegistryAggregatorIs(blsAggregator) =>
      ENABLED LeaveStale(n) \/ ENABLED SyncExitNotice(n)

\* What a client can read of a pinned set: the nodes in it, the slot of each, and
\* the payloads that name some of them
FrozenNodes(e) == {epochs[e].setRoot[s] : s \in Slots} \ {0}
FrozenSlot(e, n) == CHOOSE s \in Slots : epochs[e].setRoot[s] = n
Payloads(e) == UNION {[1..m -> FrozenNodes(e)] : m \in 0..epochs[e].setCount}
PayloadAccepted(x, ids, e) ==
  CommitteeAccepts(x, ids, [i \in DOMAIN ids |-> FrozenSlot(e, ids[i])])

InGoodStanding(e) ==
  \A n \in FrozenNodes(e) : n \in isRegistered /\ ~(requireStake /\ n \in isBootstrap)
DrawIsOff(e) ==
  thresholdOf(epochs[e].setCount, expectedCommittee(epochs[e].setCount), oversample) = MAX_UINT

\* requiredQuorum mirrors validate: what validate accepts carries at least the
\* quorum the view announces, and when the view announces a finite one, the
\* draw is off and the frozen nodes are still in good standing, that many of
\* them are accepted from an enrolled account.
QuorumMirrorsValidate ==
  epochLength # 0 /\ currentEpoch # 0 =>
    LET p == currentEpoch - 1 IN
    \A x \in enrolledAccount :
      /\ \A ids \in Payloads(p) : PayloadAccepted(x, ids, p) => Len(ids) >= requiredQuorum
      /\ requiredQuorum # MAX_UINT /\ InGoodStanding(p) /\ DrawIsOff(p) =>
           \E ids \in Payloads(p) : Len(ids) = requiredQuorum /\ PayloadAccepted(x, ids, p)

\* What makes an epoch ready: its set was frozen under the configuration in force
\* and before its seed was known, and requiredQuorum announces what validate takes.
ReadinessSound == LookAhead /\ PinnedUnderCurrentConfig /\ QuorumMirrorsValidate

\* Neither one ineligible node nor a schedule that governance may set stops the
\* service: the node can be retired, and the look-ahead set lasts as long as needed.
ServiceNotStuck == NoSnapshotDeadlock /\ LookAheadOutlivesEpoch
================================================================================
