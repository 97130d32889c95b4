---------------------------- MODULE CommitteeProofs ----------------------------
(***************************************************************************)
(* The invariants of CommitteeValidator for every set of nodes, accounts   *)
(* and Registries, every block time, epoch length and exit delay.          *)
(***************************************************************************)
EXTENDS CommitteeValidator, ActiveSetProofs

\* A snapshot of the configuration in force
Current(e) == e \in epochPinned /\ epochs[e].configVersion = configVersion

\* What the snapshot of any pinned epoch commits to
Commits(e) ==
  /\ freeze[e].nodes \in SUBSET NodeIds
  /\ IsFiniteSet(freeze[e].nodes)
  /\ epochs[e].setCount = Cardinality(freeze[e].nodes)
  /\ \A s \in Slots : epochs[e].setRoot[s] # 0 => epochs[e].setRoot[s] \in freeze[e].nodes
  /\ \A n \in freeze[e].nodes : \E s \in Slots : epochs[e].setRoot[s] = n

\* Where and when a snapshot of the configuration in force was taken
Placed(e) ==
  /\ freeze[e].config = Config
  /\ epochLength # 0
  /\ freeze[e].block \in Nat
  /\ e * epochLength < freeze[e].block
  /\ freeze[e].block < e * epochLength + epochLength
  /\ freeze[e].block <= blockNumber
  /\ epochs[e].seed = e * epochLength
  /\ freeze[e].time \in Nat
  /\ freeze[e].time <= timestamp
  /\ epochs[e].validUntil = freeze[e].time + GUARDIAN_EXIT_DELAY

\* Its operators cannot have left before it expires: every notice they have
\* filed, or will file, where their Registry pays stake out matures later
Bonded(e) ==
  /\ freeze[e].operators \in SUBSET Addrs
  /\ freeze[e].operators # {} => registry \in Registries
  /\ freeze[e].lost => epochs[e].validUntil <= timestamp
  /\ \A a \in freeze[e].operators, g \in 1..MaxAgg :
       g >= publishedAggregator[registry] =>
         \/ exitReadyAt[<<registry, g>>][a] = 0
         \/ exitReadyAt[<<registry, g>>][a] >= epochs[e].validUntil

FreezeFields == {"config", "block", "time", "nodes", "operators", "lost"}

EpochInv ==
  /\ CommitteeTypeOK
  /\ \A e \in Epochs : DOMAIN freeze[e] = FreezeFields
  /\ \A e \in epochPinned : epochs[e].configVersion <= configVersion
  /\ \A r \in Registries, g \in 1..MaxAgg, a \in Addrs :
       g > publishedAggregator[r] => exitReadyAt[<<r, g>>][a] = 0
  /\ epochLength # 0 => 2 * epochLength * MAX_BLOCK_SECONDS < GUARDIAN_EXIT_DELAY
  /\ \A e \in epochPinned : Commits(e)
  /\ \A e \in Epochs : Current(e) => Placed(e) /\ Bonded(e)

CommitteeInv == ActiveInv /\ EpochInv

--------------------------------------------------------------------------------
\* After deployment nothing is pinned and no notice is filed.
LEMMA InitCommitteeInv == CommitteeInit => CommitteeInv
<1> SUFFICES ASSUME CommitteeInit
             PROVE  CommitteeInv
  BY Zenon
<1>1. ActiveInv
  BY Zenon, InitActiveInv DEF CommitteeInit
<1>2. CommitteeTypeOK
  <2>1. NoEpoch \in [seed: Nat, setRoot: [Slots -> NodeIds \cup {0}],
                     setCount: Nat, configVersion: 0..MaxConfig, validUntil: Nat]
    BY CommitteeAssumption DEF NoEpoch
  <2> QED
    BY <2>1, CommitteeAssumption
       DEF CommitteeInit, CommitteeTypeOK, Epochs, Aggregators
<1>3. \A e \in Epochs : DOMAIN freeze[e] = FreezeFields
  BY Zenon DEF CommitteeInit, FreezeFields
<1>4. \A r \in Registries, g \in 1..MaxAgg, a \in Addrs : exitReadyAt[<<r, g>>][a] = 0
  BY Zenon DEF CommitteeInit, Aggregators
<1> QED
  BY Zenon, <1>1, <1>2, <1>3, <1>4 DEF CommitteeInit, CommitteeInv, EpochInv, Current

--------------------------------------------------------------------------------
\* A step that leaves configuration, epochs, clock and exits alone.
LEMMA QuietStep ==
  ASSUME EpochInv, enrolledAccount' \subseteq Accounts,
         UNCHANGED <<configVars, configVersion, epochVars, chainVars, exitVars>>,
         UNCHANGED <<registry, requireStake, minStake>>
  PROVE  EpochInv'
<1> USE DEF configVars, epochVars, chainVars, exitVars
<1>1. CommitteeTypeOK'
  BY Zenon DEF EpochInv, CommitteeTypeOK
<1>2. /\ \A e : Current(e)' <=> Current(e)
      /\ \A e : Commits(e)' <=> Commits(e)
      /\ \A e : Placed(e)' <=> Placed(e)
      /\ \A e : Bonded(e)' <=> Bonded(e)
  BY ZenonT(30) DEF Current, Commits, Placed, Bonded, Config
<1> QED
  BY ZenonT(30), <1>1, <1>2 DEF EpochInv

\* A step that bumps the version makes every earlier snapshot unusable.
LEMMA BumpStep ==
  ASSUME EpochInv, BumpConfig, CommitteeTypeOK',
         UNCHANGED <<epochVars, exitVars>>,
         epochLength' # 0 => 2 * epochLength' * MAX_BLOCK_SECONDS < GUARDIAN_EXIT_DELAY
  PROVE  EpochInv'
<1> USE DEF epochVars, exitVars
<1>1. \A e \in Epochs : ~Current(e)'
  BY DEF EpochInv, CommitteeTypeOK, Current, BumpConfig
<1>2. \A e : Commits(e)' <=> Commits(e)
  BY Zenon DEF Commits
<1>3. \A e \in epochPinned' : epochs'[e].configVersion <= configVersion'
  <2> SUFFICES ASSUME NEW e \in epochPinned
               PROVE  epochs[e].configVersion <= configVersion'
    BY Zenon
  <2>1. epochs[e].configVersion <= configVersion /\ e \in Epochs
    BY Zenon DEF EpochInv, CommitteeTypeOK
  <2>2. epochs[e].configVersion \in Nat /\ configVersion \in Nat
    BY <2>1, CommitteeAssumption DEF EpochInv, CommitteeTypeOK
  <2> QED
    BY <2>1, <2>2 DEF BumpConfig
<1> QED
  BY Zenon, <1>1, <1>2, <1>3 DEF EpochInv

--------------------------------------------------------------------------------
\* The current epoch is the one whose blocks the chain is in.
LEMMA EpochBounds ==
  ASSUME EpochInv, epochLength # 0
  PROVE  /\ currentEpoch \in Epochs
         /\ currentEpoch * epochLength <= blockNumber
         /\ blockNumber < currentEpoch * epochLength + epochLength
<1>1. epochLength \in Nat /\ blockNumber \in 0..MaxBlock
  <2>1. CommitteeTypeOK
    BY Zenon DEF EpochInv
  <2> QED
    BY Zenon, <2>1 DEF CommitteeTypeOK
<1>2. MaxBlock \in Nat
  BY Zenon, CommitteeAssumption
<1> QED
  BY <1>1, <1>2 DEF currentEpoch, Epochs

\* What snapshotEpoch has established when it writes: the list is the
\* registered set, and every member passed the checks.
LEMMA SnapshotFacts ==
  ASSUME CommitteeInv, NEW list \in Lists, SnapshotEpoch(list)
  PROVE  /\ currentEpoch \in Epochs
         /\ \A n \in isRegistered : NodePinnable(n)
<1>1. list \in Seq(NodeIds)
  BY RegistryAssumption DEF Lists
<1>2. Range(list) = isRegistered
  BY Zenon, <1>1, AcceptedListIsActive DEF SnapshotEpoch, CommitteeInv, ActiveInv
<1>3. currentEpoch \in Epochs
  BY Zenon, EpochBounds DEF SnapshotEpoch, CommitteeInv
<1>4. ASSUME NEW n \in isRegistered
      PROVE  NodePinnable(n)
  <2>1. PICK i \in DOMAIN list : list[i] = n
    BY ZenonT(30), <1>2 DEF Range
  <2> QED
    BY Zenon, <2>1 DEF SnapshotEpoch
<1> QED
  BY Zenon, <1>3, <1>4

\* snapshotEpoch writes a snapshot that is placed in its epoch, bonded and
\* complete, and leaves the others as they are.
LEMMA SnapshotStep ==
  ASSUME CommitteeInv, NEW list \in Lists, SnapshotEpoch(list)
  PROVE  EpochInv'
<1> DEFINE c == currentEpoch
           ops == {nodeOperator[n] : n \in isRegistered \ isBootstrap}
           new == [seed |-> c * epochLength, setRoot |-> leaves,
                   setCount |-> activeCount, configVersion |-> configVersion,
                   validUntil |-> timestamp + GUARDIAN_EXIT_DELAY]
           rec == [config |-> Config, block |-> blockNumber, time |-> timestamp,
                   nodes |-> isRegistered, operators |-> ops, lost |-> FALSE]
<1>0. EpochInv /\ ActiveInv /\ CommitteeTypeOK /\ SlotInv /\ RegistryInv /\ RegistryTypeOK
  BY Zenon DEF CommitteeInv, EpochInv, ActiveInv, RegistryInv
<1>1. c \in Epochs /\ \A n \in isRegistered : NodePinnable(n)
  BY ZenonT(30), SnapshotFacts
<1>2. /\ epochLength # 0
      /\ blockNumber > c * epochLength
      /\ epochs' = [epochs EXCEPT ![c] = new]
      /\ epochPinned' = epochPinned \cup {c}
      /\ freeze' = [freeze EXCEPT ![c] = rec]
      /\ UNCHANGED <<activeVars, configVars, configVersion, enrolledAccount,
                     chainVars, exitVars>>
  BY ZenonT(30) DEF SnapshotEpoch, PinWindow
<1>3. blockNumber < c * epochLength + epochLength
  BY ZenonT(30), <1>0, <1>2, EpochBounds
<1> USE DEF configVars, chainVars, exitVars
<1>4. Config' = Config
  BY Zenon, <1>2 DEF Config, activeVars, registryVars, policyVars
<1>5. /\ c \in Nat /\ epochLength \in Nat /\ blockNumber \in Nat /\ timestamp \in Nat
      /\ GUARDIAN_EXIT_DELAY \in Nat /\ c * epochLength \in Nat
      /\ configVersion \in 0..MaxConfig /\ MaxConfig \in Nat
      /\ leaves \in [Slots -> NodeIds \cup {0}] /\ activeCount \in Nat
  <2>1. /\ epochLength \in Nat /\ blockNumber \in 0..MaxBlock /\ timestamp \in Nat
        /\ configVersion \in 0..MaxConfig
    BY ZenonT(30), <1>0 DEF CommitteeTypeOK
  <2>2. GUARDIAN_EXIT_DELAY \in Nat /\ MaxConfig \in Nat /\ MaxBlock \in Nat
    BY Zenon, CommitteeAssumption
  <2>3. leaves \in [Slots -> NodeIds \cup {0}] /\ activeCount \in Nat
    BY Zenon, <1>0 DEF SlotInv, SlotTypeOK
  <2>4. c \in Nat
    BY <1>1, <2>2 DEF Epochs
  <2> HIDE DEF c
  <2> QED
    BY <2>1, <2>2, <2>3, <2>4
<1>6. new \in [seed: Nat, setRoot: [Slots -> NodeIds \cup {0}],
               setCount: Nat, configVersion: 0..MaxConfig, validUntil: Nat]
  BY <1>5
<1> HIDE DEF c
<1>7. CommitteeTypeOK'
  <2> HIDE DEF new, rec
  <2> QED
    BY Zenon, <1>0, <1>1, <1>2, <1>6 DEF CommitteeTypeOK
<1>8. /\ DOMAIN epochs = Epochs /\ DOMAIN freeze = Epochs
      /\ epochs'[c] = new /\ freeze'[c] = rec
      /\ \A e \in Epochs : e # c => epochs'[e] = epochs[e] /\ freeze'[e] = freeze[e]
  <2> HIDE DEF new, rec
  <2> QED
    BY ZenonT(30), <1>0, <1>1, <1>2 DEF CommitteeTypeOK
<1>9. ASSUME NEW e \in Epochs
      PROVE  DOMAIN freeze'[e] = FreezeFields
  <2>1. DOMAIN rec = FreezeFields
    BY ZenonT(30) DEF FreezeFields
  <2>2. DOMAIN freeze[e] = FreezeFields
    BY ZenonT(30), <1>0 DEF EpochInv
  <2> HIDE DEF rec
  <2> QED
    BY ZenonT(30), <1>8, <2>1, <2>2
<1>10. ASSUME NEW e \in epochPinned'
       PROVE  epochs'[e].configVersion <= configVersion'
  <2>1. e \in Epochs
    BY ZenonT(30), <1>7 DEF CommitteeTypeOK
  <2>2. CASE e = c
    BY <2>2, <1>2, <1>5, <1>8
  <2>3. CASE e # c
    BY Zenon, <2>1, <2>3, <1>0, <1>2, <1>8 DEF EpochInv
  <2> QED
    BY ZenonT(30), <2>2, <2>3
<1>11. ASSUME NEW e \in epochPinned'
       PROVE  Commits(e)'
  <2>1. e \in Epochs
    BY Zenon, <1>7 DEF CommitteeTypeOK
  <2>2. CASE e = c
    <3>1. /\ freeze'[e].nodes = isRegistered
          /\ epochs'[e].setCount = activeCount /\ epochs'[e].setRoot = leaves
      BY <2>2, <1>8
    <3>2. /\ isRegistered \in SUBSET NodeIds /\ IsFiniteSet(isRegistered)
          /\ activeCount = Cardinality(isRegistered)
      BY Zenon, <1>0 DEF RegistryTypeOK, SlotInv, CommitsToRegistered
    <3>3. ASSUME NEW s \in Slots, leaves[s] # 0
          PROVE  leaves[s] \in isRegistered
      <4>1. leaves[s] \in NodeIds
        BY ZenonT(30), <1>5, <3>3
      <4>2. slotPlusOne[leaves[s]] = s + 1 /\ s + 1 # 0
        BY <1>0, <3>3, TreeAssumption DEF SlotInv, CommitsToRegistered, Slots
      <4> QED
        BY ZenonT(30), <1>0, <4>1, <4>2 DEF SlotInv, CommitsToRegistered, Active
    <3>4. ASSUME NEW n \in isRegistered
          PROVE  \E s \in Slots : leaves[s] = n
      <4>1. n \in NodeIds /\ n \in Active
        BY ZenonT(30), <1>0 DEF RegistryTypeOK, SlotInv, CommitsToRegistered
      <4>2. slotPlusOne[n] \in 0..TreeSize /\ slotPlusOne[n] # 0
        BY ZenonT(30), <1>0, <4>1 DEF SlotInv, SlotTypeOK, Active
      <4>3. slotPlusOne[n] - 1 \in Slots
        BY <4>2, TreeAssumption DEF Slots
      <4>4. leaves[slotPlusOne[n] - 1] = n
        BY ZenonT(30), <1>0, <4>1 DEF SlotInv, CommitsToRegistered
      <4> QED
        BY ZenonT(30), <4>3, <4>4
    <3> QED
      BY ZenonT(30), <3>1, <3>2, <3>3, <3>4 DEF Commits
  <2>3. CASE e # c
    <3>1. epochs'[e] = epochs[e] /\ freeze'[e] = freeze[e] /\ Commits(e)
      BY ZenonT(30), <2>1, <2>3, <1>0, <1>2, <1>8 DEF EpochInv
    <3> QED
      BY ZenonT(30), <3>1 DEF Commits
  <2> QED
    BY Zenon, <2>2, <2>3
<1>12. ASSUME NEW e \in Epochs, Current(e)'
       PROVE  Placed(e)' /\ Bonded(e)'
  <2>1. CASE e = c
    <3>1. /\ freeze'[e].config = Config /\ freeze'[e].block = blockNumber
          /\ freeze'[e].time = timestamp /\ freeze'[e].operators = ops
          /\ freeze'[e].lost = FALSE /\ epochs'[e].seed = e * epochLength
          /\ epochs'[e].validUntil = timestamp + GUARDIAN_EXIT_DELAY
      BY <2>1, <1>8
    <3>2. Placed(e)'
      BY <3>1, <2>1, <1>2, <1>3, <1>4, <1>5, CommitteeAssumption DEF Placed
    <3>3. ASSUME NEW a \in ops
          PROVE  /\ a \in Addrs
                 /\ registry \in Registries
                 /\ publishedAggregator[registry] # 0
                 /\ exitReadyAt[<<registry, publishedAggregator[registry]>>][a] = 0
      <4>1. PICK n \in isRegistered \ isBootstrap : a = nodeOperator[n]
        BY ZenonT(30)
      <4>2. NodePinnable(n)
        BY ZenonT(30), <1>1, <4>1
      <4>3. a \in Addrs
        BY ZenonT(30), <1>0, <4>1 DEF RegistryInv, OperatorLock
      <4> QED
        BY ZenonT(30), <4>1, <4>2, <4>3, <1>0
           DEF NodePinnable, RegistryAggregatorIs, IsEligibleForSnapshot, RegistryTypeOK
    <3>4. ASSUME NEW a \in ops, NEW g \in 1..MaxAgg, g >= publishedAggregator[registry]
          PROVE  exitReadyAt[<<registry, g>>][a] = 0
      <4>1. CASE g = publishedAggregator[registry]
        BY ZenonT(30), <3>3, <4>1
      <4>2. CASE g > publishedAggregator[registry]
        BY ZenonT(30), <3>3, <4>2, <1>0 DEF EpochInv
      <4>3. g \in Nat /\ publishedAggregator[registry] \in Nat
        <5>1. publishedAggregator \in [Registries -> 0..MaxAgg] /\ MaxAgg \in Nat
          BY ZenonT(30), <1>0, CommitteeAssumption DEF CommitteeTypeOK
        <5> QED
          BY <5>1, <3>3
      <4> QED
        BY <3>4, <4>1, <4>2, <4>3
    <3>5. registry' = registry
      BY ZenonT(30), <1>2 DEF activeVars, registryVars, policyVars
    <3> HIDE DEF ops
    <3>6. Bonded(e)'
      BY ZenonT(30), <3>1, <3>3, <3>4, <3>5, <1>2 DEF Bonded
    <3> QED
      BY ZenonT(30), <3>2, <3>6
  <2>2. CASE e # c
    <3>1. Current(e)
      BY ZenonT(30), <1>12, <2>2, <1>2, <1>8 DEF Current
    <3>2. Placed(e) /\ Bonded(e)
      BY ZenonT(30), <3>1, <1>0 DEF EpochInv
    <3>3. registry' = registry
      BY ZenonT(30), <1>2 DEF activeVars, registryVars, policyVars
    <3> QED
      BY ZenonT(30), <3>2, <3>3, <2>2, <1>2, <1>4, <1>8 DEF Placed, Bonded
  <2> QED
    BY ZenonT(30), <2>1, <2>2
<1> QED
  BY ZenonT(30), <1>0, <1>2, <1>7, <1>9, <1>10, <1>11, <1>12 DEF EpochInv

--------------------------------------------------------------------------------
\* What has passed by t has passed later on.
LEMMA StillPassed ==
  ASSUME NEW t \in Nat, NEW d \in Nat, NEW u \in Nat, u <= t
  PROVE  u <= t + d
  OBVIOUS

\* Time passes: every snapshot stays where it was pinned and only ages.
LEMMA TickStep ==
  ASSUME EpochInv, NEW d \in BlockTimes, Tick(d)
  PROVE  EpochInv'
<1>1. CommitteeTypeOK
  BY ZenonT(30) DEF EpochInv
<1>2. /\ blockNumber \in Nat /\ timestamp \in Nat /\ MAX_BLOCK_SECONDS \in Nat
      /\ d \in Nat /\ MaxBlock \in Nat /\ blockNumber < MaxBlock
  BY <1>1, CommitteeAssumption DEF CommitteeTypeOK, Tick
<1>3. CommitteeTypeOK'
  BY <1>1, <1>2 DEF CommitteeTypeOK, Tick, configVars, epochVars, exitVars
<1>4. /\ blockNumber' = blockNumber + 1 /\ timestamp' = timestamp + d
      /\ UNCHANGED <<epochLength, configVersion, epochPinned, epochs, freeze,
                     publishedAggregator, exitReadyAt>>
  BY Zenon DEF Tick, configVars, epochVars, exitVars
<1>5. registry' = registry /\ Config' = Config
  BY Zenon DEF Tick, Config, configVars, activeVars, registryVars, policyVars
<1>6. ASSUME NEW e \in Epochs, Placed(e), Bonded(e), epochs[e].validUntil \in Nat
      PROVE  Placed(e)' /\ Bonded(e)'
  <2>1. Placed(e)'
    <3>1. /\ freeze[e].block \in Nat /\ freeze[e].block <= blockNumber
          /\ freeze[e].time \in Nat /\ freeze[e].time <= timestamp
      BY ZenonT(30), <1>6 DEF Placed
    <3>2. freeze[e].block <= blockNumber' /\ freeze[e].time <= timestamp'
      BY <3>1, <1>2, <1>4
    <3> QED
      BY ZenonT(30), <3>2, <1>4, <1>5, <1>6 DEF Placed
  <2>2. Bonded(e)'
    <3>1. epochs[e].validUntil <= timestamp => epochs[e].validUntil <= timestamp'
      BY ZenonT(30), <1>2, <1>4, <1>6, StillPassed
    <3> QED
      BY ZenonT(30), <3>1, <1>4, <1>5, <1>6 DEF Bonded
  <2> QED
    BY ZenonT(30), <2>1, <2>2
<1>7. \A e : (Current(e)' <=> Current(e)) /\ (Commits(e)' <=> Commits(e))
  BY <1>4 DEF Current, Commits
<1>8. \A e \in Epochs : epochs[e].validUntil \in Nat
  BY ZenonT(30), <1>1 DEF CommitteeTypeOK
<1>9. \A e \in Epochs : Current(e)' => Placed(e)' /\ Bonded(e)'
  BY ZenonT(30), <1>6, <1>7, <1>8 DEF EpochInv
<1> QED
  BY ZenonT(30), <1>3, <1>4, <1>7, <1>9 DEF EpochInv

--------------------------------------------------------------------------------
\* The exit ledger moves: the notices it changes leave every current snapshot
\* bonded, and a withdrawal comes after the snapshot has expired.
LEMMA ExitStep ==
  ASSUME EpochInv, CommitteeTypeOK', UNCHANGED <<registry, requireStake, minStake>>,
         UNCHANGED <<configVars, configVersion, epochPinned, epochs, chainVars>>,
         \A e \in Epochs :
           /\ DOMAIN freeze'[e] = FreezeFields
           /\ freeze'[e].config = freeze[e].config /\ freeze'[e].block = freeze[e].block
           /\ freeze'[e].time = freeze[e].time /\ freeze'[e].nodes = freeze[e].nodes,
         \A r \in Registries, g \in 1..MaxAgg, a \in Addrs :
           g > publishedAggregator'[r] => exitReadyAt'[<<r, g>>][a] = 0,
         \A e \in Epochs : Current(e) /\ Placed(e) /\ Bonded(e) => Bonded(e)'
  PROVE  EpochInv'
<1> USE DEF configVars, chainVars
<1>1. Config' = Config
  BY ZenonT(30) DEF Config
<1>2. \A e : Current(e)' <=> Current(e)
  BY ZenonT(30) DEF Current
<1>3. \A e \in Epochs : (Commits(e)' <=> Commits(e)) /\ (Placed(e)' <=> Placed(e))
  BY ZenonT(30), <1>1 DEF Commits, Placed
<1>4. epochPinned \subseteq Epochs
  BY ZenonT(30) DEF EpochInv, CommitteeTypeOK
<1>5. \A e \in epochPinned' : Commits(e)' /\ epochs'[e].configVersion <= configVersion'
  BY ZenonT(30), <1>3, <1>4 DEF EpochInv
<1>6. \A e \in Epochs : Current(e)' => Placed(e)' /\ Bonded(e)'
  BY ZenonT(30), <1>2, <1>3 DEF EpochInv
<1> QED
  BY ZenonT(30), <1>5, <1>6 DEF EpochInv

\* A Registry moves on to its next aggregator, whose ledger is still empty.
LEMMA PublishStep ==
  ASSUME EpochInv, NEW r \in Registries, PublishAggregator(r)
  PROVE  EpochInv'
<1> USE DEF PublishAggregator, configVars, chainVars, epochVars
<1>1. CommitteeTypeOK /\ MaxAgg \in Nat
  BY ZenonT(30), CommitteeAssumption DEF EpochInv
<1>2. /\ publishedAggregator \in [Registries -> 0..MaxAgg]
      /\ publishedAggregator[r] < MaxAgg
      /\ publishedAggregator' = [publishedAggregator EXCEPT ![r] = @ + 1]
  BY Zenon, <1>1 DEF CommitteeTypeOK
<1>3. /\ publishedAggregator' \in [Registries -> 0..MaxAgg]
      /\ \A x \in Registries : /\ publishedAggregator[x] \in Nat
                               /\ publishedAggregator'[x] \in Nat
                               /\ publishedAggregator[x] <= publishedAggregator'[x]
  BY <1>1, <1>2
<1>4. CommitteeTypeOK'
  BY ZenonT(30), <1>1, <1>3 DEF CommitteeTypeOK
<1>5. UNCHANGED <<registry, requireStake, minStake>>
  BY ZenonT(30) DEF activeVars, registryVars, policyVars
<1>6. \A x \in Registries, g \in 1..MaxAgg, a \in Addrs :
        g > publishedAggregator'[x] => exitReadyAt'[<<x, g>>][a] = 0
  BY <1>3 DEF EpochInv
<1>7. \A e \in Epochs : Bonded(e) => Bonded(e)'
  <2>1. \A x \in Registries, g \in 1..MaxAgg :
          g >= publishedAggregator'[x] => g >= publishedAggregator[x]
    BY <1>1, <1>3
  <2>2. UNCHANGED <<epochs, freeze, exitReadyAt, timestamp>>
    BY Zenon
  <2> QED
    BY ZenonT(30), <2>1, <2>2, <1>5 DEF Bonded
<1>8. \A e \in Epochs : DOMAIN freeze'[e] = FreezeFields
  BY ZenonT(30) DEF EpochInv
<1> QED
  BY ZenonT(30), <1>4, <1>5, <1>6, <1>7, <1>8, ExitStep

\* One entry of the ledger changes, to nothing or to a notice filed now.
LEMMA NoticeStep ==
  ASSUME EpochInv, NEW r \in Registries, NEW a \in Addrs, NEW v,
         v = 0 \/ v = timestamp + GUARDIAN_EXIT_DELAY,
         publishedAggregator[r] # 0,
         exitReadyAt' = [exitReadyAt EXCEPT ![<<r, publishedAggregator[r]>>][a] = v],
         UNCHANGED <<registry, publishedAggregator>>
  PROVE  /\ exitReadyAt' \in [Aggregators -> [Addrs -> Nat]]
         /\ \A x \in Registries, g \in 1..MaxAgg, b \in Addrs :
              g > publishedAggregator'[x] => exitReadyAt'[<<x, g>>][b] = 0
         /\ \A e \in Epochs : Placed(e) /\ Bonded(e) =>
              \A b \in freeze[e].operators, g \in 1..MaxAgg :
                g >= publishedAggregator'[registry] =>
                  \/ exitReadyAt'[<<registry, g>>][b] = 0
                  \/ exitReadyAt'[<<registry, g>>][b] >= epochs[e].validUntil
<1> DEFINE p == publishedAggregator[r]
<1>1. CommitteeTypeOK
  BY Zenon DEF EpochInv
<1>2. /\ exitReadyAt \in [Aggregators -> [Addrs -> Nat]]
      /\ publishedAggregator \in [Registries -> 0..MaxAgg] /\ timestamp \in Nat
  BY Zenon, <1>1 DEF CommitteeTypeOK
<1>3. MaxAgg \in Nat /\ GUARDIAN_EXIT_DELAY \in Nat
  BY Zenon, CommitteeAssumption
<1>4. p \in 1..MaxAgg /\ <<r, p>> \in Aggregators /\ v \in Nat
  BY <1>2, <1>3 DEF Aggregators
<1>5. ASSUME NEW x \in Registries, NEW g \in 1..MaxAgg, NEW b \in Addrs
      PROVE  exitReadyAt'[<<x, g>>][b]
               = IF x = r /\ g = p /\ b = a THEN v ELSE exitReadyAt[<<x, g>>][b]
  <2>1. <<x, g>> \in Aggregators
    BY Zenon DEF Aggregators
  <2> QED
    BY ZenonT(30), <1>2, <1>4, <2>1
<1>6. exitReadyAt' \in [Aggregators -> [Addrs -> Nat]]
  BY ZenonT(30), <1>2, <1>4
<1>7. ASSUME NEW x \in Registries, NEW g \in 1..MaxAgg, NEW b \in Addrs,
             g > publishedAggregator'[x]
      PROVE  exitReadyAt'[<<x, g>>][b] = 0
  BY <1>2, <1>3, <1>5, <1>7 DEF EpochInv
<1>8. ASSUME NEW e \in Epochs, Placed(e), Bonded(e),
             NEW b \in freeze[e].operators, NEW g \in 1..MaxAgg,
             g >= publishedAggregator'[registry]
      PROVE  \/ exitReadyAt'[<<registry, g>>][b] = 0
             \/ exitReadyAt'[<<registry, g>>][b] >= epochs[e].validUntil
  <2>1. registry \in Registries /\ b \in Addrs
    BY ZenonT(30), <1>8 DEF Bonded
  <2>2. /\ epochs[e].validUntil = freeze[e].time + GUARDIAN_EXIT_DELAY
        /\ freeze[e].time \in Nat /\ freeze[e].time <= timestamp
    BY ZenonT(30), <1>8 DEF Placed
  <2>3. timestamp + GUARDIAN_EXIT_DELAY >= epochs[e].validUntil
    BY <2>2, <1>2, <1>3
  <2>4. \/ exitReadyAt[<<registry, g>>][b] = 0
        \/ exitReadyAt[<<registry, g>>][b] >= epochs[e].validUntil
    BY <1>8 DEF Bonded
  <2> QED
    BY <2>1, <2>3, <2>4, <1>5
<1> QED
  BY ZenonT(30), <1>6, <1>7, <1>8

\* Operators file and cancel exit notices.
LEMMA FileCancelStep ==
  ASSUME EpochInv, NEW r \in Registries, NEW a \in Addrs,
         FileExit(r, a) \/ CancelExit(r, a)
  PROVE  EpochInv'
<1>1. PICK v : /\ v = 0 \/ v = timestamp + GUARDIAN_EXIT_DELAY
               /\ publishedAggregator[r] # 0
               /\ exitReadyAt' = [exitReadyAt EXCEPT
                                    ![<<r, publishedAggregator[r]>>][a] = v]
  BY ZenonT(30) DEF FileExit, CancelExit
<1>2. UNCHANGED <<activeVars, configVars, configVersion, enrolledAccount, epochVars,
                  chainVars, publishedAggregator>>
  BY Zenon DEF FileExit, CancelExit
<1>3. UNCHANGED <<registry, requireStake, minStake>>
  BY <1>2 DEF activeVars, registryVars, policyVars
<1>4. /\ exitReadyAt' \in [Aggregators -> [Addrs -> Nat]]
      /\ \A x \in Registries, g \in 1..MaxAgg, b \in Addrs :
           g > publishedAggregator'[x] => exitReadyAt'[<<x, g>>][b] = 0
      /\ \A e \in Epochs : Placed(e) /\ Bonded(e) =>
           \A b \in freeze[e].operators, g \in 1..MaxAgg :
             g >= publishedAggregator'[registry] =>
               \/ exitReadyAt'[<<registry, g>>][b] = 0
               \/ exitReadyAt'[<<registry, g>>][b] >= epochs[e].validUntil
  BY ZenonT(30), <1>1, <1>2, <1>3, NoticeStep
<1> USE DEF configVars, epochVars, chainVars
<1>5. CommitteeTypeOK'
  BY ZenonT(30), <1>2, <1>4 DEF EpochInv, CommitteeTypeOK
<1>6. \A e \in Epochs : Placed(e) /\ Bonded(e) => Bonded(e)'
  BY ZenonT(30), <1>2, <1>3, <1>4 DEF Bonded
<1>7. \A e \in Epochs : DOMAIN freeze'[e] = FreezeFields
  BY Zenon, <1>2 DEF EpochInv
<1> QED
  BY ZenonT(30), <1>2, <1>3, <1>4, <1>5, <1>6, <1>7, ExitStep

\* Stake leaves through a matured notice: the snapshots it backed have expired.
LEMMA WithdrawStep ==
  ASSUME EpochInv, NEW r \in Registries, NEW a \in Addrs, WithdrawStake(r, a)
  PROVE  EpochInv'
<1> DEFINE p == publishedAggregator[r]
           Hit(e) == freeze[e].config.registry = r /\ a \in freeze[e].operators
<1>1. /\ p # 0 /\ exitReadyAt[<<r, p>>][a] # 0 /\ exitReadyAt[<<r, p>>][a] <= timestamp
      /\ exitReadyAt' = [exitReadyAt EXCEPT ![<<r, p>>][a] = 0]
      /\ freeze' = [e \in Epochs |-> IF Hit(e) THEN [freeze[e] EXCEPT !.lost = TRUE]
                                     ELSE freeze[e]]
      /\ UNCHANGED <<identityVars, policyVars, slotVars, configVars, configVersion,
                     enrolledAccount, epochPinned, epochs, chainVars, publishedAggregator>>
  BY Zenon DEF WithdrawStake
<1>2. UNCHANGED <<registry, requireStake, minStake>>
  BY <1>1 DEF policyVars
<1>3. /\ exitReadyAt' \in [Aggregators -> [Addrs -> Nat]]
      /\ \A x \in Registries, g \in 1..MaxAgg, b \in Addrs :
           g > publishedAggregator'[x] => exitReadyAt'[<<x, g>>][b] = 0
      /\ \A e \in Epochs : Placed(e) /\ Bonded(e) =>
           \A b \in freeze[e].operators, g \in 1..MaxAgg :
             g >= publishedAggregator'[registry] =>
               \/ exitReadyAt'[<<registry, g>>][b] = 0
               \/ exitReadyAt'[<<registry, g>>][b] >= epochs[e].validUntil
  BY ZenonT(30), <1>1, <1>2, NoticeStep
<1> USE DEF configVars, chainVars
<1>4. CommitteeTypeOK /\ CommitteeTypeOK'
  BY ZenonT(30), <1>1, <1>3 DEF EpochInv, CommitteeTypeOK
<1>5. ASSUME NEW e \in Epochs
      PROVE  /\ DOMAIN freeze'[e] = FreezeFields
             /\ freeze'[e].config = freeze[e].config /\ freeze'[e].block = freeze[e].block
             /\ freeze'[e].time = freeze[e].time /\ freeze'[e].nodes = freeze[e].nodes
             /\ freeze'[e].operators = freeze[e].operators
             /\ ~Hit(e) => freeze'[e].lost = freeze[e].lost
  <2>1. DOMAIN freeze[e] = FreezeFields
    BY ZenonT(30) DEF EpochInv
  <2>2. freeze'[e] = IF Hit(e) THEN [freeze[e] EXCEPT !.lost = TRUE] ELSE freeze[e]
    BY ZenonT(30), <1>1
  <2> HIDE DEF Hit
  <2> QED
    BY ZenonT(30), <2>1, <2>2 DEF FreezeFields
<1>6. ASSUME NEW e \in Epochs, Placed(e), Bonded(e)
      PROVE  Bonded(e)'
  <2>1. ASSUME Hit(e)
        PROVE  epochs[e].validUntil <= timestamp
    <3>1. registry = r
      <4>1. freeze[e].config = Config /\ freeze[e].config.registry = r
        BY ZenonT(30), <1>6, <2>1 DEF Placed
      <4>2. Config.registry = registry
        BY Zenon DEF Config
      <4> QED
        BY ZenonT(30), <4>1, <4>2
    <3>2. p \in 1..MaxAgg /\ p >= p
      BY <1>1, <1>4, CommitteeAssumption DEF CommitteeTypeOK
    <3>3. exitReadyAt[<<r, p>>][a] >= epochs[e].validUntil
      BY ZenonT(30), <1>1, <1>6, <2>1, <3>1, <3>2 DEF Bonded
    <3>4. /\ exitReadyAt[<<r, p>>][a] \in Nat /\ epochs[e].validUntil \in Nat
          /\ timestamp \in Nat
      <4>1. <<r, p>> \in Aggregators
        BY ZenonT(30), <3>2 DEF Aggregators
      <4>2. /\ exitReadyAt \in [Aggregators -> [Addrs -> Nat]] /\ timestamp \in Nat
            /\ \A x \in Epochs : epochs[x].validUntil \in Nat
        BY ZenonT(30), <1>4 DEF CommitteeTypeOK
      <4> QED
        BY <4>1, <4>2
    <3> QED
      BY <1>1, <3>3, <3>4
  <2>2. freeze'[e].lost => epochs'[e].validUntil <= timestamp'
    BY ZenonT(30), <1>1, <1>5, <1>6, <2>1 DEF Bonded
  <2> QED
    BY <1>1, <1>2, <1>3, <1>5, <1>6, <2>2 DEF Bonded
<1> QED
  BY ZenonT(30), <1>1, <1>2, <1>3, <1>4, <1>5, <1>6, ExitStep

--------------------------------------------------------------------------------
(* Exit notices, the inherited transactions and the setters.                *)

\* syncExitNotice retires a node as syncNode does.
LEMMA SyncExitNoticeStep ==
  ASSUME CommitteeInv, NEW n \in NodeIds, SyncExitNotice(n)
  PROVE  CommitteeInv'
<1>1. RegistryInv /\ SlotInv /\ RegistryTypeOK /\ EpochInv
  BY ZenonT(30) DEF CommitteeInv, ActiveInv, RegistryInv
<1>2. /\ n \in isRegistered /\ ClearIdentity(n) /\ registeredNodes' = registeredNodes
      /\ UNCHANGED <<policyVars, stakeVars, configVars, configVersion, enrolledAccount,
                     epochVars, chainVars, exitVars>>
      /\ OnNodeDeactivated(n)
  BY ZenonT(30) DEF SyncExitNotice, Deactivate
<1>3. registeredNodes' \in Seq(NodeIds)
  BY <1>1, <1>2 DEF RegistryTypeOK
<1>4. RegistryInv'
  BY ZenonT(30), <1>1, <1>2, <1>3, ClearIdentityInv
<1>5. SlotInv'
  <2>1. isRegistered' = isRegistered \ {n}
    BY ZenonT(30), <1>2 DEF ClearIdentity
  <2> QED
    BY ZenonT(30), <1>1, <1>2, <2>1, OnNodeDeactivatedInv
<1>6. UNCHANGED <<registry, requireStake, minStake>>
  BY ZenonT(30), <1>2 DEF policyVars
<1>7. enrolledAccount' \subseteq Accounts
  BY <1>1, <1>2 DEF EpochInv, CommitteeTypeOK
<1> QED
  BY ZenonT(30), <1>1, <1>2, <1>4, <1>5, <1>6, <1>7, QuietStep DEF CommitteeInv, ActiveInv

\* The inherited transactions, with the version bump of the policy setters.
LEMMA InheritedStep ==
  ASSUME CommitteeInv, InheritedNext
  PROVE  CommitteeInv'
<1>1. ActiveInv /\ EpochInv /\ CommitteeTypeOK
  BY Zenon DEF CommitteeInv, EpochInv
<1>2. RestUnchanged
  BY Zenon DEF InheritedNext
<1> USE DEF RestUnchanged, configVars, epochVars, chainVars, exitVars
<1>3. CASE MembershipNext /\ UNCHANGED configVersion
  <2>1. UNCHANGED <<registry, requireStake, minStake>>
    BY ZenonT(30), <1>3 DEF MembershipNext, JoinBootstrap, JoinBatch, JoinStaked, LeaveStale,
         LeaveRevoked, RegisterPublicKey, BatchRegister, RegisterWithProof, SyncNode,
         RevokePublicKey, policyVars
  <2>2. EpochInv'
    BY ZenonT(30), <1>1, <1>2, <1>3, <2>1, QuietStep DEF CommitteeTypeOK
  <2> QED
    BY <1>1, <1>3, <2>2, MembershipStepInv DEF CommitteeInv
<1>4. CASE OtherNext /\ UNCHANGED <<slotVars, configVersion>>
  <2>1. UNCHANGED <<registry, requireStake, minStake>>
    BY <1>4 DEF OtherNext, UpdatePublicKey, TransferOwnership, SetRole, SetStake,
                policyVars
  <2>2. EpochInv'
    BY ZenonT(30), <1>1, <1>2, <1>4, <2>1, QuietStep DEF CommitteeTypeOK
  <2> QED
    BY ZenonT(30), <1>1, <1>4, <2>2, NoHookStepInv DEF CommitteeInv
<1>5. CASE PolicyNext /\ UNCHANGED slotVars /\ OnEligibilityConfigChanged
  <2>1. BumpConfig
    BY <1>5 DEF OnEligibilityConfigChanged
  <2>2. CommitteeTypeOK'
    <3>1. configVersion' \in 0..MaxConfig
      BY <2>1, <1>1, CommitteeAssumption DEF CommitteeTypeOK, BumpConfig
    <3> QED
      BY ZenonT(30), <3>1, <1>1, <1>2 DEF CommitteeTypeOK
  <2>3. EpochInv'
    <3>1. epochLength' # 0 => 2 * epochLength' * MAX_BLOCK_SECONDS < GUARDIAN_EXIT_DELAY
      BY <1>1, <1>2 DEF EpochInv
    <3> QED
      BY ZenonT(30), <1>1, <1>2, <2>1, <2>2, <3>1, BumpStep
  <2> QED
    BY ZenonT(30), <1>1, <1>5, <2>3, NoHookStepInv DEF CommitteeInv
<1> QED
  BY ZenonT(30), <1>3, <1>4, <1>5 DEF InheritedNext

\* The committee's own setters.
LEMMA ConfigStep ==
  ASSUME CommitteeInv, ConfigNext
  PROVE  EpochInv' /\ UNCHANGED activeVars
<1>1. EpochInv /\ CommitteeTypeOK
  BY ZenonT(30) DEF CommitteeInv, EpochInv
<1>2. BumpConfig /\ OnlyConfig
  BY DEF ConfigNext, SetEpochLength, SetBlsAggregator, SetMinCommittee, SetOversample
<1>3. configVersion' \in 0..MaxConfig
  BY <1>1, <1>2, CommitteeAssumption DEF CommitteeTypeOK, BumpConfig
<1> USE DEF OnlyConfig, epochVars, chainVars, exitVars
<1>4. ASSUME NEW a \in Addrs, NEW len \in EpochLengths, SetEpochLength(a, len)
      PROVE  EpochInv'
  <2>1. len \in Nat
    BY CommitteeAssumption
  <2>2. CommitteeTypeOK'
    BY ZenonT(30), <1>1, <1>2, <1>3, <1>4, <2>1 DEF CommitteeTypeOK, SetEpochLength
  <2> QED
    BY ZenonT(30), <1>1, <1>2, <1>4, <2>2, BumpStep DEF SetEpochLength
<1>5. ASSUME UNCHANGED epochLength, CommitteeTypeOK'
      PROVE  EpochInv'
  <2>1. epochLength' # 0 => 2 * epochLength' * MAX_BLOCK_SECONDS < GUARDIAN_EXIT_DELAY
    BY ZenonT(30), <1>1, <1>5 DEF EpochInv
  <2> QED
    BY ZenonT(30), <1>1, <1>2, <1>5, <2>1, BumpStep
<1>6. ASSUME NEW a \in Addrs, NEW agg \in Aggregators, SetBlsAggregator(a, agg)
      PROVE  EpochInv'
  <2>1. CommitteeTypeOK'
    BY ZenonT(30), <1>1, <1>2, <1>3, <1>6 DEF CommitteeTypeOK, SetBlsAggregator
  <2> QED
    BY ZenonT(30), <1>5, <1>6, <2>1 DEF SetBlsAggregator
<1>7. ASSUME NEW a \in Addrs, NEW m \in MinCommittees, SetMinCommittee(a, m)
      PROVE  EpochInv'
  <2>1. m \in Nat
    BY CommitteeAssumption
  <2>2. CommitteeTypeOK'
    BY ZenonT(30), <1>1, <1>2, <1>3, <1>7, <2>1 DEF CommitteeTypeOK, SetMinCommittee
  <2> QED
    BY ZenonT(30), <1>5, <1>7, <2>2 DEF SetMinCommittee
<1>8. ASSUME NEW a \in Addrs, NEW over \in Oversamples, SetOversample(a, over)
      PROVE  EpochInv'
  <2>1. over \in Nat \X Nat
    BY ZenonT(30), CommitteeAssumption
  <2>2. CommitteeTypeOK'
    BY <1>1, <1>2, <1>3, <1>8, <2>1 DEF CommitteeTypeOK, SetOversample
  <2> QED
    BY <1>5, <1>8, <2>2 DEF SetOversample
<1> QED
  BY ZenonT(30), <1>2, <1>4, <1>6, <1>7, <1>8 DEF ConfigNext

\* Steps that leave the registry and the slots alone.
LEMMA ActiveStutter ==
  ASSUME ActiveInv, UNCHANGED <<identityVars, policyVars, slotVars>>, RegistryTypeOK'
  PROVE  ActiveInv'
<1>1. RegistryInv'
  BY IdentityUnchangedInv DEF ActiveInv
<1>2. SlotInv'
  BY SlotsUnchangedInv DEF ActiveInv, identityVars
<1> QED
  BY <1>1, <1>2 DEF ActiveInv

\* Every step of the committee validator and its environment.
LEMMA NextCommitteeInv ==
  ASSUME CommitteeInv, [CommitteeNext]_committeeVars
  PROVE  CommitteeInv'
<1>1. ActiveInv /\ EpochInv /\ CommitteeTypeOK /\ RegistryTypeOK
  BY ZenonT(30) DEF CommitteeInv, EpochInv, ActiveInv, RegistryInv
<1>2. ASSUME UNCHANGED activeVars
      PROVE  ActiveInv'
  <2>1. RegistryTypeOK' /\ UNCHANGED <<identityVars, policyVars, slotVars>>
    BY <1>1, <1>2 DEF RegistryTypeOK, activeVars, registryVars, identityVars,
                      policyVars, stakeVars
  <2> QED
    BY <1>1, <2>1, ActiveStutter
<1>3. CASE InheritedNext
  BY <1>3, InheritedStep
<1>4. CASE ConfigNext
  BY <1>2, <1>4, ConfigStep DEF CommitteeInv
<1>5. CASE AccountNext \/ UNCHANGED committeeVars
  <2>1. /\ UNCHANGED <<activeVars, configVars, configVersion, epochVars, chainVars, exitVars>>
        /\ enrolledAccount' \subseteq Accounts
    BY <1>1, <1>5 DEF AccountNext, Enroll, Unenroll, committeeVars, CommitteeTypeOK
  <2>2. UNCHANGED <<registry, requireStake, minStake>>
    BY <2>1 DEF activeVars, registryVars, policyVars
  <2> QED
    BY ZenonT(30), <1>1, <1>2, <2>1, <2>2, QuietStep DEF CommitteeInv
<1>6. ASSUME NEW list \in Lists, SnapshotEpoch(list)
      PROVE  CommitteeInv'
  <2>1. UNCHANGED activeVars
    BY ZenonT(30), <1>6 DEF SnapshotEpoch
  <2> QED
    BY <1>2, <1>6, <2>1, SnapshotStep DEF CommitteeInv
<1>7. ASSUME NEW d \in BlockTimes, Tick(d)
      PROVE  CommitteeInv'
  BY <1>1, <1>2, <1>7, TickStep DEF CommitteeInv, Tick
<1>8. ASSUME NEW r \in Registries, PublishAggregator(r)
      PROVE  CommitteeInv'
  BY ZenonT(30), <1>1, <1>2, <1>8, PublishStep DEF CommitteeInv, PublishAggregator
<1>9. ASSUME NEW r \in Registries, NEW a \in Addrs, FileExit(r, a) \/ CancelExit(r, a)
      PROVE  CommitteeInv'
  <2>1. UNCHANGED activeVars
    BY <1>9 DEF FileExit, CancelExit
  <2> QED
    BY ZenonT(30), <1>1, <1>2, <1>9, <2>1, FileCancelStep DEF CommitteeInv
<1>10. ASSUME NEW r \in Registries, NEW a \in Addrs, WithdrawStake(r, a)
       PROVE  CommitteeInv'
  <2>1. /\ UNCHANGED <<identityVars, policyVars, slotVars>>
        /\ role' = [role EXCEPT ![r] = @ \ {a}]
        /\ stake' = [stake EXCEPT ![r][a] = 0]
    BY ZenonT(30), <1>10 DEF WithdrawStake
  <2>2. RegistryTypeOK'
    <3>1. role' \in [Registries -> SUBSET Addrs]
      BY <1>1, <2>1 DEF RegistryTypeOK
    <3>2. 0 \in 0..MaxStake
      BY RegistryAssumption
    <3>3. stake' \in [Registries -> [Addrs -> 0..MaxStake]]
      BY <1>1, <2>1, <3>2 DEF RegistryTypeOK
    <3> QED
      BY ZenonT(30), <1>1, <2>1, <3>1, <3>3 DEF RegistryTypeOK, identityVars, policyVars
  <2>3. ActiveInv'
    BY <1>1, <2>1, <2>2, ActiveStutter
  <2> QED
    BY ZenonT(30), <1>1, <1>10, <2>3, WithdrawStep DEF CommitteeInv
<1> QED
  BY ZenonT(30), <1>3, <1>4, <1>5, <1>6, <1>7, <1>8, <1>9, <1>10, SyncExitNoticeStep
     DEF CommitteeNext, KeeperNext, ExternalNext

--------------------------------------------------------------------------------
\* The inductive invariant of the whole committee validator.
THEOREM CommitteeInvariant == CommitteeSpec => []CommitteeInv
<1>1. CommitteeInv /\ [CommitteeNext]_committeeVars => CommitteeInv'
  BY NextCommitteeInv
<1> QED
  BY InitCommitteeInv, <1>1, PTL DEF CommitteeSpec

--------------------------------------------------------------------------------
\* The set a committee is drawn from was frozen before the block that seeds
\* the draw.
THEOREM LookAheadHolds == CommitteeSpec => []LookAhead
<1>1. CommitteeInv => LookAhead
  <2> SUFFICES ASSUME CommitteeInv, NEW e \in Epochs \ {0},
                      EpochUsable(e), EpochUsable(e - 1)
               PROVE  freeze[e - 1].block < epochs[e].seed
    BY DEF LookAhead
  <2>1. e \in Nat \ {0} /\ e - 1 \in Epochs
    BY CommitteeAssumption DEF Epochs
  <2>2. Placed(e) /\ Placed(e - 1)
    BY <2>1 DEF EpochUsable, Current, CommitteeInv, EpochInv
  <2>3. epochLength \in Nat
    BY DEF CommitteeInv, EpochInv, CommitteeTypeOK
  <2>4. (e - 1) * epochLength + epochLength = e * epochLength
    BY <2>1, <2>3
  <2> QED
    BY ZenonT(30), <2>2, <2>4 DEF Placed
<1> QED
  BY CommitteeInvariant, <1>1, PTL

\* What is earlier is not later.
LEMMA EarlierNotLater ==
  ASSUME NEW s \in Nat, NEW t \in Nat, s < t
  PROVE  ~(t <= s)
OBVIOUS

\* What is younger than the delay has not reached it.
LEMMA WithinDelay ==
  ASSUME NEW t \in Nat, NEW now \in Nat, NEW delay \in Nat, NEW age \in Int, NEW span \in Int,
         now - t <= age, age <= span, span < delay
  PROVE  now < t + delay
OBVIOUS

\* While a snapshot is usable, nobody frozen into it has withdrawn their stake.
THEOREM FrozenStillBondedHolds == CommitteeSpec => []FrozenStillBonded
<1>1. CommitteeInv => FrozenStillBonded
  <2> SUFFICES ASSUME CommitteeInv, NEW e \in Epochs, EpochUsable(e)
               PROVE  ~freeze[e].lost
    BY ZenonT(30) DEF FrozenStillBonded
  <2>1. Bonded(e)
    BY DEF EpochUsable, Current, CommitteeInv, EpochInv
  <2>2. timestamp \in Nat /\ epochs[e].validUntil \in Nat
    BY ZenonT(30) DEF CommitteeInv, EpochInv, CommitteeTypeOK
  <2>3. freeze[e].lost => epochs[e].validUntil <= timestamp
    BY <2>1 DEF Bonded
  <2>4. timestamp < epochs[e].validUntil
    BY DEF EpochUsable
  <2> QED
    BY ZenonT(30), <2>2, <2>3, <2>4, EarlierNotLater
<1> QED
  BY CommitteeInvariant, <1>1, PTL

\* A usable snapshot was taken under the configuration in force.
THEOREM PinnedUnderCurrentConfigHolds == CommitteeSpec => []PinnedUnderCurrentConfig
<1>1. CommitteeInv => PinnedUnderCurrentConfig
  BY DEF PinnedUnderCurrentConfig, EpochUsable, Current, CommitteeInv, EpochInv, Placed
<1> QED
  BY CommitteeInvariant, <1>1, PTL

\* The bound on the epoch length keeps the look-ahead set alive throughout the
\* epoch that needs it, as long as blocks have come in time since the pin.
THEOREM LookAheadOutlivesEpochHolds == CommitteeSpec => []LookAheadOutlivesEpoch
<1>1. CommitteeInv => LookAheadOutlivesEpoch
  <2> SUFFICES ASSUME CommitteeInv,
                      NEW e \in Epochs \ {0}, epochLength # 0, currentEpoch = e,
                      e - 1 \in epochPinned, epochs[e - 1].configVersion = configVersion,
                      timestamp - freeze[e - 1].time
                        <= (blockNumber - freeze[e - 1].block) * MAX_BLOCK_SECONDS
               PROVE  timestamp < epochs[e - 1].validUntil
    BY DEF LookAheadOutlivesEpoch
  <2> DEFINE b == freeze[e - 1].block
             t == freeze[e - 1].time
  <2>1. e \in Nat \ {0} /\ e - 1 \in Epochs
    BY CommitteeAssumption DEF Epochs
  <2>2. CommitteeTypeOK /\ EpochInv
    BY DEF CommitteeInv, EpochInv
  <2>3. /\ epochLength \in Nat /\ blockNumber \in Nat /\ timestamp \in Nat
        /\ MAX_BLOCK_SECONDS \in Nat /\ GUARDIAN_EXIT_DELAY \in Nat
    BY <2>2, CommitteeAssumption DEF CommitteeTypeOK
  <2>4. Placed(e - 1)
    BY ZenonT(30), <2>1, <2>2 DEF Current, EpochInv
  <2>5. /\ b \in Nat /\ t \in Nat
        /\ (e - 1) * epochLength < b /\ b <= blockNumber
        /\ epochs[e - 1].validUntil = t + GUARDIAN_EXIT_DELAY
        /\ timestamp - t <= (blockNumber - b) * MAX_BLOCK_SECONDS
    BY <2>4 DEF Placed
  <2>6. blockNumber < e * epochLength + epochLength
    BY ZenonT(30), <2>2, EpochBounds
  <2>7. 2 * epochLength * MAX_BLOCK_SECONDS < GUARDIAN_EXIT_DELAY
    BY <2>2 DEF EpochInv
  <2> HIDE DEF b, t
  <2>8. blockNumber - b <= 2 * epochLength
    <3>1. (e - 1) * epochLength = e * epochLength - epochLength
      BY <2>1, <2>3
    <3>2. e * epochLength \in Nat
      BY <2>1, <2>3
    <3> QED
      BY <3>1, <3>2, <2>3, <2>5, <2>6
  <2>9. (blockNumber - b) * MAX_BLOCK_SECONDS <= 2 * epochLength * MAX_BLOCK_SECONDS
    <3> DEFINE x == blockNumber - b
               y == 2 * epochLength
    <3>1. x \in Nat /\ y \in Nat /\ x <= y
      BY <2>3, <2>5, <2>8
    <3> HIDE DEF x, y
    <3>2. x * MAX_BLOCK_SECONDS <= y * MAX_BLOCK_SECONDS
      BY <3>1, <2>3
    <3> QED
      BY ZenonT(30), <3>2 DEF x, y
  <2> DEFINE age == (blockNumber - b) * MAX_BLOCK_SECONDS
             span == 2 * epochLength * MAX_BLOCK_SECONDS
  <2>10. age \in Int /\ span \in Int
    BY <2>3, <2>5
  <2>11. timestamp - t <= age /\ age <= span /\ span < GUARDIAN_EXIT_DELAY
    BY ZenonT(30), <2>5, <2>7, <2>9
  <2>12. t \in Nat /\ epochs[e - 1].validUntil = t + GUARDIAN_EXIT_DELAY
    BY <2>5
  <2>13. timestamp \in Nat /\ GUARDIAN_EXIT_DELAY \in Nat
    BY <2>3
  <2> HIDE DEF age, span
  <2> QED
    BY ZenonT(30), <2>10, <2>11, <2>12, <2>13, WithinDelay
<1> QED
  BY CommitteeInvariant, <1>1, PTL

\* What is pinned is the whole registered set, every member of it eligible.
THEOREM PinsEligibleSetHolds == CommitteeSpec => PinsEligibleSet
<1> DEFINE Written(e) == e \in epochPinned' \ epochPinned \/ epochs'[e] # epochs[e]
           Right(e) ==
             /\ \A n \in isRegistered : IsEligibleForSnapshot(n)
             /\ {epochs'[e].setRoot[s] : s \in Slots} \ {0} = isRegistered
             /\ epochs'[e].setCount = Cardinality(isRegistered)
           Pins == \A e \in Epochs : Written(e) => Right(e)
<1>1. ASSUME CommitteeInv, NEW list \in Lists, SnapshotEpoch(list)
      PROVE  Pins
  <2> SUFFICES ASSUME NEW e \in Epochs, Written(e)
               PROVE  Right(e)
    BY ZenonT(30)
  <2>1. CommitteeTypeOK /\ SlotInv /\ RegistryTypeOK
    BY <1>1 DEF CommitteeInv, EpochInv, ActiveInv, RegistryInv
  <2>2. \A n \in isRegistered : IsEligibleForSnapshot(n)
    BY ZenonT(30), <1>1, SnapshotFacts DEF NodePinnable
  <2>3. e = currentEpoch
    BY ZenonT(30), <1>1, <2>1 DEF SnapshotEpoch, CommitteeTypeOK
  <2>4. epochs'[e].setRoot = leaves /\ epochs'[e].setCount = activeCount
    BY ZenonT(30), <1>1, <2>1, <2>3 DEF SnapshotEpoch, CommitteeTypeOK
  <2>5. activeCount = Cardinality(isRegistered)
    BY ZenonT(30), <2>1 DEF SlotInv, CommitsToRegistered
  <2>6. ASSUME NEW s \in Slots, leaves[s] # 0
        PROVE  leaves[s] \in isRegistered
    <3>1. leaves[s] \in NodeIds
      BY ZenonT(30), <2>1, <2>6 DEF SlotInv, SlotTypeOK
    <3>2. slotPlusOne[leaves[s]] = s + 1 /\ s + 1 # 0
      BY <2>1, <2>6, TreeAssumption DEF SlotInv, CommitsToRegistered, Slots
    <3> QED
      BY ZenonT(30), <2>1, <3>1, <3>2 DEF SlotInv, CommitsToRegistered, Active
  <2>7. ASSUME NEW n \in isRegistered
        PROVE  n # 0 /\ \E s \in Slots : leaves[s] = n
    <3>1. n \in NodeIds /\ n # 0 /\ n \in Active
      BY ZenonT(30), <2>1, RegistryAssumption DEF RegistryTypeOK, SlotInv, CommitsToRegistered
    <3>2. slotPlusOne[n] \in 0..TreeSize /\ slotPlusOne[n] # 0
      BY ZenonT(30), <2>1, <3>1 DEF SlotInv, SlotTypeOK, Active
    <3>3. slotPlusOne[n] - 1 \in Slots
      BY <3>2, TreeAssumption DEF Slots
    <3>4. leaves[slotPlusOne[n] - 1] = n
      BY ZenonT(30), <2>1, <3>1 DEF SlotInv, CommitsToRegistered
    <3> QED
      BY ZenonT(30), <3>1, <3>3, <3>4
  <2>8. {leaves[s] : s \in Slots} \ {0} = isRegistered
    BY <2>6, <2>7
  <2> QED
    BY ZenonT(30), <2>2, <2>4, <2>5, <2>8
<1>2. ASSUME CommitteeNext, ~\E list \in Lists : SnapshotEpoch(list)
      PROVE  UNCHANGED <<epochs, epochPinned>>
  <2> USE DEF epochVars
  <2>1. CASE InheritedNext \/ ConfigNext \/ AccountNext
    BY <2>1 DEF InheritedNext, RestUnchanged, ConfigNext, SetEpochLength,
         SetBlsAggregator, SetMinCommittee, SetOversample, OnlyConfig, AccountNext,
         Enroll, Unenroll
  <2>2. CASE KeeperNext \/ ExternalNext
    BY ZenonT(30), <1>2, <2>2 DEF KeeperNext, SyncExitNotice, ExternalNext, Tick,
         PublishAggregator, FileExit, CancelExit, WithdrawStake
  <2> QED
    BY ZenonT(30), <1>2, <2>1, <2>2 DEF CommitteeNext
<1>3. UNCHANGED <<epochs, epochPinned>> => Pins
  BY ZenonT(30)
<1>4. CommitteeInv /\ [CommitteeNext]_committeeVars => [Pins]_committeeVars
  BY ZenonT(30), <1>1, <1>2, <1>3
<1>5. [Pins]_committeeVars <=>
        [\A e \in Epochs :
           (e \in epochPinned' \ epochPinned \/ epochs'[e] # epochs[e]) =>
             /\ \A n \in isRegistered : IsEligibleForSnapshot(n)
             /\ {epochs'[e].setRoot[s] : s \in Slots} \ {0} = isRegistered
             /\ epochs'[e].setCount = Cardinality(isRegistered)]_committeeVars
  BY ZenonT(30)
<1> HIDE DEF Pins
<1> QED
  BY CommitteeInvariant, <1>4, <1>5, PTL DEF CommitteeSpec, PinsEligibleSet

--------------------------------------------------------------------------------
\* Two thirds, rounded up.
LEMMA QuorumIsTwoThirds ==
  ASSUME NEW m \in Nat
  PROVE  quorumOf(m) \in Nat /\ 3 * quorumOf(m) >= 2 * m
BY DEF quorumOf

\* Every accepted committee is a two-thirds quorum of the frozen set.
THEOREM CommitteeIsFrozenQuorumHolds == CommitteeSpec => []CommitteeIsFrozenQuorum
<1>1. CommitteeInv => CommitteeIsFrozenQuorum
  <2> DEFINE p == currentEpoch - 1
             nodes == freeze[p].nodes
  <2> SUFFICES ASSUME CommitteeInv, epochLength # 0, currentEpoch # 0, EpochUsable(p),
                      NEW x \in Accounts, NEW ids \in Lists,
                      NEW slots \in [DOMAIN ids -> Slots], CommitteeAccepts(x, ids, slots)
               PROVE  /\ Range(ids) \subseteq nodes \cap isRegistered
                      /\ 3 * Cardinality(Range(ids))
                           >= 2 * expectedCommittee(Cardinality(nodes))
    BY ZenonT(30) DEF CommitteeIsFrozenQuorum
  <2>1. Commits(p)
    BY ZenonT(30) DEF EpochUsable, CommitteeInv, EpochInv
  <2>2. ASSUME NEW i \in DOMAIN ids
        PROVE  ids[i] \in nodes \cap isRegistered
    <3>1. SignerVerified(x, ids[i], slots[i], currentEpoch)
      BY ZenonT(30) DEF CommitteeAccepts
    <3>2. /\ slots[i] \in Slots /\ ids[i] \in isRegistered
          /\ epochs[p].setRoot[slots[i]] = ids[i]
      BY ZenonT(30), <3>1 DEF SignerVerified
    <3>3. ids[i] # 0
      BY ZenonT(30), <3>2, RegistryAssumption DEF CommitteeInv, ActiveInv, RegistryInv, RegistryTypeOK
    <3> QED
      BY ZenonT(30), <3>2, <3>3, <2>1 DEF Commits
  <2>3. PICK m \in 0..MaxListed : ids \in [1..m -> NodeIds]
    BY ZenonT(30) DEF Lists
  <2>4. ids \in Seq(Nat) /\ Len(ids) = m
    <3>1. NodeIds \subseteq Nat /\ m \in Nat
      BY RegistryAssumption, <2>3
    <3>2. ids \in [1..m -> Nat]
      BY ZenonT(30), <2>3, <3>1
    <3> QED
      BY <3>1, <3>2
  <2>5. \A i \in DOMAIN ids : i > 1 => ids[i - 1] < ids[i]
    BY DEF CommitteeAccepts
  <2>6. Cardinality(Range(ids)) = Len(ids)
    <3>1. \A i, j \in DOMAIN ids : i < j => ids[i] < ids[j]
      BY ZenonT(30), <2>4, <2>5, AdjacentIncreasing
    <3>2. ASSUME NEW i \in DOMAIN ids, NEW j \in DOMAIN ids, ids[i] = ids[j]
          PROVE  i = j
      <4>1. /\ i \in Nat /\ j \in Nat /\ ids[i] \in Nat /\ ids[j] \in Nat
        BY <2>4
      <4> QED
        BY <3>1, <3>2, <4>1
    <3> QED
      BY ZenonT(30), <2>4, <3>2, RangeCardinality
  <2>7. Len(ids) >= quorumOf(expectedCommittee(Cardinality(nodes)))
    BY ZenonT(30), <2>1 DEF CommitteeAccepts, Commits
  <2>8. expectedCommittee(Cardinality(nodes)) \in Nat
    <3>1. Cardinality(nodes) \in Nat
      BY ZenonT(30), <2>1, FS_CardinalityType DEF Commits
    <3> QED
      BY <3>1 DEF expectedCommittee
  <2>9. Range(ids) \subseteq nodes \cap isRegistered
    BY ZenonT(30), <2>2 DEF Range
  <2>10. 3 * Len(ids) >= 2 * expectedCommittee(Cardinality(nodes))
    <3> DEFINE c == expectedCommittee(Cardinality(nodes))
    <3>1. c \in Nat /\ Len(ids) \in Nat /\ Len(ids) >= quorumOf(c)
      BY <2>4, <2>7, <2>8
    <3> HIDE DEF c
    <3>2. quorumOf(c) \in Nat /\ 3 * quorumOf(c) >= 2 * c
      BY <3>1, QuorumIsTwoThirds
    <3>3. 3 * Len(ids) >= 2 * c
      BY <3>1, <3>2
    <3> QED
      BY <3>3 DEF c
  <2> QED
    BY ZenonT(30), <2>6, <2>9, <2>10
<1> QED
  BY CommitteeInvariant, <1>1, PTL

--------------------------------------------------------------------------------
\* The quorum of a pool is between one and the pool, and a payload can carry it.
LEMMA QuorumFits ==
  ASSUME NEW n \in Nat, n >= 1
  PROVE  /\ quorumOf(expectedCommittee(n)) \in 1..n
         /\ quorumOf(expectedCommittee(n)) <= MAX_NODE_COUNT
<1> DEFINE m == expectedCommittee(n)
<1>1. m \in 1..n /\ m <= 86
  BY DEF expectedCommittee
<1> HIDE DEF m
<1>2. quorumOf(m) \in 1..n /\ quorumOf(m) <= 58
  BY <1>1 DEF quorumOf
<1> QED
  BY <1>2, CommitteeAssumption, RegistryAssumption DEF m

\* The nodes a client reads from a pinned root are the ones that were registered.
LEMMA FrozenNodesAreRegistered ==
  ASSUME NEW e, Commits(e)
  PROVE  /\ FrozenNodes(e) = freeze[e].nodes
         /\ FrozenNodes(e) \in SUBSET Nat /\ IsFiniteSet(FrozenNodes(e))
         /\ epochs[e].setCount = Cardinality(FrozenNodes(e))
         /\ \A n \in FrozenNodes(e) :
              FrozenSlot(e, n) \in Slots /\ epochs[e].setRoot[FrozenSlot(e, n)] = n
<1>1. NodeIds \in SUBSET Nat /\ 0 \notin NodeIds
  BY RegistryAssumption
<1>2. FrozenNodes(e) = freeze[e].nodes
  BY <1>1 DEF FrozenNodes, Commits
<1>3. \A n \in FrozenNodes(e) : \E s \in Slots : epochs[e].setRoot[s] = n
  BY DEF FrozenNodes
<1>4. \A n \in FrozenNodes(e) :
        FrozenSlot(e, n) \in Slots /\ epochs[e].setRoot[FrozenSlot(e, n)] = n
  BY <1>3 DEF FrozenSlot
<1>5. /\ freeze[e].nodes \in SUBSET NodeIds /\ IsFiniteSet(freeze[e].nodes)
      /\ epochs[e].setCount = Cardinality(freeze[e].nodes)
  BY ZenonT(30) DEF Commits
<1> QED
  BY ZenonT(30), <1>1, <1>2, <1>4, <1>5

\* What the view announces when it announces a quorum, and what it has checked.
LEMMA RequiredQuorumReady ==
  ASSUME requiredQuorum # MAX_UINT, epochLength # 0, currentEpoch # 0
  PROVE  /\ EpochUsable(currentEpoch) /\ EpochUsable(currentEpoch - 1)
         /\ ~(epochs[currentEpoch - 1].setCount < minCommittee)
         /\ requiredQuorum = quorumOf(expectedCommittee(epochs[currentEpoch - 1].setCount))
BY ZenonT(30) DEF requiredQuorum

\* A payload that validate accepts has passed the same checks and carries as many.
LEMMA AcceptedCarriesQuorum ==
  ASSUME CommitteeInv, epochLength # 0, currentEpoch # 0, NEW x, NEW ids,
         PayloadAccepted(x, ids, currentEpoch - 1)
  PROVE  Len(ids) >= requiredQuorum
<1> DEFINE n == epochs[currentEpoch - 1].setCount
<1>1. /\ EpochUsable(currentEpoch) /\ EpochUsable(currentEpoch - 1)
      /\ n >= minCommittee /\ Len(ids) >= quorumOf(expectedCommittee(n))
  BY ZenonT(30) DEF PayloadAccepted, CommitteeAccepts
<1>2. minCommittee \in Nat
  BY ZenonT(30) DEF CommitteeInv, EpochInv, CommitteeTypeOK
<1>3. n \in Nat
  BY <1>1, FS_CardinalityType DEF EpochUsable, CommitteeInv, EpochInv, Commits
<1> HIDE DEF n
<1>4. ~(n < minCommittee)
  BY <1>1, <1>2, <1>3
<1>5. requiredQuorum = quorumOf(expectedCommittee(n))
  BY ZenonT(30), <1>1, <1>4 DEF requiredQuorum, n
<1> QED
  BY ZenonT(30), <1>1, <1>5

\* When the view announces a quorum, the first nodes of the frozen set in the order
\* of their ids make it up, each with its slot.
LEMMA QuorumAccepted ==
  ASSUME CommitteeInv, epochLength # 0, currentEpoch # 0, NEW x \in enrolledAccount,
         requiredQuorum # MAX_UINT,
         InGoodStanding(currentEpoch - 1), DrawIsOff(currentEpoch - 1)
  PROVE  \E ids \in Payloads(currentEpoch - 1) :
           Len(ids) = requiredQuorum /\ PayloadAccepted(x, ids, currentEpoch - 1)
<1> DEFINE p == currentEpoch - 1
           F == FrozenNodes(p)
           n == epochs[p].setCount
           q == quorumOf(expectedCommittee(n))
<1>1. /\ EpochUsable(currentEpoch) /\ EpochUsable(p)
      /\ ~(n < minCommittee) /\ requiredQuorum = q
  BY ZenonT(30), RequiredQuorumReady
<1>2. Commits(p)
  BY ZenonT(30), <1>1 DEF EpochUsable, CommitteeInv, EpochInv
<1>3. /\ F \in SUBSET Nat /\ IsFiniteSet(F) /\ n = Cardinality(F)
      /\ \A v \in F : FrozenSlot(p, v) \in Slots /\ epochs[p].setRoot[FrozenSlot(p, v)] = v
  BY ZenonT(30), <1>2, FrozenNodesAreRegistered
<1> HIDE DEF p, F
<1>4. n \in Nat /\ n >= minCommittee /\ n >= 1
  <2>1. n \in Nat
    BY ZenonT(30), <1>3, FS_CardinalityType
  <2>2. minCommittee \in Nat /\ minCommittee >= MIN_COMMITTEE /\ MIN_COMMITTEE \in Nat \ {0}
    BY ZenonT(30), CommitteeAssumption DEF CommitteeInv, EpochInv, CommitteeTypeOK
  <2> HIDE DEF n
  <2> QED
    BY <1>1, <2>1, <2>2
<1> HIDE DEF n
<1>5. q \in 1..n /\ q <= MAX_NODE_COUNT
  BY ZenonT(30), <1>4, QuorumFits
<1> HIDE DEF q
<1>6. PICK s \in [1..n -> F] : \A i \in 1..n : i > 1 => s[i - 1] < s[i]
  BY ZenonT(30), <1>3, OrderedExists DEF Ordered
<1> DEFINE ids == [i \in 1..q |-> s[i]]
<1>7. ids \in [1..q -> F] /\ DOMAIN ids = 1..q /\ Len(ids) = q /\ q > 0
  BY <1>4, <1>5, <1>6
<1>8. ASSUME NEW i \in 1..q, i > 1
      PROVE  ids[i - 1] < ids[i]
  BY <1>4, <1>5, <1>6, <1>8
<1> HIDE DEF ids
<1>9. ids \in Payloads(p)
  <2>1. q \in 0..n
    BY <1>4, <1>5
  <2> QED
    BY ZenonT(30), <1>7, <2>1 DEF Payloads, F, n
<1>10. ASSUME NEW i \in 1..q
       PROVE  SignerVerified(x, ids[i], FrozenSlot(p, ids[i]), currentEpoch)
  <2>1. ids[i] \in F
    BY ZenonT(30), <1>7
  <2>2. ids[i] \in isRegistered /\ ~(requireStake /\ ids[i] \in isBootstrap)
    BY ZenonT(30), <2>1 DEF InGoodStanding, F, p
  <2>3. FrozenSlot(p, ids[i]) \in Slots /\ epochs[p].setRoot[FrozenSlot(p, ids[i])] = ids[i]
    BY ZenonT(30), <1>3, <2>1
  <2> QED
    BY ZenonT(30), <2>2, <2>3 DEF SignerVerified, DrawIsOff, p
<1>11. PayloadAccepted(x, ids, p)
  <2> DEFINE slots == [i \in DOMAIN ids |-> FrozenSlot(p, ids[i])]
  <2>1. \A i \in DOMAIN ids : SignerVerified(x, ids[i], slots[i], currentEpoch)
    BY ZenonT(30), <1>7, <1>10
  <2>2. 0 < Len(ids) /\ Len(ids) <= MAX_NODE_COUNT /\ Len(ids) >= q
    BY <1>4, <1>5, <1>7
  <2>3. \A i \in DOMAIN ids : i > 1 => ids[i - 1] < ids[i]
    BY ZenonT(30), <1>7, <1>8
  <2> HIDE DEF slots
  <2>4. CommitteeAccepts(x, ids, slots)
    BY ZenonT(30), <1>1, <1>4, <2>1, <2>2, <2>3 DEF CommitteeAccepts, p, n, q
  <2> QED
    BY ZenonT(30), <2>4 DEF PayloadAccepted, slots
<1> QED
  BY ZenonT(30), <1>1, <1>7, <1>9, <1>11 DEF p

\* requiredQuorum announces what validate takes.
THEOREM QuorumMirrorsValidateHolds == CommitteeSpec => []QuorumMirrorsValidate
<1>1. CommitteeInv => QuorumMirrorsValidate
  BY ZenonT(30), AcceptedCarriesQuorum, QuorumAccepted DEF QuorumMirrorsValidate
<1> QED
  BY CommitteeInvariant, <1>1, PTL

\* An epoch that counts as ready is ready: its set was frozen under the configuration
\* in force, before its seed was known, and requiredQuorum announces what validate takes.
THEOREM ReadinessSoundHolds == CommitteeSpec => []ReadinessSound
BY LookAheadHolds, PinnedUnderCurrentConfigHolds, QuorumMirrorsValidateHolds, PTL
   DEF ReadinessSound
================================================================================
