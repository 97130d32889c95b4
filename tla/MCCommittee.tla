---------------------------- MODULE MCCommittee ----------------------------
(***************************************************************************)
(* The contracts and what they commit to, checked one component at a time: *)
(* three nodes in service, a deployment with one node from the constructor *)
(* on, the registry with staked nodes and batches, and the Merkle tree of  *)
(* the committed set.  A behaviour picks one of them, which runs under its *)
(* own specification while the others rest in an initial state.            *)
(***************************************************************************)
EXTENDS CommitteeValidator, TLC

CONSTANTS k1, k2, k3, dep, op, reg, acct

MCNodeIdOf == (k1 :> 1) @@ (k2 :> 2) @@ (k3 :> 3)
MCDraw == [x \in Epochs \X {acct} \X {1, 2, 3} |-> 0]
MCOversamples == {<<2, 1>>, <<1, 0>>}
MCDefaultOversample == <<5, 4>>
MCKeys == (1 :> k1) @@ (2 :> k2) @@ (3 :> k3)

\* The nodes that come and go
Churn == {1, 2}

InService ==
  /\ owner = dep
  /\ registeredKeys = MCKeys
  /\ isRegistered = {1, 2, 3}
  /\ registeredNodes = <<1, 2, 3>>
  /\ nodeOperator = [n \in {1, 2, 3} |-> dep]
  /\ operatorNode = [a \in {dep, op} |-> 0]
  /\ isBootstrap = {1, 2, 3}
  /\ nodeByPubkey = MCNodeIdOf
  /\ registry = NoAddr
  /\ requireStake = FALSE
  /\ minStake = 0
  /\ role = [r \in {reg} |-> {}]
  /\ stake = [r \in {reg} |-> [a \in {dep, op} |-> 0]]
  /\ slotPlusOne = <<1, 2, 3>>
  /\ nextSlot = 3
  /\ freeSlots = <<>>
  /\ activeCount = 3
  /\ leaves = [s \in Slots |-> s + 1]
  /\ epochLength = 2
  /\ oversample = DefaultOversample
  /\ minCommittee = 2
  /\ blsAggregator = NoAddr
  /\ configVersion = 1
  /\ enrolledAccount = {}
  /\ epochPinned = {}
  /\ epochs = [e \in Epochs |-> NoEpoch]
  /\ blockNumber = 0
  /\ timestamp = 0
  /\ publishedAggregator = [r \in {reg} |-> 0]
  /\ exitReadyAt = [g \in Aggregators |-> [a \in {dep, op} |-> 0]]
  /\ freeze = [e \in Epochs |->
                 [config |-> Config, block |-> 0, time |-> 0,
                  nodes |-> {}, operators |-> {}, lost |-> FALSE]]

\* Each node keeps its key: a node that comes back is the same signer
ServiceNext ==
  \/ /\ \/ \E n \in NodeIds : JoinBootstrap(dep, n, MCKeys[n])
        \/ \E n \in Churn : LeaveRevoked(dep, n)
     /\ UNCHANGED configVersion /\ RestUnchanged
  \/ AccountNext
  \/ KeeperNext
  \/ \E d \in BlockTimes : Tick(d)

\* The registry with staked nodes, batches and the hooks on the active set: two
\* keys for three ids (id 3 is a bootstrap-only id), and another owner only as
\* long as nothing was registered
BooksNext ==
  /\ \/ \E n \in NodeIds, k \in {k1, k2} : JoinBootstrap(dep, n, k)
     \/ \E ids \in Batches(NodeIds), pks \in Batches({k1, k2}) : JoinBatch(dep, ids, pks)
     \/ \E a \in Addrs, k \in {k1, k2} : JoinStaked(a, k)
     \/ \E n \in NodeIds : LeaveStale(n)
     \/ \E a \in Addrs, n \in NodeIds : LeaveRevoked(a, n)
     \/ (PolicyNext \/ OtherNext) /\ UNCHANGED slotVars
  /\ nodeByPubkey'[k3] = 0 /\ (owner' = dep \/ registeredNodes' = <<>>)
  /\ UNCHANGED configVersion /\ RestUnchanged

\* From the constructor on, with one owner, who runs the one node, and two changes
\* of the configuration
DeploymentNext ==
  \/ /\ \/ JoinBootstrap(dep, 1, k1) \/ JoinBatch(dep, <<1>>, <<k1>>)
        \/ JoinStaked(dep, k1) \/ LeaveStale(1) \/ LeaveRevoked(dep, 1)
     /\ Len(registeredNodes') <= 1
     /\ UNCHANGED configVersion /\ RestUnchanged
  \/ /\ UpdatePublicKey(dep, 1, k1) \/ SetRole(reg, dep)
     /\ UNCHANGED <<slotVars, configVersion>> /\ RestUnchanged
  \/ /\ \/ \E r \in Registries \cup {NoAddr} : SetRegistry(dep, r)
        \/ \E v \in BOOLEAN : SetRequireStake(dep, v)
        \/ SetMinStake(dep, 0)
     /\ UNCHANGED slotVars /\ OnEligibilityConfigChanged /\ RestUnchanged
  \/ ConfigNext
  \/ AccountNext
  \/ SnapshotEpoch(<<>>) \/ SnapshotEpoch(<<1>>) \/ SyncExitNotice(1)
  \/ blockNumber < 4 /\ Tick(1)
  \/ PublishAggregator(reg)
  \/ FileExit(reg, dep) \/ CancelExit(reg, dep) \/ WithdrawStake(reg, dep)

VARIABLES
  focus,      \* the component that runs; the others rest in an initial state
  smt, runningRoot, treeLeaves

Tree == INSTANCE SparseMerkle WITH
  Depth <- 3, NodeIds <- {1, 2}, leaves <- treeLeaves

treeVars == <<smt, runningRoot, treeLeaves>>
all == <<focus, committeeVars, treeVars>>
TreeAlone == focus = "tree" /\ UNCHANGED <<focus, committeeVars>>
CommitteeAlone == UNCHANGED <<focus, treeVars>>

SliceInit ==
  /\ focus \in {"deployment", "registry", "tree", "committee"}
  /\ Tree!Init
  /\ IF focus \in {"tree", "committee"} THEN InService ELSE CommitteeInit

SliceNext ==
  \/ TreeAlone /\ Tree!Next
  \/ CommitteeAlone /\ focus = "deployment" /\ DeploymentNext
  \/ CommitteeAlone /\ focus = "registry" /\ BooksNext
  \/ CommitteeAlone /\ focus = "committee" /\ ServiceNext

SliceSpec == SliceInit /\ [][SliceNext]_all

(* The tree commits to its leaves and opens to nothing else.               *)
TreeOpens == focus = "tree" => Tree!CommitmentOpens
============================================================================
