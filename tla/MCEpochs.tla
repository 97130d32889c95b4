-------------------------------- MODULE MCEpochs -------------------------------
(***************************************************************************)
(* Staked operation of the committee validator over several epochs: a      *)
(* node, its operator's exit notices and withdrawals, the keepers and the  *)
(* clock.  It starts from a deployment that has been brought into service: *)
(* Registry and aggregator set, staking required, the operator staked and  *)
(* registered, an account enrolled, committee mode on.                     *)
(***************************************************************************)
EXTENDS CommitteeValidator

CONSTANTS k1, dep, op, reg, acct

MCNodeIdOf == [k \in {k1} |-> 1]
MCDraw == [x \in Epochs \X {acct} \X {1} |-> 0]
MCOversamples == {<<5, 4>>}
MCDefaultOversample == <<5, 4>>

InService ==
  /\ owner = dep
  /\ registeredKeys = [n \in {1} |-> k1]
  /\ isRegistered = {1}
  /\ registeredNodes = <<1>>
  /\ nodeOperator = [n \in {1} |-> op]
  /\ operatorNode = [a \in Addrs |-> IF a = op THEN 1 ELSE 0]
  /\ isBootstrap = {}
  /\ nodeByPubkey = [k \in {k1} |-> 1]
  /\ registry = reg
  /\ requireStake = TRUE
  /\ minStake = 1
  /\ role = [r \in {reg} |-> {op}]
  /\ stake = [r \in {reg} |-> [a \in Addrs |-> IF a = op THEN 1 ELSE 0]]
  /\ slotPlusOne = [n \in {1} |-> 1]
  /\ nextSlot = 1
  /\ freeSlots = <<>>
  /\ activeCount = 1
  /\ leaves = [s \in Slots |-> 1]
  /\ epochLength = 2
  /\ oversample = DefaultOversample
  /\ minCommittee = MIN_COMMITTEE
  /\ blsAggregator = <<reg, 1>>
  /\ configVersion = 5
  /\ enrolledAccount = {acct}
  /\ epochPinned = {}
  /\ epochs = [e \in Epochs |-> NoEpoch]
  /\ blockNumber = 0
  /\ timestamp = 0
  /\ publishedAggregator = [r \in {reg} |-> 1]
  /\ exitReadyAt = [g \in Aggregators |-> [a \in Addrs |-> 0]]
  /\ freeze = [e \in Epochs |->
                 [config |-> Config, block |-> 0, time |-> 0,
                  nodes |-> {}, operators |-> {}, lost |-> FALSE]]

\* Membership, keepers, exits, restaking and the clock; the owner
\* changes the schedule and follows the Registry's aggregator
ServiceNext ==
  \/ MembershipNext /\ UNCHANGED configVersion /\ RestUnchanged
  \/ /\ SetRole(reg, op) \/ SetStake(reg, op, 1)
     /\ UNCHANGED <<slotVars, configVersion>> /\ RestUnchanged
  \/ \E len \in EpochLengths : SetEpochLength(dep, len)
  \/ \E agg \in Aggregators : SetBlsAggregator(dep, agg)
  \/ KeeperNext
  \/ ExternalNext

ServiceSpec == InService /\ [][ServiceNext]_committeeVars
================================================================================
