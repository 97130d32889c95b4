------------------------------- MODULE ActiveSet -------------------------------
(***************************************************************************)
(* The active-set commitment of contracts/src/AAStarCommitteeValidator.sol *)
(* on top of the registry it inherits: a slot allocator with a free list   *)
(* and the leaves of a sparse Merkle tree, changed by the hooks            *)
(* _onNodeActivated and _onNodeDeactivated inside the registry's own       *)
(* transactions.  The tree is modelled by its vector of leaves: its root   *)
(* (runningRoot) determines them, as SparseMerkle checks on the code's     *)
(* incremental update, and a Merkle proof of node n at slot s against a    *)
(* root exists exactly when the root's leaf s is n.                        *)
(***************************************************************************)
EXTENDS ValidatorRegistry

CONSTANT TreeSize   \* 1 << TREE_DEPTH

ASSUME TreeAssumption == TreeSize \in Nat

Slots == 0..(TreeSize - 1)

VARIABLES
  slotPlusOne,   \* node id -> slot + 1, 0 for no slot
  nextSlot,
  freeSlots,     \* freed slots, reused last in first out
  activeCount,
  leaves         \* slot -> node id, 0 for an empty leaf; stands for runningRoot

slotVars   == <<slotPlusOne, nextSlot, freeSlots, activeCount, leaves>>
activeVars == <<registryVars, slotVars>>

SlotTypeOK ==
  /\ slotPlusOne \in [NodeIds -> 0..TreeSize]
  /\ nextSlot \in 0..TreeSize
  /\ freeSlots \in Seq(Slots)
  /\ activeCount \in Nat
  /\ leaves \in [Slots -> NodeIds \cup {0}]

SlotInit ==
  /\ slotPlusOne = [n \in NodeIds |-> 0]
  /\ nextSlot = 0
  /\ freeSlots = <<>>
  /\ activeCount = 0
  /\ leaves = [s \in Slots |-> 0]

--------------------------------------------------------------------------------
(* The hooks. *)

\* The ids of a batch the hook acts on: it returns early on one that has a slot
Fresh(ids) ==
  IF \A i \in DOMAIN ids : slotPlusOne[ids[i]] = 0 THEN ids
  ELSE SelectSeq(ids, LAMBDA n : slotPlusOne[n] = 0)

\* The slot of the i-th activation in a transaction: from the end of the free
\* list, then beyond the allocated slots
SlotFor(i) ==
  IF i <= Len(freeSlots) THEN freeSlots[Len(freeSlots) + 1 - i]
  ELSE nextSlot + (i - Len(freeSlots) - 1)

\* _onNodeActivated for each of ids in turn
OnNodesActivated(ids) ==
  LET fresh == Fresh(ids)
      m     == Len(fresh)
      free  == Len(freeSlots)
  IN  /\ nextSlot' = IF m > free THEN nextSlot + (m - free) ELSE nextSlot
      /\ nextSlot' <= TreeSize
      /\ freeSlots' = IF m > free THEN <<>> ELSE SubSeq(freeSlots, 1, free - m)
      /\ slotPlusOne' = [n \in NodeIds |->
                           IF \E i \in 1..m : fresh[i] = n
                           THEN SlotFor(CHOOSE i \in 1..m : fresh[i] = n) + 1
                           ELSE slotPlusOne[n]]
      /\ activeCount' = activeCount + m
      /\ leaves' = [s \in Slots |->
                      IF \E i \in 1..m : SlotFor(i) = s
                      THEN fresh[CHOOSE i \in 1..m : SlotFor(i) = s]
                      ELSE leaves[s]]

\* Mutant: the freed slot is not put back on the free list
DeactivatedLeak(n) ==
  LET slot == slotPlusOne[n] - 1 IN
  IF slotPlusOne[n] = 0 THEN UNCHANGED slotVars
  ELSE /\ slotPlusOne' = [slotPlusOne EXCEPT ![n] = 0]
       /\ activeCount' = activeCount - 1
       /\ leaves' = [leaves EXCEPT ![slot] = 0]
       /\ UNCHANGED <<nextSlot, freeSlots>>

\* _onNodeDeactivated
OnNodeDeactivated(n) ==
  LET slot == slotPlusOne[n] - 1 IN
  IF slotPlusOne[n] = 0 THEN UNCHANGED slotVars
  ELSE /\ slotPlusOne' = [slotPlusOne EXCEPT ![n] = 0]
       /\ freeSlots' = Append(freeSlots, slot)
       /\ activeCount' = activeCount - 1
       /\ leaves' = [leaves EXCEPT ![slot] = 0]
       /\ UNCHANGED nextSlot

--------------------------------------------------------------------------------
(* The registry's transactions with the hooks they call. *)

JoinBootstrap(a, n, k) == RegisterPublicKey(a, n, k) /\ OnNodesActivated(<<n>>)
JoinBatch(a, ids, pks) == BatchRegister(a, ids, pks) /\ OnNodesActivated(ids)
JoinStaked(a, k)       == RegisterWithProof(a, k) /\ OnNodesActivated(<<NodeIdOf[k]>>)
LeaveStale(n)          == SyncNode(n) /\ OnNodeDeactivated(n)
LeaveRevoked(a, n)     == RevokePublicKey(a, n) /\ OnNodeDeactivated(n)

\* Transactions and external steps without a hook on the active set
PolicyNext ==
  \/ \E a \in Addrs, r \in Registries \cup {NoAddr} : SetRegistry(a, r)
  \/ \E a \in Addrs, v \in BOOLEAN : SetRequireStake(a, v)
  \/ \E a \in Addrs, v \in 0..MaxStake : SetMinStake(a, v)
OtherNext ==
  \/ \E a \in Addrs, n \in NodeIds, k \in Keys : UpdatePublicKey(a, n, k)
  \/ \E a \in Addrs, b \in Addrs \cup {NoAddr} : TransferOwnership(a, b)
  \/ \E r \in Registries, a \in Addrs : SetRole(r, a)
  \/ \E r \in Registries, a \in Addrs, v \in 0..MaxStake : SetStake(r, a, v)

MembershipNext ==
  \/ \E a \in Addrs, n \in NodeIds, k \in Keys : JoinBootstrap(a, n, k)
  \/ \E a \in Addrs, ids \in Batches(NodeIds), pks \in Batches(Keys) :
       JoinBatch(a, ids, pks)
  \/ \E a \in Addrs, k \in Keys : JoinStaked(a, k)
  \/ \E n \in NodeIds : LeaveStale(n)
  \/ \E a \in Addrs, n \in NodeIds : LeaveRevoked(a, n)

ActiveInit == RegistryInit /\ SlotInit

ActiveNext ==
  \/ MembershipNext
  \/ (PolicyNext \/ OtherNext) /\ UNCHANGED slotVars

ActiveSpec == ActiveInit /\ [][ActiveNext]_activeVars

--------------------------------------------------------------------------------
(* What the contract offers a keeper. *)

\* The ids that hold a slot
Active == {n \in NodeIds : slotPlusOne[n] # 0}

\* Mutant: the checks without the one on the length
ListAcceptedShort(list) ==
  \A i \in DOMAIN list :
    /\ i > 1 => list[i - 1] < list[i]
    /\ list[i] \in Active

\* The checks snapshotEpoch makes of the caller's list of the active set
ListAccepted(list) ==
  /\ Len(list) = activeCount
  /\ \A i \in DOMAIN list :
       /\ i > 1 => list[i - 1] < list[i]
       /\ list[i] \in Active

\* activeNodeIdsSorted: scans the enumeration until activeCount different
\* active ids are found, sorts them, and leaves zeros where ids are missing
activeNodeIdsSorted ==
  LET SeenBy(i) == Active \cap {registeredNodes[j] : j \in 1..i}
      found == UNION {SeenBy(i) : i \in {j \in DOMAIN registeredNodes :
                                           Cardinality(SeenBy(j)) <= activeCount}}
      k     == Cardinality(found)
      sorted == CHOOSE s \in [1..k -> found] :
                  \A i \in 1..k : i > 1 => s[i - 1] < s[i]
  IN  sorted \o [i \in 1..(activeCount - k) |-> 0]

Lists == UNION {[1..m -> NodeIds] : m \in 0..MaxListed}

--------------------------------------------------------------------------------
(* Properties. *)

\* The commitment never drifts from isRegistered: the registered nodes are
\* exactly the ones with a slot, each slot's leaf is the node that holds it,
\* every other leaf is empty, and activeCount counts the registered nodes.
CommitsToRegistered ==
  /\ isRegistered = Active
  /\ \A n \in Active : leaves[slotPlusOne[n] - 1] = n
  /\ \A s \in Slots : leaves[s] # 0 => slotPlusOne[leaves[s]] = s + 1
  /\ activeCount = Cardinality(isRegistered)

\* No slot is lost or handed out twice: the allocated slots are the occupied
\* ones and the free ones, and no slot is on the free list twice.
SlotsAccounted ==
  /\ \A s \in Slots :
       s < nextSlot <=> leaves[s] # 0 \/ \E i \in DOMAIN freeSlots : freeSlots[i] = s
  /\ \A i \in DOMAIN freeSlots : leaves[freeSlots[i]] = 0
  /\ \A i, j \in DOMAIN freeSlots : freeSlots[i] = freeSlots[j] => i = j

\* The tree bounds the concurrent nodes, not the lifetime registrations: it
\* refuses a node only when every leaf is taken.
CapacityIsConcurrent ==
  nextSlot = TreeSize /\ freeSlots = <<>> => Cardinality(isRegistered) = TreeSize

\* The completeness argument in snapshotEpoch: a list that is as long as
\* activeCount, strictly increasing and made of slot holders is the registered
\* set, whatever the caller left out or repeated.
AcceptedListComplete ==
  \A list \in Lists : ListAccepted(list) => Range(list) = isRegistered

\* activeNodeIdsSorted, computed from an enumeration with stale and repeated
\* ids, is always a list snapshotEpoch accepts.
KeeperListAccepted == ListAccepted(activeNodeIdsSorted)

\* The commitment is exact: its leaves are the registered nodes, no slot leaks or
\* is shared, the tree fills with concurrent nodes only, and the list a keeper
\* reads from the contract is one that snapshotEpoch takes.
CommitmentExact ==
  CommitsToRegistered /\ SlotsAccounted /\ CapacityIsConcurrent /\ KeeperListAccepted
================================================================================
