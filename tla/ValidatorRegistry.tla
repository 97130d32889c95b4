--------------------------- MODULE ValidatorRegistry ---------------------------
(***************************************************************************)
(* The node registry of contracts/src/AAStarValidator.sol: which node ids  *)
(* may sign, with which BLS key, on whose stake.  Every action is one      *)
(* external function of the contract executed as one transaction (a        *)
(* failed require reverts it, so it is a conjunct of the guard), except    *)
(* the two at the end, which are the SuperPaymaster Registry the contract  *)
(* reads stake and role from.                                              *)
(*                                                                         *)
(* Node ids are positive numbers (bytes32 values, compared with < by       *)
(* validate) and 0 is bytes32(0).  A key is an opaque 128-byte encoding    *)
(* other than the point at infinity, and NodeIdOf is keccak256 on keys.    *)
(***************************************************************************)
EXTENDS Integers, Sequences, FiniteSets, Functions

CONSTANTS
  NodeIds,      \* node ids that are ever used
  Keys,         \* BLS public keys
  NodeIdOf,     \* keccak256(publicKey)
  Addrs,        \* externally owned accounts: owners and operators
  Registries,   \* deployments of the SuperPaymaster Registry
  NoAddr,       \* address(0)
  NoKey,        \* empty bytes
  Deployer,     \* the account that deploys the validator
  MaxStake,     \* bound: amounts of stake considered
  MaxBatch,     \* bound: length of a batch
  MaxListed,    \* bound: length of registeredNodes
  MAX_NODE_COUNT

ASSUME RegistryAssumption ==
  /\ NodeIds \subseteq Nat \ {0}
  /\ NodeIdOf \in [Keys -> NodeIds]
  /\ \A j, k \in Keys : NodeIdOf[j] = NodeIdOf[k] => j = k
  /\ NoAddr \notin Addrs
  /\ NoAddr \notin Registries
  /\ NoKey \notin Keys
  /\ Deployer \in Addrs
  /\ MaxStake \in Nat
  /\ MaxBatch \in Nat
  /\ MaxListed \in Nat
  /\ MAX_NODE_COUNT \in Nat

VARIABLES
  owner,
  registeredKeys,   \* node id -> key, NoKey when deleted
  isRegistered,     \* the set of ids mapped to true
  registeredNodes,  \* the enumeration array
  nodeOperator,     \* node id -> address
  operatorNode,     \* address -> node id, 0 when free
  isBootstrap,      \* the set of ids mapped to true
  nodeByPubkey,     \* key hash -> node id, 0 when free
  registry,         \* the Registry in use, or NoAddr
  requireStake,
  minStake,
  role,             \* external: registry -> holders of ROLE_DVT
  stake             \* external: registry -> address -> effective stake

identityVars == <<registeredKeys, isRegistered, registeredNodes, nodeOperator,
                  operatorNode, isBootstrap, nodeByPubkey>>
policyVars   == <<owner, registry, requireStake, minStake>>
stakeVars    == <<role, stake>>
registryVars == <<identityVars, policyVars, stakeVars>>

RegistryTypeOK ==
  /\ owner \in Addrs
  /\ registeredKeys \in [NodeIds -> Keys \cup {NoKey}]
  /\ isRegistered \in SUBSET NodeIds
  /\ registeredNodes \in Seq(NodeIds)
  /\ nodeOperator \in [NodeIds -> Addrs \cup {NoAddr}]
  /\ operatorNode \in [Addrs -> NodeIds \cup {0}]
  /\ isBootstrap \in SUBSET NodeIds
  /\ nodeByPubkey \in [Keys -> NodeIds \cup {0}]
  /\ registry \in Registries \cup {NoAddr}
  /\ requireStake \in BOOLEAN
  /\ minStake \in 0..MaxStake
  /\ role \in [Registries -> SUBSET Addrs]
  /\ stake \in [Registries -> [Addrs -> 0..MaxStake]]

RegistryInit ==
  /\ owner = Deployer
  /\ registeredKeys = [n \in NodeIds |-> NoKey]
  /\ isRegistered = {}
  /\ registeredNodes = <<>>
  /\ nodeOperator = [n \in NodeIds |-> NoAddr]
  /\ operatorNode = [a \in Addrs |-> 0]
  /\ isBootstrap = {}
  /\ nodeByPubkey = [k \in Keys |-> 0]
  /\ registry = NoAddr
  /\ requireStake = FALSE
  /\ minStake = 0
  /\ role = [r \in Registries |-> {}]
  /\ stake = [r \in Registries |-> [a \in Addrs |-> 0]]

--------------------------------------------------------------------------------
(* Helpers of the contract. *)

\* _isStaked(op)
IsStaked(a) ==
  /\ registry # NoAddr
  /\ a # NoAddr
  /\ a \in role[registry]
  /\ stake[registry][a] >= minStake

\* _bindPubkey: claim the key for n, reverting when a live node holds it
BindPubkey(locks, k, n) ==
  /\ locks[k] = 0
  /\ nodeByPubkey' = [locks EXCEPT ![k] = n]

\* Mutant: the key's lock is not released
UnboundLeaked(n) == nodeByPubkey

\* _unbindPubkey: the locks once n has released the one it holds
Unbound(n) ==
  [k \in Keys |-> IF registeredKeys[n] = k /\ nodeByPubkey[k] = n
                  THEN 0 ELSE nodeByPubkey[k]]

\* operatorNode once n's operator has released the slot that points at n
OperatorFreed(n) ==
  [a \in Addrs |-> IF nodeOperator[n] = a /\ operatorNode[a] = n
                   THEN 0 ELSE operatorNode[a]]

\* What _deactivate and revokePublicKey both clear for n
ClearIdentity(n) ==
  /\ isRegistered' = isRegistered \ {n}
  /\ nodeByPubkey' = Unbound(n)
  /\ registeredKeys' = [registeredKeys EXCEPT ![n] = NoKey]
  /\ nodeOperator' = [nodeOperator EXCEPT ![n] = NoAddr]
  /\ isBootstrap' = isBootstrap \ {n}
  /\ operatorNode' = OperatorFreed(n)

\* _deactivate: the stale id stays in the enumeration
Deactivate(n) ==
  /\ ClearIdentity(n)
  /\ UNCHANGED registeredNodes

\* registeredNodes after the first occurrence of n is overwritten by the last
\* element and the array popped
SwapPop(list, n) ==
  LET at == CHOOSE i \in DOMAIN list :
              list[i] = n /\ \A j \in 1..(i - 1) : list[j] # n
  IN  IF n \in Range(list)
      THEN SubSeq([list EXCEPT ![at] = list[Len(list)]], 1, Len(list) - 1)
      ELSE list

--------------------------------------------------------------------------------
(* Registration. *)

\* registerPublicKey by a: the owner's bootstrap path
RegisterPublicKey(a, n, k) ==
  /\ n \notin isRegistered
  /\ ~requireStake
  /\ a = owner
  /\ Len(registeredNodes) < MaxListed
  /\ nodeOperator' = [nodeOperator EXCEPT ![n] = owner]
  /\ isBootstrap' = isBootstrap \cup {n}
  /\ registeredKeys' = [registeredKeys EXCEPT ![n] = k]
  /\ isRegistered' = isRegistered \cup {n}
  /\ BindPubkey(nodeByPubkey, k, n)
  /\ registeredNodes' = Append(registeredNodes, n)
  /\ UNCHANGED <<operatorNode, policyVars, stakeVars>>

\* batchRegisterPublicKeys by a: the loop's requires see the earlier
\* iterations, so ids and keys are pairwise distinct as well as free
BatchRegister(a, ids, pks) ==
  /\ a = owner
  /\ ~requireStake
  /\ Len(ids) = Len(pks)
  /\ Len(ids) > 0
  /\ Len(registeredNodes) + Len(ids) <= MaxListed
  /\ \A i \in DOMAIN ids :
       /\ ids[i] \notin isRegistered
       /\ nodeByPubkey[pks[i]] = 0
       /\ \A j \in 1..(i - 1) : ids[j] # ids[i] /\ pks[j] # pks[i]
  /\ nodeOperator' = [n \in NodeIds |->
                        IF n \in Range(ids) THEN owner ELSE nodeOperator[n]]
  /\ isBootstrap' = isBootstrap \cup Range(ids)
  /\ registeredKeys' = [n \in NodeIds |->
                          IF n \in Range(ids)
                          THEN pks[CHOOSE i \in DOMAIN ids : ids[i] = n]
                          ELSE registeredKeys[n]]
  /\ isRegistered' = isRegistered \cup Range(ids)
  /\ nodeByPubkey' = [k \in Keys |->
                        IF k \in Range(pks)
                        THEN ids[CHOOSE i \in DOMAIN pks : pks[i] = k]
                        ELSE nodeByPubkey[k]]
  /\ registeredNodes' = registeredNodes \o ids
  /\ UNCHANGED <<operatorNode, policyVars, stakeVars>>

\* registerWithProof by operator a, who holds k's secret (the proof of
\* possession verifies)
RegisterWithProof(a, k) ==
  LET n == NodeIdOf[k] IN
  /\ requireStake
  /\ n \notin isRegistered
  /\ operatorNode[a] = 0
  /\ IsStaked(a)
  /\ Len(registeredNodes) < MaxListed
  /\ nodeOperator' = [nodeOperator EXCEPT ![n] = a]
  /\ operatorNode' = [operatorNode EXCEPT ![a] = n]
  /\ registeredKeys' = [registeredKeys EXCEPT ![n] = k]
  /\ isRegistered' = isRegistered \cup {n}
  /\ BindPubkey(nodeByPubkey, k, n)
  /\ registeredNodes' = Append(registeredNodes, n)
  /\ UNCHANGED <<isBootstrap, policyVars, stakeVars>>

\* syncNode's staleness predicate
IsStale(n) ==
  IF n \in isBootstrap THEN requireStake ELSE ~IsStaked(nodeOperator[n])

\* syncNode, by anyone
SyncNode(n) ==
  /\ n \in isRegistered
  /\ IsStale(n)
  /\ Deactivate(n)
  /\ UNCHANGED <<policyVars, stakeVars>>

\* updatePublicKey by a
UpdatePublicKey(a, n, k) ==
  /\ a = owner
  /\ n \in isRegistered
  /\ n \in isBootstrap
  /\ ~requireStake
  /\ registeredKeys' = [registeredKeys EXCEPT ![n] = k]
  /\ BindPubkey(Unbound(n), k, n)
  /\ UNCHANGED <<isRegistered, registeredNodes, nodeOperator, operatorNode,
                 isBootstrap, policyVars, stakeVars>>

\* revokePublicKey by a
RevokePublicKey(a, n) ==
  /\ a = owner
  /\ n \in isRegistered
  /\ ClearIdentity(n)
  /\ registeredNodes' = SwapPop(registeredNodes, n)
  /\ UNCHANGED <<policyVars, stakeVars>>

--------------------------------------------------------------------------------
(* Governance. *)

SetRegistry(a, r) ==
  /\ a = owner
  /\ registry' = r
  /\ UNCHANGED <<identityVars, owner, requireStake, minStake, stakeVars>>

SetRequireStake(a, v) ==
  /\ a = owner
  /\ requireStake' = v
  /\ UNCHANGED <<identityVars, owner, registry, minStake, stakeVars>>

SetMinStake(a, v) ==
  /\ a = owner
  /\ minStake' = v
  /\ UNCHANGED <<identityVars, owner, registry, requireStake, stakeVars>>

TransferOwnership(a, b) ==
  /\ a = owner
  /\ b # NoAddr
  /\ b # owner
  /\ owner' = b
  /\ UNCHANGED <<identityVars, registry, requireStake, minStake, stakeVars>>

--------------------------------------------------------------------------------
(* External: the SuperPaymaster Registry grants and withdraws ROLE_DVT and  *)
(* moves stake (staking, unstaking, slashing) without telling the validator. *)

SetRole(r, a) ==
  /\ role' = [role EXCEPT ![r] = IF a \in @ THEN @ \ {a} ELSE @ \cup {a}]
  /\ UNCHANGED <<identityVars, policyVars, stake>>

SetStake(r, a, v) ==
  /\ v # stake[r][a]
  /\ stake' = [stake EXCEPT ![r][a] = v]
  /\ UNCHANGED <<identityVars, policyVars, role>>

--------------------------------------------------------------------------------
Batches(S) == UNION {[1..m -> S] : m \in 1..MaxBatch}

RegistryNext ==
  \/ \E a \in Addrs, n \in NodeIds, k \in Keys : RegisterPublicKey(a, n, k)
  \/ \E a \in Addrs, ids \in Batches(NodeIds), pks \in Batches(Keys) :
       BatchRegister(a, ids, pks)
  \/ \E a \in Addrs, k \in Keys : RegisterWithProof(a, k)
  \/ \E n \in NodeIds : SyncNode(n)
  \/ \E a \in Addrs, n \in NodeIds, k \in Keys : UpdatePublicKey(a, n, k)
  \/ \E a \in Addrs, n \in NodeIds : RevokePublicKey(a, n)
  \/ \E a \in Addrs, r \in Registries \cup {NoAddr} : SetRegistry(a, r)
  \/ \E a \in Addrs, v \in BOOLEAN : SetRequireStake(a, v)
  \/ \E a \in Addrs, v \in 0..MaxStake : SetMinStake(a, v)
  \/ \E a \in Addrs, b \in Addrs \cup {NoAddr} : TransferOwnership(a, b)
  \/ \E r \in Registries, a \in Addrs : SetRole(r, a)
  \/ \E r \in Registries, a \in Addrs, v \in 0..MaxStake : SetStake(r, a, v)

RegistrySpec == RegistryInit /\ [][RegistryNext]_registryVars

--------------------------------------------------------------------------------
(* validate(hash, signature), as far as the registry decides it: ids is the *)
(* signer list in the payload.  What remains, the pairing check, compares   *)
(* the signature with the sum of these nodes' keys.                         *)
SignersAccepted(ids) ==
  /\ Len(ids) > 0
  /\ Len(ids) <= MAX_NODE_COUNT
  /\ \A i \in DOMAIN ids :
       /\ i > 1 => ids[i - 1] < ids[i]
       /\ ids[i] \in isRegistered
       /\ ~(requireStake /\ ids[i] \in isBootstrap)

--------------------------------------------------------------------------------
(* Properties. *)

\* The reverse lock nodeByPubkey is exactly the inverse of registeredKeys on
\* the registered nodes: each registered node holds its key's lock, and no
\* lock outlives the registration it was taken for (a leaked lock would bar
\* the key forever; a lost one would let two nodes share a key).
KeyLock ==
  /\ \A n \in isRegistered :
       /\ registeredKeys[n] \in Keys
       /\ nodeByPubkey[registeredKeys[n]] = n
  /\ \A k \in Keys : nodeByPubkey[k] # 0 =>
       /\ nodeByPubkey[k] \in isRegistered
       /\ registeredKeys[nodeByPubkey[k]] = k

\* operatorNode and nodeOperator are inverse to each other on the staked
\* (non-bootstrap) nodes: one stake backs one node, and an operator whose
\* node was synced, revoked or retired is free to register again.
OperatorLock ==
  /\ \A a \in Addrs : operatorNode[a] # 0 =>
       /\ operatorNode[a] \in isRegistered \ isBootstrap
       /\ nodeOperator[operatorNode[a]] = a
  /\ \A n \in isRegistered \ isBootstrap :
       /\ nodeOperator[n] \in Addrs
       /\ operatorNode[nodeOperator[n]] = n

\* A staked node's id is the hash of the key it holds, whatever governance
\* did in between (toggling requireStake, updating or revoking keys): its key
\* is the one the proof of possession was given for.
StakedKeyIsDerived ==
  \A n \in isRegistered \ isBootstrap : NodeIdOf[registeredKeys[n]] = n

\* The enumeration never loses a registered node, although deactivation
\* leaves stale ids behind, re-registration duplicates them, and revocation
\* removes one occurrence by swapping the last element over it.
Enumerated == isRegistered \subseteq Range(registeredNodes)

\* Whatever signer list validate lets through to the pairing check, its nodes
\* hold pairwise distinct keys, and with staking required they stand on
\* pairwise distinct operators' stakes: k signers are k independent ones.
SignersIndependent ==
  \A ids \in Batches(NodeIds) : SignersAccepted(ids) =>
    \A i, j \in DOMAIN ids : i # j =>
      /\ registeredKeys[ids[i]] # registeredKeys[ids[j]]
      /\ requireStake => nodeOperator[ids[i]] # nodeOperator[ids[j]]

\* While staking is required nobody, the owner included, adds a node without
\* stake, and no registered node changes its key or its operator.
StakedModeSealed ==
  [][requireStake /\ requireStake' =>
       /\ isBootstrap' \subseteq isBootstrap
       /\ \A n \in isRegistered' \ isRegistered : IsStaked(nodeOperator'[n])
       /\ \A n \in isRegistered' \cap isRegistered :
            /\ registeredKeys'[n] = registeredKeys[n]
            /\ nodeOperator'[n] = nodeOperator[n]]_registryVars

\* The registry's books agree in every order of registration, batch, sync, update,
\* revocation and governance: keys, operators and ids lock one another, the
\* enumeration misses no node, and k signers are k independent ones.
RegistryConsistent ==
  /\ KeyLock /\ OperatorLock /\ StakedKeyIsDerived
  /\ Enumerated /\ SignersIndependent
================================================================================
