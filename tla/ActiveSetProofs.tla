---------------------------- MODULE ActiveSetProofs ----------------------------
(***************************************************************************)
(* The invariants of ValidatorRegistry and of ActiveSet, which extends it, *)
(* for every set of nodes, keys and accounts, tree size, length of batch   *)
(* and length of enumeration.                                              *)
(***************************************************************************)
EXTENDS ActiveSet, TLAPS, WellFoundedInduction, FiniteSetTheorems

(* Facts about numbers and sequences of numbers, also for the components built *)
(* on this one.  Induction over the natural numbers is used in the form of the *)
(* least-element principle, which is a statement about sets.                   *)

\* Some well-founded relation on Nat contains the order <.
LEMMA NatOrder ==
  \E R : /\ IsWellFoundedOn(R, Nat)
         /\ \A x, y \in Nat : y < x => <<y, x>> \in R
<1>1. \A x, y \in Nat : y < x => <<y, x>> \in OpToRel(<, Nat)
  BY Zenon DEF OpToRel
<1>2. WITNESS OpToRel(<, Nat)
<1> QED
  BY <1>1, NatLessThanWellFounded, Zenon

\* A non-empty set of natural numbers has a least element.
LEMMA LeastNatural ==
  ASSUME NEW T \in SUBSET Nat, T # {}
  PROVE  \E x \in T : \A y \in T : x <= y
<1>1. PICK R : /\ IsWellFoundedOn(R, Nat)
               /\ \A x, y \in Nat : y < x => <<y, x>> \in R
  BY Zenon, NatOrder
<1>2. PICK x \in T : \A y \in T : ~(<<y, x>> \in R)
  BY ZenonT(30), <1>1, WFMin
<1>3. \A y \in T : ~(y < x)
  BY ZenonT(30), <1>1, <1>2
<1> QED
  BY <1>3

\* A loop that compares each element with the previous one (validate and
\* snapshotEpoch on node ids) establishes that the whole list is increasing.
LEMMA AdjacentIncreasing ==
  ASSUME NEW s \in Seq(Nat),
         \A i \in DOMAIN s : i > 1 => s[i - 1] < s[i]
  PROVE  \A i, j \in DOMAIN s : i < j => s[i] < s[j]
<1> SUFFICES ASSUME NEW i \in DOMAIN s, NEW j \in DOMAIN s,
                    i < j, ~(s[i] < s[j])
             PROVE  FALSE
  BY Zenon
<1> DEFINE Bad == {k \in Nat : k \in DOMAIN s /\ i < k /\ ~(s[i] < s[k])}
<1>1. Bad \in SUBSET Nat /\ Bad # {}
  OBVIOUS
<1>2. PICK k \in Bad : \A y \in Bad : k <= y
  BY ZenonT(30), <1>1, LeastNatural
<1>3. k - 1 \notin Bad
  BY <1>2
<1>4. k - 1 \in DOMAIN s
  BY <1>2
<1>5. /\ s[k - 1] < s[k]
      /\ s[i] \in Nat /\ s[k] \in Nat /\ s[k - 1] \in Nat
  BY <1>2, <1>4
<1>6. CASE k - 1 = i
  BY Zenon, <1>2, <1>5, <1>6
<1>7. CASE k - 1 # i
  <2>1. s[i] < s[k - 1]
    BY <1>2, <1>3, <1>4, <1>7
  <2> QED
    BY <2>1, <1>2, <1>5
<1> QED
  BY Zenon, <1>6, <1>7

\* A list without repetitions lists as many values as it is long.
LEMMA RangeCardinality ==
  ASSUME NEW S, NEW s \in Seq(S),
         \A i, j \in DOMAIN s : s[i] = s[j] => i = j
  PROVE  IsFiniteSet(Range(s)) /\ Cardinality(Range(s)) = Len(s)
<1> DEFINE n == Len(s)
<1>1. n \in Nat /\ DOMAIN s = 1..n
  OBVIOUS
<1>2. s \in [1..n -> Range(s)]
  BY <1>1 DEF Range
<1>3. s \in Injection(1..n, Range(s))
  BY Zenon, <1>1, <1>2 DEF Injection, IsInjective
<1>4. s \in Surjection(1..n, Range(s))
  BY Zenon, <1>1, <1>2 DEF Surjection, Range
<1>5. ExistsBijection(1..n, Range(s))
  BY Zenon, <1>3, <1>4 DEF ExistsBijection, Bijection
<1>6. IsFiniteSet(Range(s))
  BY Zenon, <1>1, <1>5, FS_NatBijection
<1> QED
  BY Zenon, <1>1, <1>5, <1>6, FS_CountingElements

--------------------------------------------------------------------------------
\* The inductive invariant.  The last conjunct is what the others lack: a
\* bootstrap mark that survived a deactivation would attach to the staked
\* node registered under the same id later.
RegistryInv ==
  /\ RegistryTypeOK
  /\ KeyLock
  /\ OperatorLock
  /\ StakedKeyIsDerived
  /\ Enumerated
  /\ isBootstrap \subseteq isRegistered

\* Appending to the enumeration keeps what it lists and adds the new id.
LEMMA RangeAppend ==
  ASSUME NEW S, NEW s \in Seq(S), NEW x \in S
  PROVE  Range(Append(s, x)) = Range(s) \cup {x}
<1> DEFINE t == Append(s, x)
<1>1. /\ DOMAIN t = 1..(Len(s) + 1)
      /\ DOMAIN s = 1..Len(s)
      /\ \A i \in 1..Len(s) : t[i] = s[i]
      /\ t[Len(s) + 1] = x
  OBVIOUS
<1>2. Range(t) \subseteq Range(s) \cup {x}
  BY <1>1 DEF Range
<1>3. Range(s) \cup {x} \subseteq Range(t)
  BY <1>1 DEF Range
<1> QED
  BY Zenon, <1>2, <1>3

\* Concatenating a batch lists both parts.
LEMMA RangeConcat ==
  ASSUME NEW S, NEW s \in Seq(S), NEW t \in Seq(S)
  PROVE  Range(s \o t) = Range(s) \cup Range(t)
<1> DEFINE u == s \o t
<1>1. /\ DOMAIN u = 1..(Len(s) + Len(t))
      /\ DOMAIN s = 1..Len(s)
      /\ DOMAIN t = 1..Len(t)
      /\ \A i \in 1..Len(s) : u[i] = s[i]
      /\ \A i \in 1..Len(t) : u[Len(s) + i] = t[i]
      /\ \A i \in 1..(Len(s) + Len(t)) : i > Len(s) => u[i] = t[i - Len(s)]
  OBVIOUS
<1>2. Range(u) \subseteq Range(s) \cup Range(t)
  <2> SUFFICES ASSUME NEW i \in DOMAIN u
               PROVE  u[i] \in Range(s) \cup Range(t)
    BY Zenon DEF Range
  <2>1. CASE i <= Len(s)
    BY <1>1, <2>1 DEF Range
  <2>2. CASE i > Len(s)
    <3>1. i - Len(s) \in DOMAIN t /\ u[i] = t[i - Len(s)]
      BY <1>1, <2>2
    <3> QED
      BY Zenon, <3>1 DEF Range
  <2> QED
    BY <1>1, <2>1, <2>2
<1>3. Range(s) \cup Range(t) \subseteq Range(u)
  <2>1. ASSUME NEW i \in DOMAIN s
        PROVE  s[i] \in Range(u)
    BY <1>1, i \in DOMAIN u DEF Range
  <2>2. ASSUME NEW i \in DOMAIN t
        PROVE  t[i] \in Range(u)
    <3>1. Len(s) + i \in DOMAIN u /\ u[Len(s) + i] = t[i]
      BY <1>1
    <3> QED
      BY Zenon, <3>1 DEF Range
  <2> QED
    BY Zenon, <2>1, <2>2 DEF Range
<1> QED
  BY Zenon, <1>2, <1>3

\* revokePublicKey's swap-and-pop removes nothing but one occurrence of n.
LEMMA SwapPopKeeps ==
  ASSUME NEW S, NEW s \in Seq(S), NEW n \in S
  PROVE  /\ SwapPop(s, n) \in Seq(S)
         /\ \A m \in Range(s) : m # n => m \in Range(SwapPop(s, n))
<1>1. CASE n \notin Range(s)
  BY Zenon, <1>1 DEF SwapPop
<1>2. CASE n \in Range(s)
  <2> DEFINE First(i) == s[i] = n /\ \A j \in 1..(i - 1) : s[j] # n
  <2>1. \E i \in DOMAIN s : First(i)
    <3> DEFINE At == {i \in Nat : i \in DOMAIN s /\ s[i] = n}
    <3>1. At \in SUBSET Nat /\ At # {}
      BY <1>2 DEF Range
    <3>2. PICK i \in At : \A j \in At : i <= j
      BY ZenonT(30), <3>1, LeastNatural
    <3>3. \A j \in 1..(i - 1) : s[j] # n
      BY <3>2
    <3> QED
      BY Zenon, <3>2, <3>3
  <2> DEFINE at == CHOOSE i \in DOMAIN s : First(i)
             t  == [s EXCEPT ![at] = s[Len(s)]]
             u  == SubSeq(t, 1, Len(s) - 1)
  <2>2. at \in DOMAIN s /\ s[at] = n
    BY Zenon, <2>1
  <2>3. SwapPop(s, n) = u
    BY Zenon, <1>2 DEF SwapPop
  <2> HIDE DEF at
  <2>4. /\ t \in Seq(S) /\ Len(t) = Len(s) /\ Len(s) >= 1
        /\ t[at] = s[Len(s)]
        /\ \A i \in DOMAIN s : i # at => t[i] = s[i]
    BY <2>2
  <2> HIDE DEF t
  <2>5. /\ u \in Seq(S) /\ Len(u) = Len(s) - 1
        /\ DOMAIN u = 1..(Len(s) - 1)
        /\ \A i \in 1..(Len(s) - 1) : u[i] = t[i]
    BY <2>4
  <2>6. ASSUME NEW m \in Range(s), m # n
        PROVE  m \in Range(u)
    <3>1. PICK i \in DOMAIN s : s[i] = m
      BY Zenon, <2>6 DEF Range
    <3>2. CASE i = Len(s)
      <4>1. at \in DOMAIN u /\ u[at] = m
        BY <2>2, <2>4, <2>5, <2>6, <3>1, <3>2
      <4> QED
        BY Zenon, <4>1 DEF Range
    <3>3. CASE i # Len(s)
      <4>1. i \in DOMAIN u /\ u[i] = m
        BY <2>2, <2>4, <2>5, <2>6, <3>1, <3>3
      <4> QED
        BY Zenon, <4>1 DEF Range
    <3> QED
      BY Zenon, <3>2, <3>3
  <2> QED
    BY Zenon, <2>3, <2>5, <2>6
<1> QED
  BY Zenon, <1>1, <1>2

--------------------------------------------------------------------------------
\* A deployed registry is empty.
LEMMA InitRegistryInv == RegistryInit => RegistryInv
<1> SUFFICES ASSUME RegistryInit
             PROVE  RegistryInv
  BY Zenon
<1> USE DEF RegistryInit
<1>1. RegistryTypeOK
  <2>1. requireStake \in BOOLEAN
    BY Zenon
  <2>3. registeredNodes \in Seq(NodeIds)
    OBVIOUS
  <2>2. /\ minStake \in 0..MaxStake
        /\ stake \in [Registries -> [Addrs -> 0..MaxStake]]
    BY RegistryAssumption
  <2> QED
    BY Zenon, <2>1, <2>2, <2>3, RegistryAssumption DEF RegistryTypeOK
<1>2. KeyLock /\ OperatorLock /\ StakedKeyIsDerived
  BY Zenon DEF KeyLock, OperatorLock, StakedKeyIsDerived
<1>3. Enumerated /\ isBootstrap \subseteq isRegistered
  BY Zenon DEF Enumerated
<1> QED
  BY Zenon, <1>1, <1>2, <1>3 DEF RegistryInv

\* What is left of the locks and bindings when node n is cleared.
LEMMA ClearIdentityInv ==
  ASSUME RegistryInv, NEW n \in isRegistered, ClearIdentity(n),
         UNCHANGED <<policyVars, stakeVars>>,
         registeredNodes' \in Seq(NodeIds),
         \A m \in Range(registeredNodes) : m # n => m \in Range(registeredNodes')
  PROVE  RegistryInv'
<1> USE DEF RegistryInv, ClearIdentity, policyVars, stakeVars
<1>1. RegistryTypeOK'
  BY Zenon, RegistryAssumption DEF RegistryTypeOK, Unbound, OperatorFreed
<1>2. KeyLock'
  BY RegistryAssumption DEF KeyLock, RegistryTypeOK, Unbound
<1>3. OperatorLock'
  BY RegistryAssumption DEF OperatorLock, RegistryTypeOK, OperatorFreed
<1>4. StakedKeyIsDerived'
  BY Zenon DEF StakedKeyIsDerived, RegistryTypeOK
<1>5. Enumerated'
  BY Zenon DEF Enumerated
<1> QED
  BY Zenon, <1>1, <1>2, <1>3, <1>4, <1>5

\* Registering n under key k, on the bootstrap or on the staked path.
LEMMA RegisterPublicKeyInv ==
  ASSUME RegistryInv, NEW a \in Addrs, NEW n \in NodeIds, NEW k \in Keys,
         RegisterPublicKey(a, n, k)
  PROVE  RegistryInv'
<1> USE DEF RegistryInv, RegisterPublicKey, BindPubkey, policyVars, stakeVars
<1>1. RegistryTypeOK'
  BY RegistryAssumption DEF RegistryTypeOK
<1>2. KeyLock'
  BY RegistryAssumption DEF KeyLock, RegistryTypeOK
<1>3. OperatorLock'
  BY RegistryAssumption DEF OperatorLock, RegistryTypeOK
<1>4. StakedKeyIsDerived'
  BY Zenon DEF StakedKeyIsDerived, RegistryTypeOK
<1>5. Enumerated'
  BY RangeAppend DEF Enumerated, RegistryTypeOK
<1> QED
  BY ZenonT(30), <1>1, <1>2, <1>3, <1>4, <1>5

\* registerWithProof: the id is the hash of the key, so the key's lock is new.
LEMMA RegisterWithProofInv ==
  ASSUME RegistryInv, NEW a \in Addrs, NEW k \in Keys, RegisterWithProof(a, k)
  PROVE  RegistryInv'
<1> DEFINE n == NodeIdOf[k]
<1>0. /\ n \in NodeIds \ isRegistered
      /\ NodeIdOf[k] = n
      /\ operatorNode[a] = 0
      /\ nodeByPubkey[k] = 0
      /\ nodeOperator' = [nodeOperator EXCEPT ![n] = a]
      /\ operatorNode' = [operatorNode EXCEPT ![a] = n]
      /\ registeredKeys' = [registeredKeys EXCEPT ![n] = k]
      /\ isRegistered' = isRegistered \cup {n}
      /\ nodeByPubkey' = [nodeByPubkey EXCEPT ![k] = n]
      /\ registeredNodes' = Append(registeredNodes, n)
      /\ UNCHANGED <<isBootstrap, owner, registry, requireStake, minStake, role, stake>>
  BY Zenon, RegistryAssumption
     DEF RegisterWithProof, BindPubkey, policyVars, stakeVars
<1> HIDE DEF n
<1> USE DEF RegistryInv
<1>1. RegistryTypeOK'
  BY <1>0 DEF RegistryTypeOK
<1>2. KeyLock'
  BY <1>0, RegistryAssumption DEF KeyLock, RegistryTypeOK
<1>3. OperatorLock'
  BY <1>0, RegistryAssumption DEF OperatorLock, RegistryTypeOK
<1>4. StakedKeyIsDerived'
  BY <1>0 DEF StakedKeyIsDerived, RegistryTypeOK
<1>5. Enumerated'
  BY <1>0, RangeAppend DEF Enumerated, RegistryTypeOK
<1> QED
  BY Zenon, <1>0, <1>1, <1>2, <1>3, <1>4, <1>5

\* updatePublicKey moves the key's lock, on bootstrap nodes only.
LEMMA UpdatePublicKeyInv ==
  ASSUME RegistryInv, NEW a \in Addrs, NEW n \in NodeIds, NEW k \in Keys,
         UpdatePublicKey(a, n, k)
  PROVE  RegistryInv'
<1> USE DEF RegistryInv, UpdatePublicKey, BindPubkey, policyVars, stakeVars
<1>1. RegistryTypeOK'
  BY Zenon, RegistryAssumption DEF RegistryTypeOK, Unbound
<1>2. KeyLock'
  BY RegistryAssumption DEF KeyLock, RegistryTypeOK, Unbound
<1>3. OperatorLock'
  BY Zenon DEF OperatorLock, RegistryTypeOK
<1>4. StakedKeyIsDerived'
  BY Zenon DEF StakedKeyIsDerived, RegistryTypeOK
<1>5. Enumerated'
  BY Zenon DEF Enumerated
<1> QED
  BY Zenon, <1>1, <1>2, <1>3, <1>4, <1>5

\* A batch binds its ids to its keys one to one.
LEMMA BatchRegisterInv ==
  ASSUME RegistryInv, NEW a \in Addrs, NEW ids \in Seq(NodeIds),
         NEW pks \in Seq(Keys), BatchRegister(a, ids, pks)
  PROVE  RegistryInv'
<1> DEFINE D == DOMAIN ids
           KeyOf(n) == pks[CHOOSE i \in D : ids[i] = n]
           IdOf(k) == ids[CHOOSE i \in DOMAIN pks : pks[i] = k]
<1>1. /\ DOMAIN pks = D
      /\ \A i \in D : /\ ids[i] \in NodeIds \ isRegistered
                      /\ pks[i] \in Keys
                      /\ nodeByPubkey[pks[i]] = 0
  BY DEF BatchRegister
<1>2. \A i, j \in D : ids[i] = ids[j] \/ pks[i] = pks[j] => i = j
  <2> SUFFICES ASSUME NEW i \in D, NEW j \in D, j < i
               PROVE  ids[i] # ids[j] /\ pks[i] # pks[j]
    BY <1>1
  <2>1. j \in 1..(i - 1)
    OBVIOUS
  <2> QED
    BY Zenon, <2>1 DEF BatchRegister
<1>3. \A i \in D : KeyOf(ids[i]) = pks[i] /\ IdOf(pks[i]) = ids[i]
  BY Zenon, <1>1, <1>2
<1>4. /\ \A n \in Range(ids) : \E i \in D : n = ids[i]
      /\ \A k \in Range(pks) : \E i \in D : k = pks[i]
      /\ \A i \in D : ids[i] \in Range(ids) /\ pks[i] \in Range(pks)
  BY Zenon, <1>1 DEF Range
<1>5. /\ nodeOperator' = [n \in NodeIds |->
                            IF n \in Range(ids) THEN owner ELSE nodeOperator[n]]
      /\ isBootstrap' = isBootstrap \cup Range(ids)
      /\ registeredKeys' = [n \in NodeIds |->
                              IF n \in Range(ids) THEN KeyOf(n)
                              ELSE registeredKeys[n]]
      /\ isRegistered' = isRegistered \cup Range(ids)
      /\ nodeByPubkey' = [k \in Keys |->
                            IF k \in Range(pks) THEN IdOf(k)
                            ELSE nodeByPubkey[k]]
      /\ registeredNodes' = registeredNodes \o ids
      /\ UNCHANGED <<operatorNode, owner, registry, requireStake, minStake, role, stake>>
  BY ZenonT(30) DEF BatchRegister, policyVars, stakeVars
<1> HIDE DEF D, KeyOf, IdOf
<1> USE DEF RegistryInv
<1>6. RegistryTypeOK'
  <2>1. \A n \in Range(ids) : n \in NodeIds /\ KeyOf(n) \in Keys
    BY <1>1, <1>3, <1>4
  <2>2. \A k \in Range(pks) : IdOf(k) \in NodeIds
    BY <1>1, <1>3, <1>4
  <2>3. registeredNodes' \in Seq(NodeIds)
    BY <1>5 DEF RegistryTypeOK
  <2> QED
    BY Zenon, <1>5, <2>1, <2>2, <2>3 DEF RegistryTypeOK
<1>7. KeyLock'
  <2>1. ASSUME NEW n \in isRegistered'
        PROVE  registeredKeys'[n] \in Keys /\ nodeByPubkey'[registeredKeys'[n]] = n
    <3>1. CASE n \in Range(ids)
      <4>1. PICK i \in D : n = ids[i]
        BY Zenon, <1>4, <3>1
      <4>2. registeredKeys'[n] = pks[i] /\ nodeByPubkey'[pks[i]] = n
        BY ZenonT(30), <1>1, <1>3, <1>4, <1>5, <4>1
      <4> QED
        BY Zenon, <1>1, <4>2
    <3>2. CASE n \notin Range(ids)
      <4>1. n \in isRegistered /\ registeredKeys'[n] = registeredKeys[n]
        BY Zenon, <1>5, <3>2 DEF RegistryTypeOK
      <4>2. registeredKeys[n] \in Keys /\ nodeByPubkey[registeredKeys[n]] = n
        BY Zenon, <4>1 DEF KeyLock
      <4>3. n # 0
        BY Zenon, <4>1, RegistryAssumption DEF RegistryTypeOK
      <4>4. registeredKeys[n] \notin Range(pks)
        BY <1>1, <1>4, <4>2, <4>3
      <4> QED
        BY Zenon, <1>5, <4>1, <4>2, <4>4
    <3> QED
      BY Zenon, <3>1, <3>2
  <2>2. ASSUME NEW k \in Keys, nodeByPubkey'[k] # 0
        PROVE  nodeByPubkey'[k] \in isRegistered' /\ registeredKeys'[nodeByPubkey'[k]] = k
    <3>1. CASE k \in Range(pks)
      <4>1. PICK i \in D : k = pks[i]
        BY Zenon, <1>4, <3>1
      <4>2. nodeByPubkey'[k] = ids[i] /\ registeredKeys'[ids[i]] = k
        BY ZenonT(30), <1>1, <1>3, <1>4, <1>5, <4>1
      <4> QED
        BY <1>4, <1>5, <4>2
    <3>2. CASE k \notin Range(pks)
      <4>1. nodeByPubkey'[k] = nodeByPubkey[k]
        BY Zenon, <1>5, <3>2
      <4>2. nodeByPubkey[k] \in isRegistered /\ registeredKeys[nodeByPubkey[k]] = k
        BY Zenon, <2>2, <4>1 DEF KeyLock
      <4>3. nodeByPubkey[k] \notin Range(ids)
        BY Zenon, <1>1, <1>4, <4>2
      <4> QED
        BY ZenonT(30), <1>5, <4>1, <4>2, <4>3 DEF RegistryTypeOK
    <3> QED
      BY ZenonT(30), <3>1, <3>2
  <2> QED
    BY Zenon, <2>1, <2>2 DEF KeyLock
<1>8. \A n \in Range(ids) : n \notin isRegistered
  BY <1>1, <1>4
<1>9. OperatorLock'
  BY Zenon, <1>5, <1>8 DEF OperatorLock, RegistryTypeOK
<1>10. StakedKeyIsDerived'
  BY Zenon, <1>5 DEF StakedKeyIsDerived, RegistryTypeOK
<1>11. Enumerated'
  BY <1>5, RangeConcat DEF Enumerated, RegistryTypeOK
<1> QED
  BY Zenon, <1>5, <1>6, <1>7, <1>9, <1>10, <1>11

\* syncNode clears the identity and leaves the enumeration alone.
LEMMA SyncNodeInv ==
  ASSUME RegistryInv, NEW n \in NodeIds, SyncNode(n)
  PROVE  RegistryInv'
<1>1. /\ n \in isRegistered
      /\ ClearIdentity(n)
      /\ UNCHANGED <<policyVars, stakeVars>>
      /\ registeredNodes' = registeredNodes
  BY Zenon DEF SyncNode, Deactivate
<1>2. registeredNodes' \in Seq(NodeIds)
  BY Zenon, <1>1 DEF RegistryInv, RegistryTypeOK
<1> QED
  BY Zenon, <1>1, <1>2, ClearIdentityInv

\* revokePublicKey clears the identity and one entry of the enumeration.
LEMMA RevokePublicKeyInv ==
  ASSUME RegistryInv, NEW a \in Addrs, NEW n \in NodeIds, RevokePublicKey(a, n)
  PROVE  RegistryInv'
<1>1. /\ n \in isRegistered
      /\ ClearIdentity(n)
      /\ UNCHANGED <<policyVars, stakeVars>>
      /\ registeredNodes' = SwapPop(registeredNodes, n)
  BY Zenon DEF RevokePublicKey
<1>2. /\ registeredNodes' \in Seq(NodeIds)
      /\ \A m \in Range(registeredNodes) : m # n => m \in Range(registeredNodes')
  BY Zenon, <1>1, SwapPopKeeps DEF RegistryInv, RegistryTypeOK
<1> QED
  BY Zenon, <1>1, <1>2, ClearIdentityInv

\* A step that leaves the nodes alone keeps what is said about them.
LEMMA IdentityUnchangedInv ==
  ASSUME RegistryInv, UNCHANGED identityVars, RegistryTypeOK'
  PROVE  RegistryInv'
<1> USE DEF RegistryInv, identityVars
<1>1. KeyLock' /\ OperatorLock'
  BY Zenon DEF KeyLock, OperatorLock
<1>2. StakedKeyIsDerived' /\ Enumerated'
  BY Zenon DEF StakedKeyIsDerived, Enumerated
<1> QED
  BY Zenon, <1>1, <1>2

\* The steps of governance and of the external Registry.
LEMMA PolicyStepInv ==
  ASSUME RegistryInv,
         \/ \E a \in Addrs, r \in Registries \cup {NoAddr} : SetRegistry(a, r)
         \/ \E a \in Addrs, v \in BOOLEAN : SetRequireStake(a, v)
         \/ \E a \in Addrs, v \in 0..MaxStake : SetMinStake(a, v)
         \/ \E a \in Addrs, b \in Addrs \cup {NoAddr} : TransferOwnership(a, b)
         \/ \E r \in Registries, a \in Addrs : SetRole(r, a)
         \/ \E r \in Registries, a \in Addrs, v \in 0..MaxStake : SetStake(r, a, v)
  PROVE  RegistryInv' /\ UNCHANGED identityVars
<1> USE DEF identityVars, policyVars, stakeVars
<1>1. UNCHANGED identityVars
  BY DEF SetRegistry, SetRequireStake, SetMinStake, TransferOwnership, SetRole, SetStake
<1>2. RegistryTypeOK
  BY ZenonT(30) DEF RegistryInv
<1>3. RegistryTypeOK'
  <2> USE <1>1, <1>2 DEF RegistryTypeOK
  <2>1. ASSUME NEW a \in Addrs, NEW r \in Registries \cup {NoAddr}, SetRegistry(a, r)
        PROVE  RegistryTypeOK'
    BY ZenonT(30), <2>1 DEF SetRegistry
  <2>2. ASSUME NEW a \in Addrs, NEW v \in BOOLEAN, SetRequireStake(a, v)
        PROVE  RegistryTypeOK'
    BY ZenonT(30), <2>2 DEF SetRequireStake
  <2>3. ASSUME NEW a \in Addrs, NEW v \in 0..MaxStake, SetMinStake(a, v)
        PROVE  RegistryTypeOK'
    BY ZenonT(30), <2>3 DEF SetMinStake
  <2>4. ASSUME NEW a \in Addrs, NEW b \in Addrs \cup {NoAddr},
               TransferOwnership(a, b)
        PROVE  RegistryTypeOK'
    BY ZenonT(30), <2>4 DEF TransferOwnership
  <2>5. ASSUME NEW r \in Registries, NEW a \in Addrs, SetRole(r, a)
        PROVE  RegistryTypeOK'
    BY ZenonT(30), <2>5 DEF SetRole
  <2>6. ASSUME NEW r \in Registries, NEW a \in Addrs, NEW v \in 0..MaxStake,
               SetStake(r, a, v)
        PROVE  RegistryTypeOK'
    BY ZenonT(30), <2>6 DEF SetStake
  <2> QED
    BY ZenonT(30), <2>1, <2>2, <2>3, <2>4, <2>5, <2>6
<1> QED
  BY Zenon, <1>1, <1>3, IdentityUnchangedInv

\* Every step of the contract and of the Registry it reads keeps the invariant.
LEMMA NextRegistryInv ==
  ASSUME RegistryInv, [RegistryNext]_registryVars
  PROVE  RegistryInv'
<1>1. ASSUME NEW a \in Addrs, NEW n \in NodeIds, NEW k \in Keys,
             RegisterPublicKey(a, n, k)
      PROVE  RegistryInv'
  BY Zenon, <1>1, RegisterPublicKeyInv
<1>2. ASSUME NEW a \in Addrs, NEW ids \in Batches(NodeIds),
             NEW pks \in Batches(Keys), BatchRegister(a, ids, pks)
      PROVE  RegistryInv'
  <2>1. ids \in Seq(NodeIds) /\ pks \in Seq(Keys)
    BY RegistryAssumption DEF Batches
  <2> QED
    BY Zenon, <1>2, <2>1, BatchRegisterInv
<1>3. ASSUME NEW a \in Addrs, NEW k \in Keys, RegisterWithProof(a, k)
      PROVE  RegistryInv'
  BY Zenon, <1>3, RegisterWithProofInv
<1>4. ASSUME NEW n \in NodeIds, SyncNode(n)
      PROVE  RegistryInv'
  BY Zenon, <1>4, SyncNodeInv
<1>5. ASSUME NEW a \in Addrs, NEW n \in NodeIds, NEW k \in Keys,
             UpdatePublicKey(a, n, k)
      PROVE  RegistryInv'
  BY Zenon, <1>5, UpdatePublicKeyInv
<1>6. ASSUME NEW a \in Addrs, NEW n \in NodeIds, RevokePublicKey(a, n)
      PROVE  RegistryInv'
  BY Zenon, <1>6, RevokePublicKeyInv
<1>7. CASE UNCHANGED registryVars
  <2>1. RegistryTypeOK' /\ UNCHANGED identityVars
    BY Zenon, <1>7 DEF RegistryInv, RegistryTypeOK, registryVars, identityVars, policyVars, stakeVars
  <2> QED
    BY Zenon, <2>1, IdentityUnchangedInv
<1> QED
  BY ZenonT(30), <1>1, <1>2, <1>3, <1>4, <1>5, <1>6, <1>7, PolicyStepInv DEF RegistryNext

--------------------------------------------------------------------------------
(* Theorems. *)

\* The invariant holds in every reachable state: types, the inverse locks on
\* keys and operators, derived ids of staked nodes, a complete enumeration.
THEOREM RegistryInvariant == RegistrySpec => []RegistryInv
<1>1. RegistryInv /\ [RegistryNext]_registryVars => RegistryInv'
  BY Zenon, NextRegistryInv
<1> QED
  BY InitRegistryInv, <1>1, PTL DEF RegistrySpec

\* nodeByPubkey is the inverse of registeredKeys in every reachable state.
THEOREM KeyLockHolds == RegistrySpec => []KeyLock
<1>1. RegistryInv => KeyLock
  BY Zenon DEF RegistryInv
<1> QED
  BY RegistryInvariant, <1>1, PTL

\* operatorNode is the inverse of nodeOperator on the staked nodes.
THEOREM OperatorLockHolds == RegistrySpec => []OperatorLock
<1>1. RegistryInv => OperatorLock
  BY Zenon DEF RegistryInv
<1> QED
  BY RegistryInvariant, <1>1, PTL

\* A staked node's id stays the hash of the key it holds.
THEOREM StakedKeyIsDerivedHolds == RegistrySpec => []StakedKeyIsDerived
<1>1. RegistryInv => StakedKeyIsDerived
  BY Zenon DEF RegistryInv
<1> QED
  BY RegistryInvariant, <1>1, PTL

\* The enumeration contains every registered node.
THEOREM EnumeratedHolds == RegistrySpec => []Enumerated
<1>1. RegistryInv => Enumerated
  BY ZenonT(30) DEF RegistryInv
<1> QED
  BY RegistryInvariant, <1>1, PTL

\* validate's loop on neighbouring ids, with the two reverse locks, makes the
\* accepted signers pairwise independent.
LEMMA AcceptedIndependent == RegistryInv => SignersIndependent
<1> SUFFICES ASSUME RegistryInv, NEW ids \in Batches(NodeIds), SignersAccepted(ids),
                    NEW i \in DOMAIN ids, NEW j \in DOMAIN ids, i # j
             PROVE  /\ registeredKeys[ids[i]] # registeredKeys[ids[j]]
                    /\ requireStake => nodeOperator[ids[i]] # nodeOperator[ids[j]]
  BY Zenon DEF SignersIndependent
<1>1. ids \in Seq(Nat)
  <2>1. PICK m \in 1..MaxBatch : ids \in [1..m -> NodeIds]
    BY Zenon DEF Batches
  <2>2. m \in Nat
    BY <2>1, RegistryAssumption
  <2>3. NodeIds \subseteq Nat
    BY Zenon, RegistryAssumption
  <2>4. ids \in [1..m -> Nat]
    BY ZenonT(30), <2>1, <2>3
  <2> QED
    BY <2>2, <2>4
<1>2. \A p, q \in DOMAIN ids : p < q => ids[p] < ids[q]
  BY ZenonT(30), <1>1, AdjacentIncreasing DEF SignersAccepted
<1>3. ids[i] # ids[j]
  <2>1. i \in Nat /\ j \in Nat /\ ids[i] \in Nat /\ ids[j] \in Nat
    BY <1>1
  <2> QED
    BY <1>2, <2>1
<1>4. /\ ids[i] \in isRegistered /\ ids[j] \in isRegistered
      /\ requireStake => ids[i] \notin isBootstrap /\ ids[j] \notin isBootstrap
  BY DEF SignersAccepted
<1> QED
  BY <1>3, <1>4 DEF RegistryInv, KeyLock, OperatorLock

\* Accepted signers hold distinct keys and, with staking required, stand on
\* distinct operators.
THEOREM SignersIndependentHolds == RegistrySpec => []SignersIndependent
BY RegistryInvariant, AcceptedIndependent, PTL

\* The registry's books agree in every reachable state.
THEOREM RegistryConsistentHolds == RegistrySpec => []RegistryConsistent
BY KeyLockHolds, OperatorLockHolds, StakedKeyIsDerivedHolds, EnumeratedHolds,
   SignersIndependentHolds, PTL DEF RegistryConsistent

\* With staking required throughout a step, the step adds no unstaked node and
\* rebinds no registered one.
THEOREM StakedModeSealedHolds == RegistrySpec => StakedModeSealed
<1> DEFINE Sealed ==
      requireStake /\ requireStake' =>
        /\ isBootstrap' \subseteq isBootstrap
        /\ \A n \in isRegistered' \ isRegistered : IsStaked(nodeOperator'[n])
        /\ \A n \in isRegistered' \cap isRegistered :
             /\ registeredKeys'[n] = registeredKeys[n]
             /\ nodeOperator'[n] = nodeOperator[n]
<1>1. ASSUME RegistryInv, RegistryNext
      PROVE  Sealed
  <2> SUFFICES ASSUME requireStake, requireStake'
               PROVE  Sealed
    BY Zenon
  <2>1. ASSUME NEW a \in Addrs, NEW k \in Keys, RegisterWithProof(a, k)
        PROVE  Sealed
    <3> DEFINE n == NodeIdOf[k]
    <3>1. /\ n \in NodeIds \ isRegistered
          /\ IsStaked(a)
          /\ nodeOperator' = [nodeOperator EXCEPT ![n] = a]
          /\ registeredKeys' = [registeredKeys EXCEPT ![n] = k]
          /\ isRegistered' = isRegistered \cup {n}
          /\ isBootstrap' = isBootstrap
      BY Zenon, <2>1, RegistryAssumption DEF RegisterWithProof
    <3> HIDE DEF n
    <3>2. nodeOperator'[n] = a
      BY ZenonT(30), <1>1, <3>1 DEF RegistryInv, RegistryTypeOK
    <3> QED
      BY Zenon, <1>1, <3>1, <3>2 DEF RegistryInv, RegistryTypeOK
  <2>2. ASSUME NEW n \in NodeIds, ClearIdentity(n)
        PROVE  Sealed
    BY ZenonT(30), <1>1, <2>2 DEF ClearIdentity, RegistryInv, RegistryTypeOK
  <2>3. ASSUME NEW n \in NodeIds, SyncNode(n)
        PROVE  Sealed
    BY ZenonT(30), <2>2, <2>3 DEF SyncNode, Deactivate
  <2>4. ASSUME NEW n \in NodeIds, NEW a \in Addrs, RevokePublicKey(a, n)
        PROVE  Sealed
    BY ZenonT(30), <2>2, <2>4 DEF RevokePublicKey
  <2>5. CASE UNCHANGED identityVars
    BY ZenonT(30), <2>5 DEF identityVars
  <2>6. /\ ~\E a \in Addrs, n \in NodeIds, k \in Keys : RegisterPublicKey(a, n, k)
        /\ ~\E a \in Addrs, ids \in Batches(NodeIds), pks \in Batches(Keys) :
              BatchRegister(a, ids, pks)
        /\ ~\E a \in Addrs, n \in NodeIds, k \in Keys : UpdatePublicKey(a, n, k)
    BY ZenonT(30) DEF RegisterPublicKey, BatchRegister, UpdatePublicKey
  <2> HIDE DEF Sealed
  <2> QED
    BY ZenonT(30), <1>1, <2>1, <2>3, <2>4, <2>5, <2>6, PolicyStepInv DEF RegistryNext
<1>2. RegistryInv /\ [RegistryNext]_registryVars => [Sealed]_registryVars
  BY Zenon, <1>1
<1> QED
  BY RegistryInvariant, <1>2, PTL DEF RegistrySpec, StakedModeSealed

--------------------------------------------------------------------------------
(* The active set on top of the registry.                                  *)

\* The allocator's part of the inductive invariant.  The last conjunct is the
\* balance that makes the capacity concurrent.
SlotInv ==
  /\ SlotTypeOK
  /\ CommitsToRegistered
  /\ SlotsAccounted
  /\ IsFiniteSet(isRegistered)
  /\ nextSlot = activeCount + Len(freeSlots)

ActiveInv == RegistryInv /\ SlotInv

\* A deployed validator has no slots taken and an empty tree.
LEMMA InitActiveInv == ActiveInit => ActiveInv
<1> SUFFICES ASSUME ActiveInit
             PROVE  ActiveInv
  BY Zenon
<1> USE DEF ActiveInit, SlotInit
<1>1. RegistryInv
  BY Zenon, InitRegistryInv
<1>2. isRegistered = {}
  BY Zenon DEF RegistryInit
<1>3. IsFiniteSet(isRegistered) /\ Cardinality(isRegistered) = 0
  BY Zenon, <1>2, FS_EmptySet
<1>4. SlotTypeOK
  BY TreeAssumption DEF SlotTypeOK, Slots
<1>5. CommitsToRegistered
  BY Zenon, <1>2, <1>3 DEF CommitsToRegistered, Active
<1>6. SlotsAccounted
  BY TreeAssumption DEF SlotsAccounted, Slots
<1> QED
  BY <1>1, <1>3, <1>4, <1>5, <1>6 DEF ActiveInv, SlotInv

--------------------------------------------------------------------------------
\* Activations in one transaction get different slots, all of them empty.
LEMMA SlotForFacts ==
  ASSUME SlotInv
  PROVE  /\ \A i \in Nat \ {0} : SlotFor(i) \in Nat
         /\ \A i, j \in Nat \ {0} : SlotFor(i) = SlotFor(j) => i = j
         /\ \A i \in Nat \ {0} : SlotFor(i) \in Slots => leaves[SlotFor(i)] = 0
         /\ \A i \in Nat \ {0} : i <= Len(freeSlots) => SlotFor(i) < nextSlot
<1> USE DEF SlotInv
<1> DEFINE F == Len(freeSlots)
<1>1. /\ F \in Nat /\ nextSlot \in Nat /\ TreeSize \in Nat
      /\ DOMAIN freeSlots = 1..F
      /\ \A i \in 1..F : freeSlots[i] \in Slots /\ freeSlots[i] \in Nat
  BY TreeAssumption DEF SlotTypeOK, Slots
<1>2. \A i \in 1..F : freeSlots[i] < nextSlot /\ leaves[freeSlots[i]] = 0
  BY Zenon, <1>1 DEF SlotsAccounted
<1>3. \A i, j \in 1..F : freeSlots[i] = freeSlots[j] => i = j
  BY Zenon, <1>1 DEF SlotsAccounted
<1>4. \A s \in Slots : s >= nextSlot => leaves[s] = 0
  BY <1>1 DEF SlotsAccounted, Slots
<1>5. \A i \in Nat \ {0} : i <= F => SlotFor(i) = freeSlots[F + 1 - i]
                                     /\ F + 1 - i \in 1..F
  BY <1>1 DEF SlotFor
<1>6. \A i \in Nat \ {0} : i > F => SlotFor(i) = nextSlot + (i - F - 1)
  BY <1>1 DEF SlotFor
<1> HIDE DEF F
<1>7. \A i \in Nat \ {0} : i <= F => SlotFor(i) \in Nat /\ SlotFor(i) < nextSlot
                                     /\ leaves[SlotFor(i)] = 0
  BY Zenon, <1>1, <1>2, <1>5
<1>8. \A i \in Nat \ {0} : i > F => SlotFor(i) \in Nat /\ SlotFor(i) >= nextSlot
  BY <1>1, <1>6
<1>9. ASSUME NEW i \in Nat \ {0}, NEW j \in Nat \ {0}, SlotFor(i) = SlotFor(j)
      PROVE  i = j
  <2>1. CASE i <= F /\ j <= F
    BY <1>1, <1>3, <1>5, <1>9, <2>1
  <2>2. CASE i > F /\ j > F
    BY <1>1, <1>6, <1>9, <2>2
  <2> QED
    BY <1>1, <1>7, <1>8, <1>9, <2>1, <2>2
<1>10. ASSUME NEW i \in Nat \ {0}, SlotFor(i) \in Slots
       PROVE  leaves[SlotFor(i)] = 0
  BY <1>1, <1>4, <1>7, <1>8, <1>10
<1> QED
  BY <1>1, <1>7, <1>8, <1>9, <1>10 DEF F

\* The hook on a batch of new nodes: they take empty slots, one each.
LEMMA OnNodesActivatedInv ==
  ASSUME SlotInv, RegistryTypeOK, NEW ids \in Seq(NodeIds),
         \A i \in DOMAIN ids : ids[i] \notin isRegistered,
         \A i, j \in DOMAIN ids : ids[i] = ids[j] => i = j,
         isRegistered' = isRegistered \cup Range(ids),
         OnNodesActivated(ids)
  PROVE  SlotInv'
<1> DEFINE m == Len(ids)
           F == Len(freeSlots)
           IdAt(s) == ids[CHOOSE i \in 1..m : SlotFor(i) = s]
           PosOf(n) == CHOOSE i \in 1..m : ids[i] = n
<1>1. /\ m \in Nat /\ F \in Nat /\ nextSlot \in Nat /\ TreeSize \in Nat
      /\ activeCount \in Nat /\ nextSlot = activeCount + F
      /\ DOMAIN ids = 1..m /\ DOMAIN freeSlots = 1..F
      /\ \A i \in 1..F : freeSlots[i] \in Slots
  BY TreeAssumption DEF SlotInv, SlotTypeOK, Slots
<1>2. isRegistered = Active
  BY ZenonT(30) DEF SlotInv, CommitsToRegistered
<1>3. \A i \in 1..m : ids[i] \in NodeIds /\ slotPlusOne[ids[i]] = 0
  BY <1>1, <1>2 DEF Active
<1>4. Fresh(ids) = ids
  BY ZenonT(30), <1>1, <1>3 DEF Fresh
<1>5. /\ nextSlot' = IF m > F THEN nextSlot + (m - F) ELSE nextSlot
      /\ nextSlot' <= TreeSize
      /\ freeSlots' = IF m > F THEN <<>> ELSE SubSeq(freeSlots, 1, F - m)
      /\ slotPlusOne' = [n \in NodeIds |->
                           IF \E i \in 1..m : ids[i] = n
                           THEN SlotFor(PosOf(n)) + 1
                           ELSE slotPlusOne[n]]
      /\ activeCount' = activeCount + m
      /\ leaves' = [s \in Slots |->
                      IF \E i \in 1..m : SlotFor(i) = s THEN IdAt(s) ELSE leaves[s]]
  BY Zenon, <1>4 DEF OnNodesActivated
<1>6. /\ \A i \in 1..m : SlotFor(i) \in Nat
      /\ \A i, j \in 1..m : SlotFor(i) = SlotFor(j) => i = j
      /\ \A i \in 1..m : SlotFor(i) \in Slots => leaves[SlotFor(i)] = 0
      /\ \A i \in 1..m : i <= F => SlotFor(i) < nextSlot
  BY <1>1, SlotForFacts
<1>7. \A i \in 1..m : SlotFor(i) \in Slots /\ SlotFor(i) < nextSlot'
  <2> SUFFICES ASSUME NEW i \in 1..m
               PROVE  SlotFor(i) \in Slots /\ SlotFor(i) < nextSlot'
    BY ZenonT(30)
  <2>1. CASE i <= F
    BY SMTT(30), <1>1, <1>5, <1>6, <2>1 DEF Slots
  <2>2. CASE i > F
    <3>1. SlotFor(i) = nextSlot + (i - F - 1)
      BY <1>1, <2>2 DEF SlotFor
    <3> QED
      BY SMTT(30), <1>1, <1>5, <2>2, <3>1 DEF Slots
  <2> QED
    BY <1>1, <2>1, <2>2
<1>8. \A i \in 1..m : PosOf(ids[i]) = i /\ IdAt(SlotFor(i)) = ids[i]
  BY ZenonT(30), <1>1, <1>6
<1> HIDE DEF m, F, IdAt, PosOf
<1>9. /\ \A i \in 1..m : slotPlusOne'[ids[i]] = SlotFor(i) + 1
                         /\ leaves'[SlotFor(i)] = ids[i]
      /\ \A n \in NodeIds : (\A i \in 1..m : ids[i] # n) =>
                               slotPlusOne'[n] = slotPlusOne[n]
      /\ \A s \in Slots : (\A i \in 1..m : SlotFor(i) # s) => leaves'[s] = leaves[s]
  BY Zenon, <1>3, <1>5, <1>7, <1>8
<1>10. SlotTypeOK'
  <2>1. nextSlot' \in 0..TreeSize /\ activeCount' \in Nat
    BY <1>1, <1>5
  <2>2. freeSlots' \in Seq(Slots)
    BY <1>1, <1>5 DEF SlotInv, SlotTypeOK, F
  <2>3. slotPlusOne' \in [NodeIds -> 0..TreeSize]
    <3>1. ASSUME NEW n \in NodeIds
          PROVE  slotPlusOne'[n] \in 0..TreeSize
      <4>1. slotPlusOne[n] \in 0..TreeSize
        BY Zenon DEF SlotInv, SlotTypeOK
      <4>2. \A i \in 1..m : SlotFor(i) + 1 \in 0..TreeSize
        BY <1>1, <1>7 DEF Slots
      <4> QED
        BY <1>9, <4>1, <4>2
    <3> QED
      BY ZenonT(30), <1>5, <3>1
  <2>4. leaves' \in [Slots -> NodeIds \cup {0}]
    <3>1. ASSUME NEW s \in Slots
          PROVE  leaves'[s] \in NodeIds \cup {0}
      <4>1. leaves[s] \in NodeIds \cup {0}
        BY Zenon DEF SlotInv, SlotTypeOK
      <4> QED
        BY <1>3, <1>9, <4>1
    <3> QED
      BY Zenon, <1>5, <3>1
  <2> QED
    BY ZenonT(30), <2>1, <2>2, <2>3, <2>4 DEF SlotTypeOK
<1>11. /\ \A n \in Range(ids) : \E i \in 1..m : n = ids[i]
       /\ \A i \in 1..m : ids[i] \in Range(ids)
  BY ZenonT(30), <1>1 DEF Range
<1>13. activeCount' = Cardinality(isRegistered') /\ IsFiniteSet(isRegistered')
  <2>1. IsFiniteSet(Range(ids)) /\ Cardinality(Range(ids)) = m
    BY Zenon, RangeCardinality DEF m
  <2>2. isRegistered \cap Range(ids) = {}
    BY <1>1, <1>11
  <2>3. IsFiniteSet(isRegistered) /\ activeCount = Cardinality(isRegistered)
    BY ZenonT(30) DEF SlotInv, CommitsToRegistered
  <2>4. /\ IsFiniteSet(isRegistered')
        /\ Cardinality(isRegistered') =
             Cardinality(isRegistered) + Cardinality(Range(ids))
               - Cardinality(isRegistered \cap Range(ids))
    BY Zenon, <2>1, <2>3, FS_Union
  <2>5. Cardinality(isRegistered \cap Range(ids)) = 0
    BY ZenonT(30), <2>2, FS_EmptySet
  <2> QED
    BY <1>1, <1>5, <2>1, <2>3, <2>4, <2>5
<1>12. CommitsToRegistered'
  <2>1. isRegistered' = Active'
    <3>1. ASSUME NEW n \in NodeIds
          PROVE  n \in isRegistered' <=> slotPlusOne'[n] # 0
      <4>1. CASE n \in Range(ids)
        BY SMTT(30), <1>1, <1>6, <1>9, <1>11, <4>1
      <4>2. CASE n \notin Range(ids)
        BY SMTT(30), <1>2, <1>9, <1>11, <4>2 DEF Active
      <4> QED
        BY ZenonT(30), <4>1, <4>2
    <3>2. isRegistered' \subseteq NodeIds
      BY SMTT(30), <1>3, <1>11 DEF RegistryTypeOK
    <3> QED
      BY Zenon, <3>1, <3>2 DEF Active
  <2>2. ASSUME NEW n \in Active'
        PROVE  leaves'[slotPlusOne'[n] - 1] = n
    <3>1. n \in NodeIds /\ slotPlusOne'[n] # 0
      BY Zenon DEF Active
    <3>2. CASE n \in Range(ids)
      <4>1. PICK i \in 1..m : n = ids[i]
        BY ZenonT(30), <1>11, <3>2
      <4>2. slotPlusOne'[n] - 1 = SlotFor(i)
        BY SMTT(30), <1>6, <1>9, <4>1
      <4> QED
        BY ZenonT(30), <1>9, <4>1, <4>2
    <3>3. CASE n \notin Range(ids)
      <4> DEFINE s == slotPlusOne[n] - 1
      <4>1. slotPlusOne'[n] = slotPlusOne[n] /\ n \in Active
        BY ZenonT(30), <1>9, <1>11, <3>1, <3>3 DEF Active
      <4>2. leaves[s] = n /\ s \in Slots
        BY <1>1, <3>1, <4>1 DEF SlotInv, CommitsToRegistered, SlotTypeOK, Slots
      <4>3. n # 0
        BY Zenon, <3>1, RegistryAssumption
      <4>4. \A i \in 1..m : SlotFor(i) # s
        BY ZenonT(30), <1>6, <4>2, <4>3
      <4> QED
        BY ZenonT(30), <1>9, <4>1, <4>2, <4>4
    <3> QED
      BY Zenon, <3>2, <3>3
  <2>3. ASSUME NEW s \in Slots, leaves'[s] # 0
        PROVE  slotPlusOne'[leaves'[s]] = s + 1
    <3>1. CASE \E i \in 1..m : SlotFor(i) = s
      BY <1>9, <3>1
    <3>2. CASE \A i \in 1..m : SlotFor(i) # s
      <4>1. leaves'[s] = leaves[s] /\ leaves[s] \in NodeIds
        BY ZenonT(30), <1>9, <2>3, <3>2 DEF SlotInv, SlotTypeOK
      <4>2. slotPlusOne[leaves[s]] = s + 1
        BY ZenonT(30), <2>3, <4>1 DEF SlotInv, CommitsToRegistered
      <4>3. \A i \in 1..m : ids[i] # leaves[s]
        BY <1>1, <1>3, <4>2 DEF Slots
      <4> QED
        BY ZenonT(30), <1>9, <4>1, <4>2, <4>3
    <3> QED
      BY ZenonT(30), <3>1, <3>2
  <2> QED
    BY ZenonT(30), <1>13, <2>1, <2>2, <2>3 DEF CommitsToRegistered
<1>14. /\ Len(freeSlots') = IF m > F THEN 0 ELSE F - m
       /\ DOMAIN freeSlots' = 1..Len(freeSlots')
       /\ \A i \in DOMAIN freeSlots' : i \in 1..F /\ i <= F - m
                                       /\ freeSlots'[i] = freeSlots[i]
  BY SMTT(30), <1>1, <1>5 DEF SlotInv, SlotTypeOK, F
<1>17. /\ nextSlot \in Nat /\ F \in Nat /\ m \in Nat
       /\ nextSlot' = IF m > F THEN nextSlot + (m - F) ELSE nextSlot
  BY Zenon, <1>1, <1>5
<1>18. /\ \A s \in Slots : s < nextSlot <=> leaves[s] # 0 \/ \E i \in 1..F : freeSlots[i] = s
       /\ \A i \in 1..F : leaves[freeSlots[i]] = 0
       /\ \A i, j \in 1..F : freeSlots[i] = freeSlots[j] => i = j
  BY ZenonT(30), <1>1 DEF SlotInv, SlotsAccounted
<1>19. \A i \in 1..F : F + 1 - i \in 1..F /\ SlotFor(F + 1 - i) = freeSlots[i]
  <2> SUFFICES ASSUME NEW i \in 1..F PROVE F + 1 - i \in 1..F /\ SlotFor(F + 1 - i) = freeSlots[i]
    BY Zenon
  <2>1. F + 1 - i \in 1..F /\ F + 1 - (F + 1 - i) = i
    BY <1>17
  <2> QED
    BY <2>1 DEF SlotFor, F
<1>15. SlotsAccounted'
  <2>1. \A i \in DOMAIN freeSlots' : \A j \in 1..m : SlotFor(j) # freeSlots'[i]
    <3> SUFFICES ASSUME NEW i \in DOMAIN freeSlots', NEW j \in 1..m,
                        SlotFor(j) = freeSlots'[i]
                 PROVE  FALSE
      BY ZenonT(30)
    <3>1. i \in 1..F /\ i <= F - m /\ freeSlots'[i] = freeSlots[i]
      BY ZenonT(30), <1>14
    <3>2. F + 1 - i \in Nat \ {0} /\ SlotFor(F + 1 - i) = freeSlots[i]
      BY <1>19, <3>1
    <3>3. F + 1 - i = j
      BY SMTT(30), <3>1, <3>2, SlotForFacts
    <3> QED
      BY <1>17, <3>1, <3>3
  <2>2. ASSUME NEW s \in Slots, s < nextSlot'
        PROVE  leaves'[s] # 0 \/ \E i \in DOMAIN freeSlots' : freeSlots'[i] = s
    <3>1. CASE \E i \in 1..m : SlotFor(i) = s
      BY ZenonT(30), <1>3, <1>9, <3>1, RegistryAssumption
    <3>2. CASE \A i \in 1..m : SlotFor(i) # s
      <4>1. leaves'[s] = leaves[s]
        BY ZenonT(30), <1>9, <3>2
      <4>2. CASE s < nextSlot
        <5> SUFFICES ASSUME NEW j \in 1..F, freeSlots[j] = s
                     PROVE  \E i \in DOMAIN freeSlots' : freeSlots'[i] = s
          BY Zenon, <1>18, <4>1, <4>2
        <5>1. F + 1 - j \in 1..F /\ SlotFor(F + 1 - j) = s
          BY Zenon, <1>19
        <5>2. ~(F + 1 - j <= m)
          BY <1>17, <3>2, <5>1
        <5>3. j \in DOMAIN freeSlots'
          BY <1>14, <1>17, <5>2
        <5> QED
          BY ZenonT(30), <1>14, <5>3
      <4>3. CASE s >= nextSlot
        <5> DEFINE i == s - nextSlot + F + 1
        <5>1. s \in Nat
          BY DEF Slots
        <5>2. i \in 1..m /\ i > F
          BY <1>17, <2>2, <4>3, <5>1
        <5>3. SlotFor(i) = s
          BY <1>17, <5>1, <5>2 DEF SlotFor, F
        <5> HIDE DEF i
        <5> QED
          BY Zenon, <3>2, <5>2, <5>3
      <4>4. s < nextSlot \/ s >= nextSlot
        BY <1>17 DEF Slots
      <4> QED
        BY ZenonT(30), <4>2, <4>3, <4>4
    <3> QED
      BY ZenonT(30), <3>1, <3>2
  <2>3. nextSlot <= nextSlot' /\ nextSlot' \in Nat
    BY <1>17
  <2>4. ASSUME NEW s \in Slots,
               leaves'[s] # 0 \/ \E i \in DOMAIN freeSlots' : freeSlots'[i] = s
        PROVE  s < nextSlot'
    <3>1. CASE \E i \in 1..m : SlotFor(i) = s
      BY Zenon, <1>7, <3>1
    <3>2. CASE \A i \in 1..m : SlotFor(i) # s
      <4>1. s < nextSlot
        BY SMTT(30), <1>9, <1>14, <1>18, <2>4, <3>2
      <4> QED
        BY <1>17, <2>3, <4>1 DEF Slots
    <3> QED
      BY Zenon, <3>1, <3>2
  <2>5. \A i \in DOMAIN freeSlots' : leaves'[freeSlots'[i]] = 0
    BY <1>1, <1>9, <1>14, <1>18, <2>1
  <2>6. \A i, j \in DOMAIN freeSlots' : freeSlots'[i] = freeSlots'[j] => i = j
    BY ZenonT(30), <1>14, <1>18
  <2> QED
    BY ZenonT(30), <2>2, <2>4, <2>5, <2>6 DEF SlotsAccounted
<1>16. nextSlot' = activeCount' + Len(freeSlots')
  <2>1. activeCount' = activeCount + m /\ activeCount \in Nat /\ nextSlot = activeCount + F
    BY Zenon, <1>1, <1>5
  <2>2. Len(freeSlots') = IF m > F THEN 0 ELSE F - m
    BY Zenon, <1>14
  <2> QED
    BY <1>17, <2>1, <2>2
<1> QED
  BY ZenonT(30), <1>10, <1>12, <1>13, <1>15, <1>16 DEF SlotInv

\* The hook on a node that leaves: its leaf is emptied and its slot freed.
LEMMA OnNodeDeactivatedInv ==
  ASSUME SlotInv, RegistryTypeOK, NEW n \in isRegistered,
         isRegistered' = isRegistered \ {n},
         OnNodeDeactivated(n)
  PROVE  SlotInv'
<1> DEFINE slot == slotPlusOne[n] - 1
           F == Len(freeSlots)
<1>1. /\ F \in Nat /\ nextSlot \in Nat /\ TreeSize \in Nat
      /\ activeCount \in Nat /\ nextSlot = activeCount + F
      /\ DOMAIN freeSlots = 1..F
      /\ \A i \in 1..F : freeSlots[i] \in Slots
  BY TreeAssumption DEF SlotInv, SlotTypeOK, Slots
<1>2. n \in NodeIds /\ n # 0 /\ slotPlusOne[n] # 0 /\ isRegistered = Active
  BY ZenonT(30), RegistryAssumption DEF SlotInv, CommitsToRegistered, Active
<1>3. slot \in Slots /\ slotPlusOne[n] = slot + 1 /\ leaves[slot] = n
  BY <1>1, <1>2 DEF SlotInv, SlotTypeOK, CommitsToRegistered, Slots
<1>4. /\ slotPlusOne' = [slotPlusOne EXCEPT ![n] = 0]
      /\ freeSlots' = Append(freeSlots, slot)
      /\ activeCount' = activeCount - 1
      /\ leaves' = [leaves EXCEPT ![slot] = 0]
      /\ nextSlot' = nextSlot
  BY Zenon, <1>2 DEF OnNodeDeactivated
<1> HIDE DEF slot, F
<1>5. /\ slotPlusOne'[n] = 0 /\ leaves'[slot] = 0
      /\ \A x \in NodeIds : x # n => slotPlusOne'[x] = slotPlusOne[x]
      /\ \A s \in Slots : s # slot => leaves'[s] = leaves[s]
  BY Zenon, <1>2, <1>3, <1>4 DEF SlotInv, SlotTypeOK
<1>6. /\ IsFiniteSet(isRegistered) /\ activeCount = Cardinality(isRegistered)
      /\ IsFiniteSet(isRegistered')
      /\ Cardinality(isRegistered') = activeCount - 1
      /\ Cardinality(isRegistered') \in Nat
  <2>1. IsFiniteSet(isRegistered) /\ activeCount = Cardinality(isRegistered)
    BY Zenon DEF SlotInv, CommitsToRegistered
  <2>2. IsFiniteSet(isRegistered') /\ Cardinality(isRegistered') = activeCount - 1
    BY Zenon, <2>1, FS_RemoveElement
  <2> QED
    BY Zenon, <2>1, <2>2, FS_CardinalityType
<1>7. SlotTypeOK'
  <2>1. freeSlots' \in Seq(Slots)
    BY <1>3, <1>4 DEF SlotInv, SlotTypeOK
  <2>2. activeCount' \in Nat
    BY Zenon, <1>4, <1>6
  <2>3. slotPlusOne' \in [NodeIds -> 0..TreeSize]
    <3>1. slotPlusOne \in [NodeIds -> 0..TreeSize] /\ 0 \in 0..TreeSize
      BY <1>1 DEF SlotInv, SlotTypeOK
    <3> QED
      BY ZenonT(30), <1>4, <3>1
  <2>4. leaves' \in [Slots -> NodeIds \cup {0}]
    BY ZenonT(30), <1>4 DEF SlotInv, SlotTypeOK
  <2> QED
    BY ZenonT(30), <1>4, <2>1, <2>2, <2>3, <2>4 DEF SlotInv, SlotTypeOK
<1>8. CommitsToRegistered'
  <2>1. isRegistered' = Active'
    BY Zenon, <1>2, <1>5 DEF Active
  <2>2. ASSUME NEW x \in Active'
        PROVE  leaves'[slotPlusOne'[x] - 1] = x
    <3>1. x \in NodeIds /\ x # n /\ slotPlusOne'[x] = slotPlusOne[x] /\ x \in Active
      BY ZenonT(30), <1>5 DEF Active
    <3>2. leaves[slotPlusOne[x] - 1] = x /\ slotPlusOne[x] - 1 \in Slots
      BY <1>1, <3>1 DEF SlotInv, SlotTypeOK, CommitsToRegistered, Active, Slots
    <3> QED
      BY ZenonT(30), <1>3, <1>5, <3>1, <3>2
  <2>3. ASSUME NEW s \in Slots, leaves'[s] # 0
        PROVE  slotPlusOne'[leaves'[s]] = s + 1
    <3>1. s # slot /\ leaves'[s] = leaves[s] /\ leaves[s] \in NodeIds
      BY Zenon, <1>5, <2>3 DEF SlotInv, SlotTypeOK
    <3>2. slotPlusOne[leaves[s]] = s + 1
      BY Zenon, <2>3, <3>1 DEF SlotInv, CommitsToRegistered
    <3>3. leaves[s] # n
      BY <1>3, <3>1, <3>2 DEF Slots
    <3> QED
      BY Zenon, <1>5, <3>1, <3>2, <3>3
  <2> QED
    BY ZenonT(30), <1>4, <1>6, <2>1, <2>2, <2>3 DEF CommitsToRegistered
<1>9. /\ Len(freeSlots') = F + 1 /\ DOMAIN freeSlots' = 1..(F + 1)
      /\ \A i \in 1..F : freeSlots'[i] = freeSlots[i]
      /\ freeSlots'[F + 1] = slot
  BY <1>3, <1>4 DEF SlotInv, SlotTypeOK, F
<1>10. SlotsAccounted'
  <2> USE DEF SlotInv, SlotsAccounted
  <2>1. \A i \in 1..F : freeSlots[i] # slot
    BY Zenon, <1>1, <1>2, <1>3
  <2>2. slot < nextSlot
    BY Zenon, <1>2, <1>3
  <2>3. ASSUME NEW s \in Slots
        PROVE  s < nextSlot' <=> \/ leaves'[s] # 0
                                 \/ \E i \in DOMAIN freeSlots' : freeSlots'[i] = s
    <3>1. CASE s = slot
      <4>1. \E i \in DOMAIN freeSlots' : freeSlots'[i] = s
        <5>1. F + 1 \in 1..(F + 1)
          BY <1>1
        <5> QED
          BY ZenonT(30), <1>9, <3>1, <5>1
      <4>2. s < nextSlot'
        BY ZenonT(30), <1>4, <2>2, <3>1
      <4> QED
        BY ZenonT(30), <4>1, <4>2
    <3>2. CASE s # slot
      <4>1. (\E i \in DOMAIN freeSlots' : freeSlots'[i] = s)
              <=> (\E i \in DOMAIN freeSlots : freeSlots[i] = s)
        BY SMTT(30), <1>1, <1>9, <3>2
      <4> QED
        BY ZenonT(30), <1>4, <1>5, <3>2, <4>1
    <3> QED
      BY Zenon, <3>1, <3>2
  <2>4. \A i \in DOMAIN freeSlots' : leaves'[freeSlots'[i]] = 0
    BY <1>1, <1>5, <1>9, <2>1
  <2>5. \A i, j \in DOMAIN freeSlots' : freeSlots'[i] = freeSlots'[j] => i = j
    BY SMTT(30), <1>1, <1>9, <2>1
  <2> QED
    BY ZenonT(30), <2>3, <2>4, <2>5
<1>11. nextSlot' = activeCount' + Len(freeSlots')
  BY <1>1, <1>4, <1>9
<1> QED
  BY ZenonT(30), <1>6, <1>7, <1>8, <1>10, <1>11 DEF SlotInv

\* Neither the set nor the allocator changes.
LEMMA SlotsUnchangedInv ==
  ASSUME SlotInv, UNCHANGED <<isRegistered, slotVars>>
  PROVE  SlotInv'
BY Zenon DEF SlotInv, SlotTypeOK, CommitsToRegistered, SlotsAccounted, Active, slotVars

--------------------------------------------------------------------------------
\* A registration of one node takes one slot.
LEMMA JoinOneInv ==
  ASSUME SlotInv, RegistryTypeOK, NEW n \in NodeIds, n \notin isRegistered,
         isRegistered' = isRegistered \cup {n}, OnNodesActivated(<<n>>)
  PROVE  SlotInv'
<1> DEFINE ids == <<n>>
<1>1. ids \in Seq(NodeIds) /\ DOMAIN ids = {1} /\ ids[1] = n /\ Range(ids) = {n}
  BY DEF Range
<1> HIDE DEF ids
<1>2. /\ \A i \in DOMAIN ids : ids[i] \notin isRegistered
      /\ \A i, j \in DOMAIN ids : ids[i] = ids[j] => i = j
  BY Zenon, <1>1
<1>3. OnNodesActivated(ids)
  BY Zenon DEF ids
<1> QED
  BY Zenon, <1>1, <1>2, <1>3, OnNodesActivatedInv

\* Every transaction that registers or retires nodes, with the hook it calls.
LEMMA MembershipStepInv ==
  ASSUME ActiveInv, MembershipNext
  PROVE  ActiveInv'
<1> USE DEF ActiveInv
<1>1. RegistryTypeOK
  BY Zenon DEF RegistryInv
<1>2. ASSUME NEW a \in Addrs, NEW n \in NodeIds, NEW k \in Keys, JoinBootstrap(a, n, k)
      PROVE  ActiveInv'
  <2>1. RegistryInv'
    BY Zenon, <1>2, RegisterPublicKeyInv DEF JoinBootstrap
  <2>2. SlotInv'
    BY Zenon, <1>1, <1>2, JoinOneInv DEF JoinBootstrap, RegisterPublicKey
  <2> QED
    BY Zenon, <2>1, <2>2
<1>3. ASSUME NEW a \in Addrs, NEW ids \in Batches(NodeIds), NEW pks \in Batches(Keys),
             JoinBatch(a, ids, pks)
      PROVE  ActiveInv'
  <2>1. ids \in Seq(NodeIds) /\ pks \in Seq(Keys)
    BY RegistryAssumption DEF Batches
  <2>2. RegistryInv'
    BY ZenonT(30), <1>3, <2>1, BatchRegisterInv DEF JoinBatch
  <2>3. /\ \A i \in DOMAIN ids : ids[i] \notin isRegistered
        /\ isRegistered' = isRegistered \cup Range(ids)
        /\ OnNodesActivated(ids)
    BY ZenonT(30), <1>3 DEF JoinBatch, BatchRegister
  <2>4. \A i, j \in DOMAIN ids : ids[i] = ids[j] => i = j
    <3> SUFFICES ASSUME NEW i \in DOMAIN ids, NEW j \in DOMAIN ids, j < i
                 PROVE  ids[i] # ids[j]
      BY <2>1
    <3>1. j \in 1..(i - 1)
      BY <2>1
    <3> QED
      BY Zenon, <1>3, <3>1 DEF JoinBatch, BatchRegister
  <2>5. SlotInv'
    BY Zenon, <1>1, <2>1, <2>3, <2>4, OnNodesActivatedInv
  <2> QED
    BY Zenon, <2>2, <2>5
<1>4. ASSUME NEW a \in Addrs, NEW k \in Keys, JoinStaked(a, k)
      PROVE  ActiveInv'
  <2>1. RegistryInv'
    BY ZenonT(30), <1>4, RegisterWithProofInv DEF JoinStaked
  <2>2. /\ NodeIdOf[k] \in NodeIds /\ NodeIdOf[k] \notin isRegistered
        /\ isRegistered' = isRegistered \cup {NodeIdOf[k]}
        /\ OnNodesActivated(<<NodeIdOf[k]>>)
    BY Zenon, <1>4, RegistryAssumption DEF JoinStaked, RegisterWithProof
  <2>3. SlotInv'
    BY Zenon, <1>1, <2>2, JoinOneInv
  <2> QED
    BY Zenon, <2>1, <2>3
<1>5. ASSUME NEW n \in NodeIds, LeaveStale(n)
      PROVE  ActiveInv'
  <2>1. RegistryInv'
    BY Zenon, <1>5, SyncNodeInv DEF LeaveStale
  <2>2. SlotInv'
    BY ZenonT(30), <1>1, <1>5, OnNodeDeactivatedInv
       DEF LeaveStale, SyncNode, Deactivate, ClearIdentity
  <2> QED
    BY Zenon, <2>1, <2>2
<1>6. ASSUME NEW a \in Addrs, NEW n \in NodeIds, LeaveRevoked(a, n)
      PROVE  ActiveInv'
  <2>1. RegistryInv'
    BY Zenon, <1>6, RevokePublicKeyInv DEF LeaveRevoked
  <2>2. SlotInv'
    BY Zenon, <1>1, <1>6, OnNodeDeactivatedInv DEF LeaveRevoked, RevokePublicKey, ClearIdentity
  <2> QED
    BY Zenon, <2>1, <2>2
<1> QED
  BY Zenon, <1>2, <1>3, <1>4, <1>5, <1>6 DEF MembershipNext

\* Transactions without a hook on the active set.
LEMMA NoHookStepInv ==
  ASSUME ActiveInv, PolicyNext \/ OtherNext, UNCHANGED slotVars
  PROVE  ActiveInv'
<1> USE DEF ActiveInv
<1>1. ASSUME NEW a \in Addrs, NEW n \in NodeIds, NEW k \in Keys, UpdatePublicKey(a, n, k)
      PROVE  RegistryInv' /\ UNCHANGED isRegistered
  BY ZenonT(30), <1>1, UpdatePublicKeyInv DEF UpdatePublicKey
<1>2. RegistryInv' /\ UNCHANGED isRegistered
  BY Zenon, <1>1, PolicyStepInv DEF PolicyNext, OtherNext, identityVars
<1> QED
  BY Zenon, <1>2, SlotsUnchangedInv

--------------------------------------------------------------------------------
(* Theorems. *)

\* The registry's invariant and the allocator's hold together.
THEOREM ActiveInvariant == ActiveSpec => []ActiveInv
<1>1. ASSUME ActiveInv, [ActiveNext]_activeVars
      PROVE  ActiveInv'
  <2>1. CASE UNCHANGED activeVars
    <3>1. RegistryInv'
      BY Zenon, <1>1, <2>1, NextRegistryInv DEF ActiveInv, activeVars
    <3>2. SlotInv'
      BY Zenon, <1>1, <2>1, SlotsUnchangedInv
         DEF ActiveInv, activeVars, registryVars, identityVars
    <3> QED
      BY Zenon, <3>1, <3>2 DEF ActiveInv
  <2> QED
    BY Zenon, <1>1, <2>1, MembershipStepInv, NoHookStepInv DEF ActiveNext
<1> QED
  BY InitActiveInv, <1>1, PTL DEF ActiveSpec

\* The Merkle leaves and activeCount never drift from isRegistered.
THEOREM CommitsToRegisteredHolds == ActiveSpec => []CommitsToRegistered
<1>1. ActiveInv => CommitsToRegistered
  BY Zenon DEF ActiveInv, SlotInv
<1> QED
  BY ActiveInvariant, <1>1, PTL

\* No slot is lost or handed out twice.
THEOREM SlotsAccountedHolds == ActiveSpec => []SlotsAccounted
<1>1. ActiveInv => SlotsAccounted
  BY ZenonT(30) DEF ActiveInv, SlotInv
<1> QED
  BY ActiveInvariant, <1>1, PTL

\* Registration is refused for lack of room only when every leaf is taken.
THEOREM CapacityIsConcurrentHolds == ActiveSpec => []CapacityIsConcurrent
<1>1. ActiveInv => CapacityIsConcurrent
  <2> SUFFICES ASSUME ActiveInv, nextSlot = TreeSize, freeSlots = <<>>
               PROVE  Cardinality(isRegistered) = TreeSize
    BY Zenon DEF CapacityIsConcurrent
  <2>1. Len(freeSlots) = 0
    BY Zenon
  <2> QED
    BY <2>1 DEF ActiveInv, SlotInv, SlotTypeOK, CommitsToRegistered
<1> QED
  BY ActiveInvariant, <1>1, PTL

\* Strictly increasing, made of slot holders and as long as activeCount: such
\* a list is the registered set.
LEMMA AcceptedListIsActive ==
  ASSUME SlotInv, NEW list \in Seq(NodeIds), ListAccepted(list)
  PROVE  Range(list) = isRegistered
<1>1. list \in Seq(Nat)
  <2>1. NodeIds \subseteq Nat
    BY Zenon, RegistryAssumption
  <2>2. /\ Len(list) \in Nat
        /\ list \in [1..Len(list) -> NodeIds]
    OBVIOUS
  <2>3. list \in [1..Len(list) -> Nat]
    BY ZenonT(30), <2>1, <2>2
  <2> QED
    BY <2>2, <2>3
<1>2. \A i, j \in DOMAIN list : i < j => list[i] < list[j]
  BY ZenonT(30), <1>1, AdjacentIncreasing DEF ListAccepted
<1>3. \A i, j \in DOMAIN list : list[i] = list[j] => i = j
  BY <1>1, <1>2
<1>4. IsFiniteSet(Range(list)) /\ Cardinality(Range(list)) = Len(list)
  BY ZenonT(30), <1>3, RangeCardinality
<1>5. Range(list) \subseteq isRegistered
  BY Zenon DEF ListAccepted, Range, SlotInv, CommitsToRegistered
<1>6. Cardinality(isRegistered) = Cardinality(Range(list))
  BY Zenon, <1>4 DEF ListAccepted, SlotInv, CommitsToRegistered
<1> QED
  BY Zenon, <1>5, <1>6, FS_Subset DEF SlotInv

\* snapshotEpoch's checks make the caller's list complete.
THEOREM AcceptedListCompleteHolds == ActiveSpec => []AcceptedListComplete
<1>1. ActiveInv => AcceptedListComplete
  <2> SUFFICES ASSUME ActiveInv, NEW list \in Lists, ListAccepted(list)
               PROVE  Range(list) = isRegistered
    BY Zenon DEF AcceptedListComplete
  <2>1. list \in Seq(NodeIds)
    BY RegistryAssumption DEF Lists
  <2> QED
    BY Zenon, <2>1, AcceptedListIsActive DEF ActiveInv
<1> QED
  BY ActiveInvariant, <1>1, PTL

\* An increasing enumeration of a set of numbers (what _sortBytes32 produces).
Ordered(k, S) == {s \in [1..k -> S] : \A i \in 1..k : i > 1 => s[i - 1] < s[i]}

\* Every finite set of natural numbers has an increasing enumeration: the least
\* element, then an enumeration of the others.
LEMMA OrderedExists ==
  ASSUME NEW S \in SUBSET Nat, IsFiniteSet(S)
  PROVE  Ordered(Cardinality(S), S) # {}
<1> DEFINE Sized(k) == {T \in SUBSET Nat : IsFiniteSet(T) /\ Cardinality(T) = k}
           Bad == {k \in Nat : \E T \in Sized(k) : Ordered(k, T) = {}}
<1>1. Cardinality(S) \in Nat
  BY Zenon, FS_CardinalityType
<1> SUFFICES Bad = {}
  BY Zenon, <1>1
<1> SUFFICES ASSUME Bad # {} PROVE FALSE
  BY Zenon
<1>2. PICK k \in Bad : \A j \in Bad : k <= j
  <2>1. Bad \in SUBSET Nat
    BY Zenon
  <2> HIDE DEF Bad
  <2> QED
    BY Zenon, <2>1, LeastNatural
<1>3. PICK T \in SUBSET Nat : IsFiniteSet(T) /\ Cardinality(T) = k /\ Ordered(k, T) = {}
  BY Zenon, <1>2
<1>4. CASE k = 0
  <2>1. [i \in 1..k |-> 0] \in Ordered(k, T)
    BY <1>4 DEF Ordered
  <2> QED
    BY ZenonT(30), <1>3, <2>1
<1>5. CASE k # 0
  <2>1. T # {}
    BY Zenon, <1>3, <1>5, FS_EmptySet
  <2>2. PICK m \in T : \A y \in T : m <= y
    BY ZenonT(30), <2>1, LeastNatural
  <2> DEFINE U == T \ {m}
  <2>3. IsFiniteSet(U) /\ Cardinality(U) = k - 1
    BY Zenon, <1>3, FS_RemoveElement
  <2>4. k \in Nat /\ k - 1 \in Nat /\ k - 1 \notin Bad
    <3>1. k \in Nat /\ k - 1 \in Nat /\ ~(k <= k - 1)
      BY <1>2, <1>5
    <3> HIDE DEF Bad
    <3> QED
      BY Zenon, <1>2, <3>1
  <2>5. U \in SUBSET Nat
    BY Zenon
  <2>6. Ordered(k - 1, U) # {}
    BY ZenonT(30), <2>3, <2>4, <2>5
  <2>7. PICK s \in [1..(k - 1) -> U] : \A i \in 1..(k - 1) : i > 1 => s[i - 1] < s[i]
    BY Zenon, <2>6 DEF Ordered
  <2> HIDE DEF Bad
  <2> DEFINE t == [i \in 1..k |-> IF i = 1 THEN m ELSE s[i - 1]]
  <2>8. \A i \in 1..k : i # 1 => i - 1 \in 1..(k - 1) /\ s[i - 1] \in T /\ m < s[i - 1]
    <3> TAKE i \in 1..k
    <3> HAVE i # 1
    <3>1. i - 1 \in 1..(k - 1)
      BY <2>4
    <3>2. s[i - 1] \in T /\ s[i - 1] # m
      BY Zenon, <2>7, <3>1
    <3>3. m \in Nat /\ s[i - 1] \in Nat /\ m <= s[i - 1]
      BY ZenonT(30), <2>2, <3>2
    <3> QED
      BY <3>1, <3>2, <3>3
  <2>9. t \in [1..k -> T]
    BY ZenonT(30), <2>8
  <2>10. ASSUME NEW i \in 1..k, i > 1
         PROVE  t[i - 1] < t[i]
    <3>1. i - 1 \in 1..k /\ t[i] = s[i - 1]
      BY <2>4, <2>10
    <3>2. CASE i = 2
      BY <2>8, <2>10, <3>1, <3>2
    <3>3. CASE i # 2
      <4>1. i - 1 \in 1..(k - 1) /\ i - 1 > 1 /\ t[i - 1] = s[(i - 1) - 1]
        BY <2>4, <2>10, <3>1, <3>3
      <4> QED
        BY ZenonT(30), <2>7, <3>1, <4>1
    <3> QED
      BY Zenon, <3>2, <3>3
  <2>11. t \in Ordered(k, T)
    BY Zenon, <2>9, <2>10 DEF Ordered
  <2> QED
    BY Zenon, <1>3, <2>11
<1> QED
  BY Zenon, <1>4, <1>5

\* The scan of the enumeration finds every active node, since the enumeration
\* lists each of them and no prefix shows more than activeCount of them.
LEMMA ScanFindsAll ==
  ASSUME ActiveInv
  PROVE  LET SeenBy(i) == Active \cap {registeredNodes[j] : j \in 1..i} IN
         UNION {SeenBy(i) : i \in {j \in DOMAIN registeredNodes :
                                    Cardinality(SeenBy(j)) <= activeCount}} = Active
<1> DEFINE SeenBy(i) == Active \cap {registeredNodes[j] : j \in 1..i}
<1>1. /\ isRegistered = Active /\ activeCount = Cardinality(Active)
      /\ IsFiniteSet(Active) /\ registeredNodes \in Seq(NodeIds)
      /\ Active \subseteq Range(registeredNodes)
  BY Zenon DEF ActiveInv, RegistryInv, SlotInv, CommitsToRegistered, Enumerated, RegistryTypeOK
<1>2. \A i : SeenBy(i) \in SUBSET Active
  BY Zenon
<1>3. \A i : Cardinality(SeenBy(i)) <= activeCount
  <2> TAKE i
  <2> HIDE DEF SeenBy
  <2> QED
    BY Zenon, <1>1, <1>2, FS_Subset
<1>4. \A n \in Active : \E j \in DOMAIN registeredNodes : n \in SeenBy(j)
  <2> TAKE n \in Active
  <2>1. PICK j \in DOMAIN registeredNodes : registeredNodes[j] = n
    BY Zenon, <1>1 DEF Range
  <2>2. j \in 1..j
    BY <1>1
  <2> QED
    BY Zenon, <2>1, <2>2
<1> HIDE DEF SeenBy
<1>5. UNION {SeenBy(i) : i \in {j \in DOMAIN registeredNodes :
                                Cardinality(SeenBy(j)) <= activeCount}} = Active
  BY Zenon, <1>2, <1>3, <1>4
<1> QED
  BY ZenonT(30), <1>5 DEF SeenBy

\* The list a keeper reads from activeNodeIdsSorted is one snapshotEpoch takes.
THEOREM KeeperListAcceptedHolds == ActiveSpec => []KeeperListAccepted
<1>1. ASSUME ActiveInv PROVE KeeperListAccepted
  <2> DEFINE k == Cardinality(Active)
             sorted == CHOOSE s \in [1..k -> Active] : \A i \in 1..k : i > 1 => s[i - 1] < s[i]
  <2>1. activeCount = k /\ k \in Nat /\ IsFiniteSet(Active) /\ Active \in SUBSET Nat
    BY ZenonT(30), <1>1, FS_CardinalityType, RegistryAssumption
    DEF ActiveInv, SlotInv, CommitsToRegistered, Active
  <2>2. activeNodeIdsSorted = sorted \o [i \in 1..(activeCount - k) |-> 0]
    BY ZenonT(30), <1>1, ScanFindsAll DEF activeNodeIdsSorted
  <2> HIDE DEF k
  <2>3. \E s \in [1..k -> Active] : \A i \in 1..k : i > 1 => s[i - 1] < s[i]
    BY Zenon, <2>1, OrderedExists DEF Ordered, k
  <2>4. sorted \in [1..k -> Active] /\ \A i \in 1..k : i > 1 => sorted[i - 1] < sorted[i]
    BY ZenonT(30), <2>3
  <2> HIDE DEF sorted
  <2>5. sorted \in Seq(Active) /\ Len(sorted) = k /\ DOMAIN sorted = 1..k
    BY <2>1, <2>4
  <2>6. [i \in 1..(activeCount - k) |-> 0] = <<>>
    BY <2>1
  <2>7. activeNodeIdsSorted = sorted
    <3>1. sorted \o <<>> = sorted
      BY <2>5
    <3> QED
      BY ZenonT(30), <2>2, <2>6, <3>1
  <2> QED
    BY ZenonT(30), <2>1, <2>4, <2>5, <2>7 DEF KeeperListAccepted, ListAccepted
<1> QED
  BY ActiveInvariant, <1>1, PTL

\* The commitment to the active set is exact (its leaves, its slots, its capacity
\* and the list a keeper reads).
THEOREM CommitmentExactHolds == ActiveSpec => []CommitmentExact
BY CommitsToRegisteredHolds, SlotsAccountedHolds, CapacityIsConcurrentHolds,
   KeeperListAcceptedHolds, PTL DEF CommitmentExact
================================================================================
