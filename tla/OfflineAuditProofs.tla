--------------------------- MODULE OfflineAuditProofs ---------------------------
(***************************************************************************)
(* Proofs about OfflineAudit, for any number of operators and nodes, any   *)
(* threshold, skew, ledger cap and finality lag, and any clock errors; and *)
(* about SlashDrive, the slash that an audit drives.                       *)
(***************************************************************************)
EXTENDS OfflineAudit, SlashDrive, FiniteSetTheorems, TLAPS

\* How much earlier than it was sent a heartbeat may seem to have been seen
Shift(n) == Lesser(ClockOf[n], offset)

\* A verification in flight holds a heartbeat of the past that was not
\* future-dated, and a time of receipt
VerifyingInv ==
  \A v \in verifying :
    /\ v.beat.at <= now
    /\ v.seen <= authTs(v.beat)
    /\ v.seen >= v.beat.at + Shift(v.beat.node)

\* The ledger: at most what was signed, at least what was sent, shifted; and no
\* later heartbeat of a close clock was handled
EntryInv(n) ==
  /\ lastSeenLedger[n].seen <= lastSeenLedger[n].authTs
  /\ lastSeenLedger[n].seen >= lastSeenLedger[n].authTs - ClockOf[n] + Shift(n)
  /\ ClockClose(n) => heard[n] <= lastSeenLedger[n].authTs - ClockOf[n]

LedgerInv ==
  /\ IsFiniteSet(DOMAIN lastSeenLedger)
  /\ \A n \in DOMAIN lastSeenLedger : EntryInv(n)
  /\ \A n \in NodeIds \ DOMAIN lastSeenLedger : ClockClose(n) => heard[n] = 0

\* What the audit read before its await is still a bound afterwards
ReadingInv ==
  reading # NoReading =>
    /\ phase = "sweep"
    /\ ClockClose(reading.node) => reading.seen >= reading.heard + Shift(reading.node)

\* The inductive invariant
OfflineInv ==
  /\ OfflineTypeOK
  /\ LedgerWithinRelevant
  /\ VerifyingInv
  /\ LedgerInv
  /\ ReadingInv

\* The arithmetic of a ledger entry: what is seen no earlier than it was sent,
\* shifted, is no earlier than what was handled, shifted
LEMMA SeenSince ==
  ASSUME NEW seen \in Int, NEW ts \in Int, NEW c \in Int, NEW s \in Int, NEW h \in Nat,
         seen >= ts - c + s, h <= ts - c
  PROVE  seen >= h + s
OBVIOUS

--------------------------------------------------------------------------------
\* The helpers on numbers
LEMMA LesserGreater ==
  ASSUME NEW x \in Int, NEW y \in Int
  PROVE  /\ Lesser(x, y) \in Int /\ Lesser(x, y) <= x /\ Lesser(x, y) <= y
         /\ Lesser(x, y) = x \/ Lesser(x, y) = y
         /\ Greater(x, y) = x \/ Greater(x, y) = y
         /\ Greater(x, y) >= x /\ Greater(x, y) >= y
BY DEF Lesser, Greater

\* A block that is final stays final
LEMMA StillFinal ==
  ASSUME NEW b \in Nat, NEW t \in Nat, NEW u \in Nat, NEW lag \in Nat, t <= u, b <= t - lag
  PROVE  b <= u - lag
OBVIOUS

\* The invariant holds of a process that just started
LEMMA OfflineInitInv == Init => OfflineInv
<1> SUFFICES ASSUME Init PROVE OfflineInv
  BY Zenon
<1> USE DEF Init, MemoryInit
<1>1. OfflineTypeOK
  BY Zenon, OfflineAssumption DEF OfflineTypeOK
<1>2. DOMAIN lastSeenLedger = {}
  BY Zenon
<1>3. IsFiniteSet({}) /\ Cardinality({}) = 0
  BY Zenon, FS_EmptySet
<1>4. LedgerWithinRelevant
  BY <1>2, <1>3, OfflineAssumption DEF LedgerWithinRelevant
<1>5. VerifyingInv /\ LedgerInv /\ ReadingInv
  BY Zenon, <1>2, <1>3 DEF VerifyingInv, LedgerInv, ReadingInv
<1>6. QED
  BY Zenon, <1>1, <1>4, <1>5 DEF OfflineInv
\* A restart forgets everything, and so starts again
LEMMA RestartStep == OfflineInv /\ Restart => OfflineInv'
<1> SUFFICES ASSUME OfflineInv, Restart PROVE OfflineInv'
  BY Zenon
<1> USE DEF Restart, worldVars
<1>1. OfflineTypeOK'
  BY Zenon DEF OfflineTypeOK, OfflineInv
<1>2. DOMAIN lastSeenLedger' = {}
  BY Zenon
<1>3. IsFiniteSet({}) /\ Cardinality({}) = 0
  BY Zenon, FS_EmptySet
<1>4. LedgerWithinRelevant'
  BY <1>2, <1>3, OfflineAssumption DEF LedgerWithinRelevant
<1>5. VerifyingInv' /\ LedgerInv' /\ ReadingInv'
  BY Zenon, <1>2, <1>3 DEF VerifyingInv, LedgerInv, ReadingInv
<1>6. QED
  BY Zenon, <1>1, <1>4, <1>5 DEF OfflineInv

\* The passing of time and a change of keys
LEMMA WorldStep == OfflineInv /\ WorldNext => OfflineInv'
<1> SUFFICES ASSUME OfflineInv, WorldNext PROVE OfflineInv'
  BY Zenon
<1>1. /\ UNCHANGED <<offset, gossipVars, auditVars>>
      /\ now' \in Nat /\ now <= now' /\ now \in Nat
      /\ nodeOf' \in [Operators -> NodeIds \cup {NoNode}]
  <2>1. CASE Elapse
    BY <2>1 DEF Elapse, OfflineInv, OfflineTypeOK
  <2>2. CASE \E op \in Operators, n \in NodeIds \cup {NoNode} : SetKey(op, n)
    BY <2>2 DEF SetKey, OfflineInv, OfflineTypeOK, gossipVars, auditVars
  <2>3. QED
    BY Zenon, <2>1, <2>2 DEF WorldNext
<1> USE <1>1 DEF gossipVars, auditVars
<1>2. OfflineTypeOK'
  <2>1. pinnedBlock \in Nat /\ (phase # "idle" => pinnedBlock <= now - FinalityLag)
    BY Zenon DEF OfflineInv, OfflineTypeOK
  <2>2. now \in Nat /\ now' \in Nat /\ now <= now' /\ FinalityLag \in Nat
    BY Zenon, <1>1, OfflineAssumption
  <2>3. phase # "idle" => pinnedBlock <= now' - FinalityLag
    BY ONLY ZenonT(30), <2>1, <2>2, StillFinal
  <2>4. QED
    BY Zenon, <2>3 DEF OfflineInv, OfflineTypeOK
<1>3. LedgerWithinRelevant' /\ LedgerInv' /\ ReadingInv'
  BY Zenon DEF OfflineInv, LedgerWithinRelevant, LedgerInv, EntryInv, ReadingInv, Shift, ClockClose
<1>4. VerifyingInv'
  <2> SUFFICES ASSUME NEW v \in verifying
               PROVE  (/\ v.beat.at <= now
                       /\ v.seen <= authTs(v.beat)
                       /\ v.seen >= v.beat.at + Shift(v.beat.node))'
    BY Zenon DEF VerifyingInv
  <2>1. v.beat.at \in Nat
    BY Zenon DEF OfflineInv, OfflineTypeOK, Heartbeats
  <2>2. QED
    BY <2>1 DEF OfflineInv, VerifyingInv, authTs, Shift
<1>5. QED
  BY Zenon, <1>2, <1>3, <1>4 DEF OfflineInv

\* A heartbeat that was just handled, and whose node has no later signature in
\* the ledger, changes nothing but the history
LEMMA HeartbeatStep ==
  ASSUME OfflineInv, NEW h \in Arriving, HandleHeartbeat(h)
  PROVE  OfflineInv'
<1> USE DEF HandleHeartbeat, worldVars, auditVars
<1>1. /\ h.node \in NodeIds /\ h.at \in Nat /\ h.at <= now /\ now \in Nat /\ offset \in Int
      /\ ClockOf[h.node] \in Int /\ h \in Heartbeats
  BY OfflineAssumption DEF Arriving, Heartbeats, OfflineInv, OfflineTypeOK
<1>2. UNCHANGED <<now, offset, lastSeenLedger, relevantNodeIds, reading, phase>>
  BY ZenonT(30)
<1>3. heard \in [NodeIds -> Nat]
  BY Zenon DEF OfflineInv, OfflineTypeOK
<1>4. \/ heard' = heard
      \/ (FutureDated(h) \/ Stale(h)) /\ heard' = [heard EXCEPT ![h.node] = Greater(@, h.at)]
  BY Zenon DEF Hear
<1>5. verifying' \subseteq verifying \cup {[beat |-> h, seen |-> SeenAt(h)]}
  BY Zenon
<1>6. SeenAt(h) \in Int /\ SeenAt(h) <= authTs(h) /\ SeenAt(h) >= h.at + Shift(h.node)
  <2>1. authTs(h) \in Int /\ Clock \in Int /\ authTs(h) = h.at + ClockOf[h.node]
        /\ Clock >= h.at + offset
    BY <1>1 DEF authTs, Clock
  <2>2. /\ Shift(h.node) \in Int /\ Shift(h.node) <= ClockOf[h.node]
        /\ Shift(h.node) <= offset
    BY ZenonT(30), <1>1, LesserGreater DEF Shift
  <2>3. SeenAt(h) \in Int /\ SeenAt(h) <= authTs(h) /\ (SeenAt(h) = authTs(h) \/ SeenAt(h) = Clock)
    BY ZenonT(30), <2>1, LesserGreater DEF SeenAt
  <2>4. QED
    BY <1>1, <2>1, <2>2, <2>3
<1>7. heard' \in [NodeIds -> Nat]
  BY ZenonT(30), <1>1, <1>3, <1>4 DEF Greater
<1>8. verifying' \subseteq [beat : Heartbeats, seen : Int]
  BY <1>1, <1>5, <1>6 DEF OfflineInv, OfflineTypeOK
<1>9. OfflineTypeOK'
  BY ZenonT(30), <1>7, <1>8 DEF OfflineInv, OfflineTypeOK
<1>10. LedgerWithinRelevant' /\ ReadingInv'
  BY ZenonT(30), <1>2 DEF OfflineInv, LedgerWithinRelevant, ReadingInv, Shift, ClockClose
<1>11. VerifyingInv'
  <2> SUFFICES ASSUME NEW v \in verifying'
               PROVE  /\ v.beat.at <= now
                      /\ v.seen <= authTs(v.beat)
                      /\ v.seen >= v.beat.at + Shift(v.beat.node)
    BY ZenonT(30), <1>2 DEF VerifyingInv, authTs, Shift
  <2>1. CASE v \in verifying
    BY ZenonT(30), <2>1 DEF OfflineInv, VerifyingInv
  <2>2. CASE v = [beat |-> h, seen |-> SeenAt(h)]
    BY ZenonT(30), <2>2, <1>1, <1>6
  <2>3. QED
    BY ZenonT(30), <2>1, <2>2, <1>5
<1>12. LedgerInv'
  <2>1. ASSUME NEW n \in NodeIds, ClockClose(n), heard'[n] # heard[n]
        PROVE  /\ n \in DOMAIN lastSeenLedger
               /\ heard'[n] <= lastSeenLedger[n].authTs - ClockOf[n]
    <3>1. n = h.node /\ heard'[n] = h.at /\ (FutureDated(h) \/ Stale(h))
      <4>1. /\ FutureDated(h) \/ Stale(h)
            /\ heard' = [heard EXCEPT ![h.node] = Greater(@, h.at)]
        BY ZenonT(30), <2>1, <1>4
      <4>2. n = h.node /\ heard'[n] = Greater(heard[n], h.at)
        BY ZenonT(30), <4>1, <2>1, <1>1, <1>3
      <4>3. heard[n] \in Int /\ h.at \in Int
        BY <1>1, <1>3
      <4>4. QED
        BY ZenonT(30), <4>1, <4>2, <4>3, <2>1, LesserGreater
    <3>2. ~FutureDated(h)
      BY <2>1, <3>1, <1>1, OfflineAssumption DEF FutureDated, authTs, Clock, ClockClose
    <3>3. n \in DOMAIN lastSeenLedger /\ authTs(h) <= lastSeenLedger[n].authTs
      BY ZenonT(30), <3>1, <3>2 DEF Stale, Known
    <3>4. lastSeenLedger[n].authTs \in Int
      BY ZenonT(30), <3>3 DEF OfflineInv, OfflineTypeOK
    <3>5. QED
      BY SMTT(30), <3>1, <3>3, <3>4, <1>1 DEF authTs
  <2>2. \A n \in DOMAIN lastSeenLedger : EntryInv(n)'
    <3> SUFFICES ASSUME NEW n \in DOMAIN lastSeenLedger PROVE EntryInv(n)'
      BY ZenonT(30)
    <3>1. n \in NodeIds
      BY ZenonT(30) DEF OfflineInv, OfflineTypeOK
    <3>2. EntryInv(n)
      BY ZenonT(30) DEF OfflineInv, LedgerInv
    <3>3. ClockClose(n) => heard'[n] <= lastSeenLedger[n].authTs - ClockOf[n]
      BY ZenonT(30), <2>1, <3>1, <3>2 DEF EntryInv
    <3>4. QED
      BY Zenon, <1>2, <3>2, <3>3 DEF EntryInv, ClockClose, Shift
  <2>3. \A n \in NodeIds \ DOMAIN lastSeenLedger : ClockClose(n) => heard'[n] = 0
    BY Zenon, <2>1 DEF OfflineInv, LedgerInv
  <2>4. QED
    BY ZenonT(30), <2>2, <2>3, <1>2 DEF OfflineInv, LedgerInv, ClockClose
<1>13. QED
  BY ZenonT(30), <1>9, <1>10, <1>11, <1>12 DEF OfflineInv
\* A verified heartbeat is recorded, unless the gates closed meanwhile
LEMMA RecordStep ==
  ASSUME OfflineInv, NEW v \in verifying, RecordLiveness(v)
  PROVE  OfflineInv'
<1> DEFINE n == v.beat.node
           D == DOMAIN lastSeenLedger
<1>1. /\ v.beat \in Heartbeats /\ n \in NodeIds /\ v.beat.at \in Nat /\ v.seen \in Int
      /\ ClockOf[n] \in Int /\ offset \in Int /\ now \in Nat
  BY Zenon, OfflineAssumption DEF OfflineInv, OfflineTypeOK, Heartbeats
<1>2. /\ UNCHANGED <<now, offset, nodeOf, relevantNodeIds, auditVars>>
      /\ verifying' = verifying \ {v}
  BY ZenonT(30) DEF RecordLiveness, worldVars
<1>3. heard \in [NodeIds -> Nat] /\ D \subseteq NodeIds /\ D \subseteq relevantNodeIds
      /\ IsFiniteSet(D) /\ \A x \in D : lastSeenLedger[x] \in [authTs : Int, seen : Int]
  BY ZenonT(30) DEF OfflineInv, OfflineTypeOK, LedgerWithinRelevant, LedgerInv
<1>4. /\ v.seen <= authTs(v.beat)
      /\ v.seen >= v.beat.at + Shift(n)
      /\ authTs(v.beat) \in Int /\ v.beat.at = authTs(v.beat) - ClockOf[n]
  BY <1>1 DEF OfflineInv, VerifyingInv, authTs
<1>5. VerifyingInv'
  BY Zenon, <1>2 DEF OfflineInv, VerifyingInv, authTs, Shift
<1>6. ReadingInv'
  BY ZenonT(30), <1>2 DEF OfflineInv, ReadingInv, ClockClose, Shift, auditVars
<1>7. heard' \in [NodeIds -> Nat] /\ \A x \in NodeIds \ {n} : heard'[x] = heard[x]
  BY ZenonT(30), <1>1, <1>3 DEF RecordLiveness, Hear, Greater
<1>8. heard'[n] = heard[n] \/ heard'[n] = v.beat.at
  BY Zenon, <1>1, <1>3 DEF RecordLiveness, Hear, Greater
<1>9. CASE StillAccepted(v.beat)
  <2> DEFINE e == [authTs |-> authTs(v.beat), seen |-> v.seen]
  <2>1. lastSeenLedger' = [x \in D \cup {n} |-> IF x = n THEN e ELSE lastSeenLedger[x]]
    BY ZenonT(30), <1>9 DEF RecordLiveness, Recorded
  <2>2. DOMAIN lastSeenLedger' = D \cup {n} /\ lastSeenLedger'[n] = e
        /\ \A x \in D \ {n} : lastSeenLedger'[x] = lastSeenLedger[x]
    BY Zenon, <2>1
  <2>3. n \in relevantNodeIds /\ (n \in D => lastSeenLedger[n].authTs < authTs(v.beat))
        /\ (n \notin D => ~(Cardinality(D) >= MAX_LIVENESS_LEDGER))
    <3>1. n \in relevantNodeIds /\ ~Stale(v.beat) /\ ~LedgerFull(n)
      BY Zenon, <1>9 DEF StillAccepted
    <3>2. n \in D => lastSeenLedger[n].authTs \in Int
      BY ZenonT(30), <1>3
    <3>3. QED
      BY <3>1, <3>2, <1>4 DEF Stale, LedgerFull, Known
  <2>4. OfflineTypeOK'
    <3>1. e \in [authTs : Int, seen : Int]
      BY ZenonT(30), <1>1, <1>4
    <3>2. \A x \in DOMAIN lastSeenLedger' : lastSeenLedger'[x] \in [authTs : Int, seen : Int]
      BY ZenonT(30), <3>1, <2>2, <1>3
    <3>3. DOMAIN lastSeenLedger' \subseteq NodeIds
      BY ZenonT(30), <2>2, <1>1, <1>3
    <3> HIDE DEF e, n, D
    <3>4. QED
      BY ZenonT(30), <3>2, <3>3, <1>2, <1>7 DEF OfflineInv, OfflineTypeOK, auditVars
  <2>5. LedgerWithinRelevant' /\ IsFiniteSet(D \cup {n})
    <3>1. IsFiniteSet(D \cup {n})
          /\ Cardinality(D \cup {n}) = IF n \in D THEN Cardinality(D) ELSE Cardinality(D) + 1
      BY ZenonT(30), <1>3, FS_AddElement
    <3>2. Cardinality(D) \in Nat /\ Cardinality(D) <= MAX_LIVENESS_LEDGER
          /\ MAX_LIVENESS_LEDGER \in Nat
      BY Zenon, <1>3, FS_CardinalityType, OfflineAssumption DEF OfflineInv, LedgerWithinRelevant
    <3>3. Cardinality(D \cup {n}) <= MAX_LIVENESS_LEDGER
      BY <3>1, <3>2, <2>3
    <3> HIDE DEF e, n, D
    <3>4. QED
      BY ZenonT(30), <3>1, <3>3, <2>2, <2>3, <1>2, <1>3 DEF LedgerWithinRelevant
  <2>6. EntryInv(n)'
    <3>1. ClockClose(n) => heard[n] <= v.beat.at
      <4>1. CASE n \in D
        <5>1. EntryInv(n) /\ lastSeenLedger[n].authTs \in Int /\ heard[n] \in Nat
          BY Zenon, <4>1, <1>1, <1>3 DEF OfflineInv, LedgerInv
        <5>2. QED
          BY SMTT(30), <5>1, <4>1, <2>3, <1>1, <1>4 DEF EntryInv
      <4>2. CASE n \notin D
        BY <4>2, <1>1 DEF OfflineInv, LedgerInv
      <4>3. QED
        BY ZenonT(30), <4>1, <4>2
    <3>2. ClockClose(n) => heard'[n] <= v.beat.at
      BY SMTT(30), <3>1, <1>1, <1>8
    <3> HIDE DEF n, D
    <3>3. QED
      BY SMTT(30), <3>2, <2>2, <1>2, <1>4 DEF EntryInv, ClockClose, Shift
  <2>7. \A x \in D \ {n} : EntryInv(x)'
    BY ZenonT(30), <2>2, <1>2, <1>3, <1>7 DEF OfflineInv, LedgerInv, EntryInv, ClockClose, Shift
  <2>8. \A x \in NodeIds \ (D \cup {n}) : ClockClose(x) => heard'[x] = 0
    BY ZenonT(30), <1>7 DEF OfflineInv, LedgerInv
  <2>9. LedgerInv'
    <3> HIDE DEF e, n, D
    <3>1. QED
      BY Zenon, <2>2, <2>5, <2>6, <2>7, <2>8, <1>2 DEF LedgerInv, ClockClose
  <2>10. QED
    BY Zenon, <2>4, <2>5, <2>9, <1>5, <1>6 DEF OfflineInv
<1>10. CASE ~StillAccepted(v.beat)
  <2>1. lastSeenLedger' = lastSeenLedger
    BY ZenonT(30), <1>10 DEF RecordLiveness
  <2>2. heard' = heard \/ (n \in D /\ authTs(v.beat) <= lastSeenLedger[n].authTs)
    BY ZenonT(30), <1>10 DEF RecordLiveness, StillAccepted, Stale, Known
  <2>3. OfflineTypeOK' /\ LedgerWithinRelevant'
    BY ZenonT(30), <2>1, <1>2, <1>7 DEF OfflineInv, OfflineTypeOK, LedgerWithinRelevant, auditVars
  <2>4. ASSUME NEW x \in D PROVE EntryInv(x)'
    <3>1. EntryInv(x) /\ x \in NodeIds /\ lastSeenLedger[x].authTs \in Int
      BY Zenon, <2>4, <1>3 DEF OfflineInv, LedgerInv
    <3>2. ClockClose(x) => heard'[x] <= lastSeenLedger[x].authTs - ClockOf[x]
      <4>1. CASE heard'[x] = heard[x]
        BY ZenonT(30), <4>1, <3>1 DEF EntryInv
      <4>2. CASE heard'[x] # heard[x]
        <5>1. x = n /\ heard'[x] = v.beat.at /\ authTs(v.beat) <= lastSeenLedger[x].authTs
          BY ZenonT(30), <4>2, <3>1, <2>2, <1>7, <1>8
        <5>2. QED
          BY SMTT(30), <5>1, <3>1, <1>1, <1>4
      <4>3. QED
        BY ZenonT(30), <4>1, <4>2
    <3>3. QED
      BY ZenonT(30), <3>1, <3>2, <2>1, <1>2 DEF EntryInv, ClockClose, Shift
  <2>5. \A x \in NodeIds \ D : ClockClose(x) => heard'[x] = 0
    BY ZenonT(30), <2>2, <1>7 DEF OfflineInv, LedgerInv
  <2>6. LedgerInv'
    BY Zenon, <2>1, <2>4, <2>5, <1>2, <1>3 DEF LedgerInv, ClockClose
  <2>7. QED
    BY ZenonT(30), <2>3, <2>6, <1>5, <1>6 DEF OfflineInv
<1>11. QED
  BY Zenon, <1>9, <1>10
\* The audited set is pushed: other nodes leave the ledger and the history
LEMMA PushStep == OfflineInv /\ PushRelevant => OfflineInv'
<1> SUFFICES ASSUME OfflineInv, PushRelevant PROVE OfflineInv'
  BY Zenon
<1> DEFINE next == {offlineNodeIdCache[op] : op \in Operators} \ {NoNode}
           D == DOMAIN lastSeenLedger
<1>1. next \subseteq NodeIds
  BY ZenonT(30) DEF OfflineInv, OfflineTypeOK
<1>2. /\ relevantNodeIds' = next
      /\ lastSeenLedger' = [n \in D \cap next |-> lastSeenLedger[n]]
      /\ heard' = [n \in NodeIds |-> IF n \in relevantNodeIds \cap next THEN heard[n] ELSE 0]
      /\ UNCHANGED <<now, offset, nodeOf, verifying, reading, pinnedBlock,
                     derivedOperators, offlineNodeIdCache, accused>>
      /\ phase = "resolve" /\ phase' = "sweep" /\ todo' = watchlist \cup derivedOperators
  BY ZenonT(30) DEF PushRelevant, SetRelevantNodeIds, Tick, worldVars
<1> HIDE DEF next
<1>3. DOMAIN lastSeenLedger' = D \cap next
      /\ \A n \in D \cap next : lastSeenLedger'[n] = lastSeenLedger[n]
  BY ZenonT(30), <1>2
<1>4. OfflineTypeOK'
  <2>1. heard' \in [NodeIds -> Nat] /\ todo' \subseteq Operators
    BY ZenonT(30), <1>2, OfflineAssumption DEF OfflineInv, OfflineTypeOK
  <2>2. \A n \in DOMAIN lastSeenLedger' : lastSeenLedger'[n] \in [authTs : Int, seen : Int]
    BY Zenon, <1>3 DEF OfflineInv, OfflineTypeOK
  <2>3. DOMAIN lastSeenLedger' \subseteq NodeIds
    BY ZenonT(30), <1>1, <1>3
  <2>4. pinnedBlock <= now - FinalityLag
    BY ZenonT(30), <1>2 DEF OfflineInv, OfflineTypeOK
  <2> HIDE DEF D
  <2>5. QED
    BY ZenonT(30), <1>1, <1>2, <2>1, <2>2, <2>3, <2>4 DEF OfflineInv, OfflineTypeOK
<1>5. IsFiniteSet(D) /\ Cardinality(D) <= MAX_LIVENESS_LEDGER /\ D \subseteq relevantNodeIds
      /\ D \subseteq NodeIds
  BY Zenon DEF OfflineInv, LedgerInv, LedgerWithinRelevant, OfflineTypeOK
<1>6. IsFiniteSet(D \cap next) /\ Cardinality(D \cap next) <= MAX_LIVENESS_LEDGER
  <2>1. IsFiniteSet(D \cap next) /\ Cardinality(D \cap next) <= Cardinality(D)
    BY Zenon, <1>5, FS_Subset, D \cap next \subseteq D
  <2>2. Cardinality(D \cap next) \in Nat /\ Cardinality(D) \in Nat
    BY ZenonT(30), <2>1, <1>5, FS_CardinalityType
  <2>3. QED
    BY <2>1, <2>2, <1>5, OfflineAssumption
<1>7. LedgerWithinRelevant'
  BY Zenon, <1>2, <1>3, <1>6 DEF LedgerWithinRelevant
<1>8. VerifyingInv' /\ ReadingInv'
  BY ZenonT(30), <1>2 DEF OfflineInv, VerifyingInv, ReadingInv, authTs, Shift, ClockClose
<1>9. LedgerInv'
  <2>1. ASSUME NEW n \in D \cap next PROVE EntryInv(n)'
    <3>1. heard'[n] = heard[n] /\ lastSeenLedger'[n] = lastSeenLedger[n]
      BY ZenonT(30), <1>2, <1>3, <1>5
    <3>2. EntryInv(n)
      BY ZenonT(30) DEF OfflineInv, LedgerInv
    <3>3. QED
      BY ZenonT(30), <3>1, <3>2, <1>2 DEF EntryInv, ClockClose, Shift
  <2>2. ASSUME NEW n \in NodeIds \ (D \cap next), ClockClose(n) PROVE heard'[n] = 0
    <3>1. CASE n \in next
      BY ZenonT(30), <3>1, <2>2, <1>2 DEF OfflineInv, LedgerInv
    <3>2. CASE n \notin next
      BY ZenonT(30), <3>2, <1>2
    <3>3. QED
      BY ZenonT(30), <3>1, <3>2
  <2> HIDE DEF D
  <2>3. QED
    BY ZenonT(30), <2>1, <2>2, <1>2, <1>3, <1>6 DEF LedgerInv, ClockClose
<1>10. QED
  BY ZenonT(30), <1>4, <1>7, <1>8, <1>9 DEF OfflineInv

\* A step of the audit that leaves the gossip service and the world alone
LEMMA AuditOnly ==
  ASSUME OfflineInv, UNCHANGED <<worldVars, gossipVars>>, OfflineTypeOK', ReadingInv'
  PROVE  OfflineInv'
<1>1. LedgerWithinRelevant' /\ LedgerInv'
  BY Zenon DEF OfflineInv, LedgerWithinRelevant, LedgerInv, EntryInv, ClockClose, Shift,
         worldVars, gossipVars
<1>2. VerifyingInv'
  BY ZenonT(30) DEF OfflineInv, VerifyingInv, authTs, Shift, worldVars, gossipVars
<1>3. QED
  BY ZenonT(30), <1>1, <1>2 DEF OfflineInv

\* The sweep
LEMMA AuditStep == OfflineInv /\ AuditNext => OfflineInv'
<1> SUFFICES ASSUME OfflineInv, AuditNext PROVE OfflineInv'
  BY Zenon
<1> USE DEF Tick, worldVars, gossipVars
<1>0. OfflineTypeOK /\ ReadingInv
  BY Zenon DEF OfflineInv
<1>1. ASSUME NEW b \in Start..MaxNow, BeginTick(b) PROVE OfflineInv'
  <2>1. b \in Nat /\ reading = NoReading
    BY <1>0, <1>1, OfflineAssumption DEF BeginTick, ReadingInv
  <2>2. b <= now - FinalityLag /\ derivedOperators' \subseteq Members
    BY ZenonT(30), <1>1 DEF BeginTick, ViolationBlock
  <2>3. /\ offlineNodeIdCache' \in [Operators -> NodeIds \cup {NoNode}]
        /\ todo' \subseteq Operators /\ derivedOperators' \subseteq Operators
    BY ZenonT(30), <1>0, <1>1, <2>2, OfflineAssumption
    DEF BeginTick, effectiveWatchlist, OfflineTypeOK
  <2>4. OfflineTypeOK'
    BY Zenon, <1>0, <1>1, <2>1, <2>2, <2>3 DEF BeginTick, OfflineTypeOK
  <2>5. QED
    BY ZenonT(30), <1>1, <2>1, <2>4, AuditOnly DEF BeginTick, ReadingInv
<1>2. ASSUME NEW op \in Operators, ResolveNodeId(op) \/ ResolveFails(op) PROVE OfflineInv'
  <2>1. offlineNodeIdCache' \in [Operators -> NodeIds \cup {NoNode}]
    BY ZenonT(30), <1>0, <1>2 DEF ResolveNodeId, ResolveFails, OfflineTypeOK
  <2>2. UNCHANGED <<worldVars, gossipVars, derivedOperators, phase, pinnedBlock, reading, accused>>
        /\ todo' \subseteq todo
    BY ZenonT(30), <1>2 DEF ResolveNodeId, ResolveFails
  <2>3. OfflineTypeOK'
    BY Zenon, <1>0, <2>1, <2>2 DEF OfflineTypeOK
  <2>4. ReadingInv'
    BY ZenonT(30), <1>0, <2>2 DEF ReadingInv, ClockClose, Shift
  <2>5. QED
    BY ZenonT(30), <2>2, <2>3, <2>4, AuditOnly
<1>3. CASE PushRelevant
  BY Zenon, <1>3, PushStep
<1>4. ASSUME NEW op \in Operators, NEW node \in NodeIds \cup {NoNode}, ReadLastSeen(op, node)
      PROVE  OfflineInv'
  <2>1. UNCHANGED <<worldVars, gossipVars, derivedOperators, offlineNodeIdCache, phase,
                    pinnedBlock, accused>>
        /\ todo' \subseteq todo /\ phase = "sweep"
    BY Zenon, <1>4 DEF ReadLastSeen
  <2>2. CASE reading' = NoReading
    BY ZenonT(30), <1>0, <2>1, <2>2, AuditOnly DEF OfflineTypeOK, ReadingInv
  <2>3. CASE reading' # NoReading
    <3>1. /\ node \in NodeIds /\ node \in DOMAIN lastSeenLedger
          /\ reading' = [op |-> op, node |-> node, seen |-> lastSeenLedger[node].seen,
                         heard |-> heard[node]]
      BY ZenonT(30), <1>4, <2>3 DEF ReadLastSeen, Known
    <3>2. lastSeenLedger[node].seen \in Int /\ lastSeenLedger[node].authTs \in Int
          /\ heard[node] \in Nat /\ offset \in Int /\ ClockOf[node] \in Int
      BY Zenon, <1>0, <3>1, OfflineAssumption DEF OfflineTypeOK
    <3>3. OfflineTypeOK'
      BY ZenonT(30), <1>0, <2>1, <3>1, <3>2 DEF OfflineTypeOK
    <3>4. EntryInv(node) /\ Shift(node) \in Int
      BY ZenonT(30), <3>1, <3>2, LesserGreater DEF OfflineInv, LedgerInv, Shift
    <3>5. ClockClose(node) => lastSeenLedger[node].seen >= heard[node] + Shift(node)
      <4> SUFFICES ASSUME ClockClose(node)
                   PROVE  lastSeenLedger[node].seen >= heard[node] + Shift(node)
        BY ZenonT(30)
      <4>1. /\ lastSeenLedger[node].seen >= lastSeenLedger[node].authTs - ClockOf[node] + Shift(node)
            /\ heard[node] <= lastSeenLedger[node].authTs - ClockOf[node]
        BY Zenon, <3>4 DEF EntryInv
      <4> QED
        BY ONLY ZenonT(30), <3>2, <3>4, <4>1, SeenSince
    <3>6. ReadingInv'
      BY ZenonT(30), <2>1, <3>1, <3>5 DEF ReadingInv, ClockClose, Shift
    <3>7. QED
      BY ZenonT(30), <2>1, <3>3, <3>6, AuditOnly
  <2>4. QED
    BY ZenonT(30), <2>2, <2>3
<1>5. CASE OperatorSkipped
  <2>1. UNCHANGED <<worldVars, gossipVars, derivedOperators, offlineNodeIdCache, phase,
                    pinnedBlock, accused>>
        /\ todo' \subseteq todo /\ reading' = NoReading
    BY ZenonT(30), <1>5 DEF OperatorSkipped
  <2>2. QED
    BY ZenonT(30), <1>0, <2>1, AuditOnly DEF OfflineTypeOK, ReadingInv
<1>6. CASE DecideOffline
  <2>1. reading.op \in Operators
    BY ZenonT(30), <1>0, <1>6 DEF DecideOffline, OfflineTypeOK
  <2>2. accused' \subseteq Operators
    BY ZenonT(30), <1>0, <1>6, <2>1 DEF DecideOffline, OfflineTypeOK
  <2>3. OfflineTypeOK'
    BY ZenonT(30), <1>0, <1>6, <2>2 DEF DecideOffline, OfflineTypeOK
  <2>4. QED
    BY ZenonT(30), <1>6, <2>3, AuditOnly DEF DecideOffline, ReadingInv
<1>7. CASE EndTick
  BY ZenonT(30), <1>0, <1>7, AuditOnly DEF EndTick, OfflineTypeOK, ReadingInv
<1>8. QED
  BY Zenon, <1>1, <1>2, <1>3, <1>4, <1>5, <1>6, <1>7 DEF AuditNext
\* Every step keeps the invariant
LEMMA OfflineNextInv == OfflineInv /\ [Next]_vars => OfflineInv'
<1> SUFFICES ASSUME OfflineInv, [Next]_vars PROVE OfflineInv'
  BY Zenon
<1>1. CASE WorldNext
  BY Zenon, <1>1, WorldStep
<1>2. CASE GossipNext
  BY Zenon, <1>2, HeartbeatStep, RecordStep DEF GossipNext
<1>3. CASE AuditNext
  BY Zenon, <1>3, AuditStep
<1>4. CASE Restart
  BY Zenon, <1>4, RestartStep
<1>5. CASE UNCHANGED vars
  <2>1. UNCHANGED <<worldVars, gossipVars, auditVars>>
    BY ZenonT(30), <1>5 DEF vars
  <2>2. OfflineTypeOK' /\ ReadingInv'
    BY Zenon, <2>1 DEF OfflineInv, OfflineTypeOK, ReadingInv, ClockClose, Shift, worldVars,
                gossipVars, auditVars
  <2>3. QED
    BY Zenon, <2>1, <2>2, AuditOnly
<1>6. QED
  BY Zenon, <1>1, <1>2, <1>3, <1>4, <1>5 DEF Next

\* The inductive invariant of the offline audit
THEOREM OfflineInvariant == Spec => []OfflineInv
<1>1. Init => OfflineInv
  BY Zenon, OfflineInitInv
<1>2. OfflineInv /\ [Next]_vars => OfflineInv'
  BY Zenon, OfflineNextInv
<1>3. QED
  BY <1>1, <1>2, PTL DEF Spec

\* The auditor's state keeps its types, and a tick in flight works with a
\* finalized block
THEOREM OfflineTyped == Spec => []OfflineTypeOK
<1>1. OfflineInv => OfflineTypeOK
  BY Zenon DEF OfflineInv
<1>2. QED
  BY OfflineInvariant, <1>1, PTL

\* Whatever was being verified when the audited set changed, the ledger of
\* GossipService holds audited nodes only, and no more than its cap
THEOREM LedgerWithinRelevantHolds == Spec => []LedgerWithinRelevant
<1>1. OfflineInv => LedgerWithinRelevant
  BY Zenon DEF OfflineInv
<1>2. QED
  BY OfflineInvariant, <1>1, PTL

\* The arithmetic of the rule: sent at s by a clock that is off by c, taken for
\* seen, shifted; read by a clock off by o; held against a final block
LEMMA LateEnough ==
  ASSUME NEW s \in Int, NEW seen \in Int, NEW c \in Int, NEW o \in Int, NEW t \in Int,
         NEW pin \in Int, NEW lag \in Nat, NEW threshold \in Nat, NEW shift \in Int,
         shift = c \/ shift = o, seen >= s + shift, -lag <= c, t + o >= pin,
         pin <= t - lag, seen < pin - threshold
  PROVE  t - s > threshold
OBVIOUS

\* With a clock that is no further off than the finality lag and the permitted
\* skew, nobody is reported offline whose heartbeat of the last
\* OFFLINE_THRESHOLD_MS the auditor has handled
THEOREM HeardNotAccusedHolds == Spec => HeardNotAccused
<1> DEFINE Fair ==
      \A op \in Operators :
        op \in accused' \ accused /\ ClockClose(reading.node)
          => now - reading.heard > OFFLINE_THRESHOLD_MS
<1>1. OfflineInv /\ [Next]_vars => [Fair]_vars
  <2> SUFFICES ASSUME OfflineInv, Next, NEW op \in Operators,
                      op \in accused', op \notin accused, ClockClose(reading.node)
               PROVE  now - reading.heard > OFFLINE_THRESHOLD_MS
    BY Zenon
  <2>1. DecideOffline
    <3>1. ~WorldNext
      BY ZenonT(30) DEF WorldNext, Elapse, SetKey, auditVars
    <3>2. ~GossipNext
      BY ZenonT(30) DEF GossipNext, HandleHeartbeat, RecordLiveness, auditVars
    <3>3. ~Restart
      BY Zenon DEF Restart
    <3>4. AuditNext
      BY Zenon, <3>1, <3>2, <3>3 DEF Next
    <3>5. QED
      BY ZenonT(30), <3>4 DEF AuditNext, BeginTick, ResolveNodeId, ResolveFails, PushRelevant,
                  ReadLastSeen, OperatorSkipped, EndTick
  <2>2. /\ reading # NoReading /\ phase = "sweep"
        /\ Clock >= pinnedBlock /\ reading.seen < pinnedBlock - OFFLINE_THRESHOLD_MS
    BY ZenonT(30), <2>1 DEF DecideOffline, Tick, ClockSane, deadlineMs
  <2>3. /\ reading.node \in NodeIds /\ reading.seen \in Int /\ reading.heard \in Nat
        /\ now \in Nat /\ offset \in Int /\ pinnedBlock \in Nat
        /\ pinnedBlock <= now - FinalityLag
    BY Zenon, <2>2 DEF OfflineInv, OfflineTypeOK
  <2>4. reading.seen >= reading.heard + Shift(reading.node)
    BY Zenon, <2>2 DEF OfflineInv, ReadingInv
  <2>5. ClockOf[reading.node] \in Int /\ FinalityLag \in Nat /\ OFFLINE_THRESHOLD_MS \in Nat
    BY ZenonT(30), <2>3, OfflineAssumption
  <2>6. /\ Shift(reading.node) \in Int
        /\ Shift(reading.node) = ClockOf[reading.node] \/ Shift(reading.node) = offset
    BY ZenonT(30), <2>3, <2>5, LesserGreater DEF Shift
  <2>7. -FinalityLag <= ClockOf[reading.node] /\ now + offset >= pinnedBlock
    BY Zenon, <2>2 DEF ClockClose, Clock
  <2>8. QED
    BY ONLY <2>2, <2>3, <2>4, <2>5, <2>6, <2>7, LateEnough
<1>2. QED
  BY <1>1, OfflineInvariant, PTL DEF Spec, HeardNotAccused

-----------------------------------------------------------------------------
(***************************************************************************)
(* The slash that an audit drives (SlashDrive), for any modes, lookback    *)
(* and bounds.                                                             *)
(***************************************************************************)

\* The locals, the memory and the books of the chain keep their fields
DriveTyped ==
  /\ DOMAIN loc = {"vb", "prior", "within", "indet", "resume", "carried", "armed", "queued",
                   "prop", "executed"}
  /\ DOMAIN mem = {"slashed", "retry", "cooling", "pid"}
  /\ DOMAIN onchain = {"flag", "flagAt", "used", "filed", "done", "executions"}
  /\ bad \in BOOLEAN /\ block \in Nat
  /\ flagFiled \in Nat /\ crashes \in Nat /\ recoveries \in Nat
  /\ \A e \in onchain.executions : e.at \in Nat

\* No slash of the node's own lies within the lookback
Clean == \A e \in onchain.executions : e.own # None => e.at < block - Lookback

\* The flag is only up when no slash of its own is recent: whoever raised it had
\* looked, and so has an attempt that is about to
SlashInv ==
  /\ OwnSlashOnce
  /\ onchain.flag => Clean
  /\ stage = "pending" /\ ~loc.indet => Clean
  /\ stage = "start" /\ Executes /\ ~loc.resume => Clean
  /\ stage = "queue" => Clean

\* The proposals that restarts and recoveries account for
Budget == crashes + recoveries - (IF bad THEN 0 ELSE 1)

\* The node has a proposal of its own in hand, or knows that it is done
Holds == mem.pid # None \/ mem.slashed \/ loc.prop # None

\* One proposal more than accounted for is one the node still has in hand, or one
\* that it dropped when it saw the operator healthy
FiledInv ==
  /\ bad \/ recoveries >= 1
  /\ \/ flagFiled <= Budget
     \/ mode = "armed" /\ flagFiled <= Budget + 1 /\ (Holds \/ (~bad /\ stage = "idle"))

\* What an attempt knows where it stands
AttemptInv ==
  /\ stage \in {"pending", "start", "queue", "create"} /\ Executes => ~mem.slashed
  /\ stage \in {"start", "queue", "create"} /\ Executes /\ ~loc.resume /\ onchain.flag => flagFiled = 0
  /\ stage = "create" /\ loc.resume /\ loc.carried = None => mem.pid = None
  /\ stage \notin {"execute", "record", "final"} => loc.prop = None
  /\ stage = "final" /\ mode = "armed" /\ loc.prop # None => mem.pid # None \/ mem.slashed
  /\ loc.executed => loc.prop # None
  /\ loc.armed => Executes
  /\ stage = "queue" => Executes /\ ~loc.resume

DriveInv == DriveTyped /\ SlashInv /\ FiledInv /\ AttemptInv

\* The locals before an attempt and the memory of a new process
LEMMA Fresh ==
  /\ DOMAIN IdleLoc = {"vb", "prior", "within", "indet", "resume", "carried", "armed", "queued",
                       "prop", "executed"}
  /\ IdleLoc.prop = None /\ IdleLoc.executed = FALSE /\ IdleLoc.armed = FALSE
  /\ DOMAIN FreshMem = {"slashed", "retry", "cooling", "pid"}
  /\ FreshMem.slashed = FALSE /\ FreshMem.pid = None
BY ZenonT(30) DEF IdleLoc, FreshMem, None

\* A node starts with nothing filed and no slash known
LEMMA DriveStart == DriveInit => DriveInv
<1> SUFFICES ASSUME DriveInit PROVE DriveInv
  BY Zenon
<1>1. /\ DOMAIN onchain = {"flag", "flagAt", "used", "filed", "done", "executions"}
      /\ onchain.flag = FALSE /\ onchain.executions = {}
  BY ZenonT(30) DEF DriveInit
<1>2. /\ bad = TRUE /\ block = 1 /\ stage = "idle" /\ loc = IdleLoc /\ mem = FreshMem
      /\ flagFiled = 0 /\ crashes = 0 /\ recoveries = 0
  BY Zenon DEF DriveInit
<1>3. DriveTyped
  BY ZenonT(30), <1>1, <1>2, Fresh DEF DriveTyped
<1>4. SlashInv
  BY Zenon, <1>1, <1>2 DEF SlashInv, OwnSlashOnce
<1>5. FiledInv
  BY SMTT(30), <1>2 DEF FiledInv, Budget
<1>6. AttemptInv
  BY Zenon, <1>2, Fresh DEF AttemptInv
<1> QED  BY Zenon, <1>3, <1>4, <1>5, <1>6 DEF DriveInv

\* queueSlashWithProof raises the flag and leaves the executions alone
LEMMA Raised ==
  ASSUME DriveTyped, NEW h
  PROVE  /\ DOMAIN Raise(h) = DOMAIN onchain /\ Raise(h).flag = TRUE
         /\ Raise(h).executions = onchain.executions
BY Zenon DEF Raise, DriveTyped

\* The books of the chain keep their fields
BooksTyped ==
  /\ DOMAIN onchain = {"flag", "flagAt", "used", "filed", "done", "executions"}
  /\ \A e \in onchain.executions : e.at \in Nat

\* executeSlashWithProof clears the flag and leaves one more execution
LEMMA Struck ==
  ASSUME DriveTyped, NEW prop
  PROVE  /\ DOMAIN Strike(prop) = DOMAIN onchain /\ Strike(prop).flag = FALSE
         /\ Strike(prop).executions = onchain.executions \union {[at |-> block, own |-> prop]}
BY Zenon DEF Strike, DriveTyped

\* Whatever the node or a peer does to the flag leaves well-formed books
LEMMA BooksKept ==
  ASSUME DriveTyped, NEW h, NEW prop, onchain' \in {onchain, Raise(h), Strike(prop)}
  PROVE  BooksTyped'
<1>1. CASE onchain' = onchain
  BY Zenon, <1>1 DEF DriveTyped, BooksTyped
<1>2. CASE onchain' = Raise(h)
  BY ZenonT(30), <1>2, Raised DEF DriveTyped, BooksTyped
<1>3. CASE onchain' = Strike(prop)
  <2>1. [at |-> block, own |-> prop].at \in Nat
    BY ZenonT(30) DEF DriveTyped
  <2> QED  BY ZenonT(30), <1>3, <2>1, Struck DEF DriveTyped, BooksTyped
<1> QED  BY ZenonT(30), <1>1, <1>2, <1>3

\* Every step keeps the fields
LEMMA DriveTypedKept == ASSUME DriveInv, DriveNext PROVE DriveTyped'
<1>0. DriveTyped
  BY Zenon DEF DriveInv
<1> USE DEF DriveInv, DriveTyped
<1>1. CASE Detect
  BY Zenon, <1>1 DEF Detect, env, IdleLoc
<1>2. CASE Put
  BY Zenon, <1>2 DEF Put, env, Idle, IdleLoc
<1>3. CASE Gate
  BY Zenon, <1>3 DEF Gate, env
<1>4. CASE Scan
  BY ZenonT(30), <1>4 DEF Scan, env, Slashed
<1>5. CASE Pending
  BY <1>5 DEF Pending, env
<1>6. CASE Begin
  BY Zenon, <1>6 DEF Begin, env
<1>7. CASE Queue
  <2>1. onchain' \in {onchain, Raise(loc.vb), Strike(None)}
    BY Zenon, <1>7 DEF Queue
  <2>2. BooksTyped'
    <3> HIDE DEF DriveInv, DriveTyped
    <3> QED  BY <1>0, <2>1, BooksKept
  <2> QED  BY <1>7, <2>2 DEF Queue, env, BooksTyped
<1>8. CASE Create
  BY <1>8 DEF Create, env, Filed
<1>9. CASE Execute
  <2>1. onchain' \in {onchain, Raise(loc.vb), Strike(loc.prop)}
    BY Zenon, <1>9 DEF Execute
  <2>2. BooksTyped'
    <3> HIDE DEF DriveInv, DriveTyped
    <3> QED  BY SMTT(30), <1>0, <2>1, BooksKept
  <2> QED  BY Zenon, <1>9, <2>2 DEF Execute, env, BooksTyped
<1>10. CASE Record
  BY ZenonT(30), <1>10 DEF Record, env
<1>11. CASE Final
  BY ZenonT(30), <1>11 DEF Final, env, Idle, IdleLoc
<1>12. CASE Healthy
  BY Zenon, <1>12 DEF Healthy, env
<1>13. CASE CooldownEnds
  BY ZenonT(30), <1>13 DEF CooldownEnds, env
<1>14. ASSUME NEW m \in Modes, Reboot(m) PROVE DriveTyped'
  BY SMTT(30), <1>14, Fresh DEF Reboot, env, Idle
<1>15. CASE NewBlock
  BY <1>15 DEF NewBlock
<1>16. CASE Peer
  <2>1. BooksTyped'
    <3>1. CASE onchain' \in {onchain, Raise(block), Strike(None)}
      <4> HIDE DEF DriveInv, DriveTyped
      <4> QED  BY <1>0, <3>1, BooksKept
    <3>2. CASE onchain' = [onchain EXCEPT !.flag = FALSE]
      BY ZenonT(30), <3>2 DEF BooksTyped
    <3> QED  BY Zenon, <1>16, <3>1, <3>2 DEF Peer
  <2> QED  BY <1>16, <2>1 DEF Peer, BooksTyped
<1>17. CASE Recover
  BY <1>17 DEF Recover
<1> QED  BY ZenonT(30), <1>1, <1>2, <1>3, <1>4, <1>5, <1>6, <1>7, <1>8, <1>9, <1>10, <1>11, <1>12, <1>13, <1>14,
           <1>15, <1>16, <1>17 DEF DriveNext, Step

\* A slash that the raised flag allows is far from the node's earlier ones, and one
\* that is not its own leaves what the node looked at as it was
LEMMA StrikeApart ==
  ASSUME DriveInv, NEW prop, onchain.flag, onchain' = Strike(prop), UNCHANGED block
  PROVE  /\ OwnSlashOnce' /\ ~onchain'.flag
         /\ prop = None /\ Clean => Clean'
<1> DEFINE x == [at |-> block, own |-> prop]
<1>0. DriveTyped /\ OwnSlashOnce /\ Clean
  BY Zenon DEF DriveInv, SlashInv
<1>1. onchain'.flag = FALSE /\ onchain'.executions = onchain.executions \union {x}
  BY ZenonT(30), <1>0, Struck
<1>2. block \in Nat /\ Lookback \in Nat /\ \A e \in onchain.executions : e.at \in Nat
  BY Zenon, <1>0, DriveAssumption DEF DriveTyped
<1>3. x.at = block
  BY ZenonT(30)
<1>4. \A e \in onchain.executions : e.own # None => x.at - e.at > Lookback
  BY <1>0, <1>2, <1>3 DEF Clean
<1>5. prop = None => x.own = None
  BY ZenonT(30)
<1> HIDE DEF x
<1>6. OwnSlashOnce'
  BY ZenonT(30), <1>0, <1>1, <1>4 DEF OwnSlashOnce
<1>7. prop = None => Clean'
  BY SMTT(30), <1>0, <1>1, <1>5 DEF Clean
<1> QED  BY Zenon, <1>1, <1>6, <1>7

\* Every step keeps an own slash out of the lookback while the flag may still be
\* raised or is up (assessSlashState before queueSlashWithProof)
LEMMA SlashKept == ASSUME DriveInv, DriveNext PROVE SlashInv'
<1> USE DriveAssumption DEF DriveInv, SlashInv, OwnSlashOnce, Clean, Executes, None
<1>0. DriveTyped'
  BY ZenonT(30), DriveTypedKept
<1>1. CASE Detect
  BY Zenon, <1>0, <1>1 DEF Detect, env, IdleLoc, DriveTyped
<1>2. CASE Put
  BY Zenon, <1>0, <1>2 DEF Put, env, Idle, IdleLoc, DriveTyped
<1>3. CASE Gate
  BY ZenonT(30), <1>0, <1>3 DEF Gate, env, DriveTyped
<1>4. CASE Scan
  <2>1. UNCHANGED <<onchain, block, mode>> /\ stage' \in {"pending", "final"}
    BY ZenonT(30), <1>4 DEF Scan, env
  <2>2. CASE stage' = "final"
    BY ZenonT(30), <2>1, <2>2
  <2>3. CASE stage' = "pending"
    <3>1. ~RecentExecution \/ loc'.indet
      BY ZenonT(30), <1>4, <2>3 DEF Scan, DriveTyped
    <3>2. ~RecentExecution => Clean
      BY DEF RecentExecution, DriveTyped
    <3> QED  BY ZenonT(30), <2>1, <2>3, <3>1, <3>2
  <2> QED  BY ZenonT(30), <2>1, <2>2, <2>3
<1>5. CASE Pending
  BY Zenon, <1>0, <1>5 DEF Pending, env, Blocked, DriveTyped
<1>6. CASE Begin
  BY Zenon, <1>0, <1>6 DEF Begin, env, DriveTyped
<1>7. CASE Queue
  BY ZenonT(30), <1>0, <1>7, Raised DEF Queue, env, DriveTyped
<1>8. CASE Create
  BY Zenon, <1>0, <1>8 DEF Create, env, Filed, DriveTyped
<1>9. CASE Execute
  <2>1. stage' = "record" /\ UNCHANGED block
    BY Zenon, <1>9 DEF Execute, env
  <2>2. CASE onchain' = onchain
    BY ZenonT(30), <2>1, <2>2
  <2>3. CASE onchain.flag /\ onchain' = Strike(loc.prop)
    BY ZenonT(30), <2>1, <2>3, StrikeApart
  <2> QED  BY Zenon, <1>9, <2>2, <2>3 DEF Execute
<1>10. CASE Record
  BY ZenonT(30), <1>0, <1>10 DEF Record, env, DriveTyped
<1>11. CASE Final
  BY ZenonT(30), <1>0, <1>11 DEF Final, env, Idle, IdleLoc, DriveTyped
<1>12. CASE Healthy
  BY Zenon, <1>0, <1>12 DEF Healthy, env, DriveTyped
<1>13. CASE CooldownEnds
  BY Zenon, <1>0, <1>13 DEF CooldownEnds, env, DriveTyped
<1>14. ASSUME NEW m \in Modes, Reboot(m) PROVE SlashInv'
  BY ZenonT(30), <1>0, <1>14, Fresh DEF Reboot, env, Idle, DriveTyped
<1>15. CASE NewBlock
  <2>1. UNCHANGED <<onchain, stage, loc, mode>> /\ block' = block + 1
    BY ZenonT(30), <1>15 DEF NewBlock
  <2>2. \A e \in onchain.executions : e.at \in Nat /\ (e.at < block - Lookback => e.at < block' - Lookback)
    BY SMTT(30), <2>1 DEF DriveTyped
  <2>3. Clean => Clean'
    BY ZenonT(30), <2>1, <2>2
  <2>4. OwnSlashOnce'
    BY Zenon, <2>1
  <2> HIDE DEF Clean, OwnSlashOnce
  <2> QED  BY Zenon, <2>1, <2>3, <2>4
<1>16. CASE Peer
  <2>1. UNCHANGED <<stage, block, loc, mode>>
    BY Zenon, <1>16 DEF Peer
  <2>2. CASE ~RecentExecution /\ onchain' = Raise(block)
    <3>1. Clean
      BY SMTT(30), <2>2 DEF RecentExecution, DriveTyped
    <3> QED  BY ZenonT(30), <2>1, <2>2, <3>1, Raised
  <2>3. CASE onchain.flag /\ onchain' = Strike(None)
    BY ZenonT(30), <2>1, <2>3, StrikeApart
  <2>4. CASE onchain' = [onchain EXCEPT !.flag = FALSE]
    BY Zenon, <2>1, <2>4 DEF DriveTyped
  <2> QED  BY Zenon, <1>16, <2>2, <2>3, <2>4 DEF Peer
<1>17. CASE Recover
  BY ZenonT(30), <1>0, <1>17 DEF Recover, DriveTyped
<1> QED  BY ZenonT(30), <1>1, <1>2, <1>3, <1>4, <1>5, <1>6, <1>7, <1>8, <1>9, <1>10, <1>11, <1>12, <1>13,
           <1>14, <1>15, <1>16, <1>17 DEF DriveNext, Step

\* A restart allows for one proposal more, and so does each new violation
LEMMA BudgetMoves ==
  ASSUME DriveTyped
  PROVE  /\ Budget \in Int
         /\ crashes' = crashes + 1 /\ UNCHANGED <<bad, recoveries>> => Budget' = Budget + 1
         /\ bad /\ ~bad' /\ recoveries' = recoveries + 1 /\ UNCHANGED crashes => Budget' = Budget
         /\ ~bad /\ bad' /\ UNCHANGED <<crashes, recoveries>> => Budget' = Budget + 1
<1>1. crashes \in Nat /\ recoveries \in Nat
  BY Zenon DEF DriveTyped
<1> QED  BY <1>1 DEF Budget

\* At most one proposal is in hand beyond those accounted for
LEMMA OneInHand ==
  ASSUME DriveInv
  PROVE  /\ flagFiled \in Nat /\ recoveries \in Nat /\ Budget \in Int
         /\ flagFiled <= Budget + 1 /\ (bad \/ recoveries >= 1)
<1>1. DriveTyped /\ FiledInv
  BY ZenonT(30) DEF DriveInv
<1>2. flagFiled \in Nat /\ recoveries \in Nat /\ Budget \in Int
  BY Zenon, <1>1, BudgetMoves DEF DriveTyped
<1> QED  BY <1>1, <1>2 DEF FiledInv

\* A restart forgets the proposal in hand, and is allowed another (pendingProposalIds)
LEMMA RebootFiles ==
  ASSUME DriveInv, NEW m \in Modes, Reboot(m)
  PROVE  FiledInv'
<1>1. UNCHANGED <<bad, flagFiled, recoveries>> /\ crashes' = crashes + 1
  BY Zenon DEF Reboot, env
<1>2. Budget' = Budget + 1
  BY Zenon, <1>1, BudgetMoves DEF DriveInv
<1> QED  BY Zenon, <1>1, <1>2, OneInHand DEF FiledInv

\* A recovery keeps the allowance, and the next violation raises it
LEMMA RecoverFiles ==
  ASSUME DriveInv, Recover
  PROVE  FiledInv'
<1>0. DriveTyped /\ FiledInv
  BY Zenon DEF DriveInv
<1>1. UNCHANGED <<mode, stage, loc, mem, flagFiled, crashes>>
  BY Zenon DEF Recover
<1>2. CASE bad
  <2>1. ~bad' /\ recoveries' = recoveries + 1
    BY ZenonT(30), <1>2 DEF Recover
  <2>2. Budget' = Budget /\ recoveries' >= 1
    BY <1>0, <1>1, <1>2, <2>1, BudgetMoves, OneInHand
  <2>3. Holds' = Holds
    BY Zenon, <1>1 DEF Holds
  <2>4. flagFiled <= Budget \/ (mode = "armed" /\ flagFiled <= Budget + 1 /\ Holds)
    BY ZenonT(30), <1>0, <1>2 DEF FiledInv
  <2> QED  BY Zenon, <1>1, <2>1, <2>2, <2>3, <2>4 DEF FiledInv
<1>3. CASE ~bad
  <2>1. bad' /\ recoveries' = recoveries
    BY ZenonT(30), <1>3 DEF Recover
  <2>2. Budget' = Budget + 1
    BY <1>0, <1>1, <1>3, <2>1, BudgetMoves
  <2> QED  BY Zenon, <1>1, <2>1, <2>2, OneInHand DEF FiledInv
<1> QED  BY Zenon, <1>2, <1>3

\* Every step keeps the proposals within what restarts and recoveries account for
\* (pendingProposalIds, and the archived proposal that a resume carries on)
LEMMA FiledKept == ASSUME DriveInv, DriveNext PROVE FiledInv'
<1> USE DriveAssumption DEF DriveInv, FiledInv, AttemptInv, Budget, Holds, Executes, None
<1>0. DriveTyped'
  BY ZenonT(30), DriveTypedKept
<1>1. CASE Detect
  BY Zenon, <1>0, <1>1 DEF Detect, env, IdleLoc, DriveTyped
<1>2. CASE Put
  BY Zenon, <1>0, <1>2 DEF Put, env, Idle, IdleLoc, DriveTyped
<1>3. CASE Gate
  BY Zenon, <1>0, <1>3 DEF Gate, env, DriveTyped
<1>4. CASE Scan
  BY ZenonT(30), <1>0, <1>4 DEF Scan, env, Slashed, RecentExecution, DriveTyped
<1>5. CASE Pending
  BY <1>0, <1>5 DEF Pending, env, Blocked, DriveTyped
<1>6. CASE Begin
  BY Zenon, <1>0, <1>6 DEF Begin, env, DriveTyped
<1>7. CASE Queue
  BY <1>0, <1>7, Raised DEF Queue, env, DryRun, DriveTyped
<1>8. CASE Create
  BY <1>0, <1>8 DEF Create, env, Filed, DryRun, DriveTyped
<1>9. CASE Execute
  BY Zenon, <1>0, <1>9, Struck DEF Execute, env, DriveTyped
<1>10. CASE Record
  BY ZenonT(30), <1>0, <1>10 DEF Record, env, DryRun, DriveTyped
<1>11. CASE Final
  BY ZenonT(30), <1>0, <1>11 DEF Final, env, Idle, IdleLoc, DriveTyped
<1>12. CASE Healthy
  BY Zenon, <1>0, <1>12 DEF Healthy, env, DriveTyped
<1>13. CASE CooldownEnds
  BY Zenon, <1>0, <1>13 DEF CooldownEnds, env, DriveTyped
<1>14. ASSUME NEW m \in Modes, Reboot(m) PROVE FiledInv'
  <2> HIDE DEF DriveInv, FiledInv
  <2> QED  BY Zenon, <1>14, RebootFiles
<1>15. CASE NewBlock
  BY ZenonT(30), <1>0, <1>15 DEF NewBlock, DriveTyped
<1>16. CASE Peer
  BY <1>0, <1>16, Raised, Struck DEF Peer, RecentExecution, DriveTyped
<1>17. CASE Recover
  <2> HIDE DEF DriveInv, FiledInv
  <2> QED  BY Zenon, <1>17, RecoverFiles
<1> QED  BY ZenonT(30), <1>1, <1>2, <1>3, <1>4, <1>5, <1>6, <1>7, <1>8, <1>9, <1>10, <1>11, <1>12, <1>13,
           <1>14, <1>15, <1>16, <1>17 DEF DriveNext, Step

\* Every step keeps what the attempt knows (handleViolation, coordinateQuorumCoSign)
LEMMA AttemptKept == ASSUME DriveInv, DriveNext PROVE AttemptInv'
<1> USE DriveAssumption DEF DriveInv, AttemptInv, Executes, None
<1>0. DriveTyped'
  BY ZenonT(30), DriveTypedKept
<1>1. CASE Detect
  BY Zenon, <1>0, <1>1 DEF Detect, env, IdleLoc, DriveTyped
<1>2. CASE Put
  BY <1>0, <1>2 DEF Put, env, Idle, IdleLoc, DriveTyped
<1>3. CASE Gate
  BY Zenon, <1>0, <1>3 DEF Gate, env, DriveTyped
<1>4. CASE Scan
  BY ZenonT(30), <1>0, <1>4 DEF Scan, env, Slashed, RecentExecution, DriveTyped
<1>5. CASE Pending
  BY ZenonT(30), <1>0, <1>5 DEF Pending, env, Blocked, SlashPending, DriveTyped
<1>6. CASE Begin
  BY ZenonT(30), <1>0, <1>6 DEF Begin, env, Carried, DriveTyped
<1>7. CASE Queue
  BY Zenon, <1>0, <1>7, Raised DEF Queue, env, DryRun, DriveTyped
<1>8. CASE Create
  BY Zenon, <1>0, <1>8 DEF Create, env, Filed, DryRun, DriveTyped
<1>9. CASE Execute
  BY ZenonT(30), <1>0, <1>9, Struck DEF Execute, env, DriveTyped
<1>10. CASE Record
  BY ZenonT(30), <1>0, <1>10 DEF Record, env, DryRun, DriveTyped
<1>11. CASE Final
  BY ZenonT(30), <1>0, <1>11 DEF Final, env, Idle, IdleLoc, DriveTyped
<1>12. CASE Healthy
  BY Zenon, <1>0, <1>12 DEF Healthy, env, DriveTyped
<1>13. CASE CooldownEnds
  BY ZenonT(30), <1>0, <1>13 DEF CooldownEnds, env, DriveTyped
<1>14. ASSUME NEW m \in Modes, Reboot(m) PROVE AttemptInv'
  BY ZenonT(30), <1>0, <1>14, Fresh DEF Reboot, env, Idle, DriveTyped
<1>15. CASE NewBlock
  BY ZenonT(30), <1>0, <1>15 DEF NewBlock, DriveTyped
<1>16. CASE Peer
  BY ZenonT(30), <1>0, <1>16, Raised, Struck DEF Peer, RecentExecution, DriveTyped
<1>17. CASE Recover
  BY ZenonT(30), <1>0, <1>17 DEF Recover, DriveTyped
<1> QED  BY ZenonT(30), <1>1, <1>2, <1>3, <1>4, <1>5, <1>6, <1>7, <1>8, <1>9, <1>10, <1>11, <1>12, <1>13,
           <1>14, <1>15, <1>16, <1>17 DEF DriveNext, Step

\* In any mode and whatever fails, stops, restarts or is done by others in between,
\* the node does not slash an operator twice within the lookback, and pays for one
\* proposal per raised flag, restart and recovery (audit.service.ts: handleViolation,
\* assessSlashState, coordinateQuorumCoSign)
THEOREM SlashPaidOnceHolds == DriveSpec => []SlashPaidOnce
<1>1. DriveInv /\ [DriveNext]_driveVars => DriveInv'
  <2>1. ASSUME DriveInv, DriveNext PROVE DriveInv'
    BY Zenon, <2>1, DriveTypedKept, SlashKept, FiledKept, AttemptKept DEF DriveInv
  <2>2. ASSUME DriveInv, UNCHANGED driveVars PROVE DriveInv'
    <3>1. DriveTyped'
      BY ZenonT(30), <2>2 DEF driveVars, DriveInv, DriveTyped
    <3>2. SlashInv'
      BY ZenonT(30), <2>2 DEF driveVars, DriveInv, SlashInv, Executes, OwnSlashOnce, Clean
    <3>3. FiledInv'
      BY ZenonT(30), <2>2 DEF driveVars, DriveInv, FiledInv, Budget, Holds
    <3>4. AttemptInv'
      BY ZenonT(30), <2>2 DEF driveVars, DriveInv, AttemptInv, Executes
    <3> QED  BY ZenonT(30), <3>1, <3>2, <3>3, <3>4 DEF DriveInv
  <2> QED  BY Zenon, <2>1, <2>2
<1>2. DriveInv => SlashPaidOnce
  BY DEF DriveInv, DriveTyped, SlashInv, FiledInv, Budget, SlashPaidOnce, ProposalsBounded
<1> QED  BY DriveStart, <1>1, <1>2, PTL DEF DriveSpec
================================================================================
