------------------------------ MODULE OfflineAudit ------------------------------
(***************************************************************************)
(* Rule "offline" of one auditing node: the authenticated heartbeat ledger *)
(* of GossipService and the sweep of AuditService that reads it.           *)
(*                                                                         *)
(* Time is counted in one unit; now is the chain's time, every machine's   *)
(* clock is off by a constant.  A block is identified by its timestamp.    *)
(* The handlers share one event loop: an action is the code between two    *)
(* awaits.  Heartbeats that fail authentication change nothing and are     *)
(* left out; one dropped by the verification budget counts as lost.        *)
(***************************************************************************)
EXTENDS Integers, FiniteSets

CONSTANTS
  Operators,
  NodeIds,              \* keccak256 of the BLS keys
  NoNode,               \* the operator has no active key
  Keys,                 \* operator -> the nodes whose key it may register, perhaps NoNode
  watchlist,            \* AUDIT_WATCHLIST
  Members,              \* operators that may hold an audited role
  OFFLINE_THRESHOLD_MS,
  MAX_HEARTBEAT_SKEW_MS,
  MAX_LIVENESS_LEDGER,
  FinalityLag,          \* a finalized block is at least this old
  ClockOf,              \* node -> how far its clock is ahead of the chain
  Offsets,              \* how far the auditor's clock may be ahead of the chain
  Start, MaxNow,        \* bound the time
  MaxVerifying          \* bounds the verifications in flight

ASSUME OfflineAssumption ==
  /\ NoNode \notin NodeIds
  /\ Keys \in [Operators -> SUBSET (NodeIds \cup {NoNode})]
  /\ watchlist \subseteq Operators
  /\ Members \subseteq Operators
  /\ OFFLINE_THRESHOLD_MS \in Nat
  /\ MAX_HEARTBEAT_SKEW_MS \in Nat
  /\ MAX_LIVENESS_LEDGER \in Nat
  /\ FinalityLag \in Nat
  /\ ClockOf \in [NodeIds -> Int]
  /\ Offsets \subseteq Int
  /\ Start \in Nat

VARIABLES
  now, offset,          \* the chain's time; the error of the auditor's clock
  nodeOf,               \* BLSAggregator: operator -> its active node
  relevantNodeIds, lastSeenLedger,
  verifying,            \* handlers that await verifyHeartbeatAuth
  heard,                \* history: node -> the latest heartbeat that was handled
  derivedOperators, offlineNodeIdCache,
  phase, todo, pinnedBlock,   \* the tick in flight
  reading,              \* operators whose audit awaits the block's timestamp
  accused               \* operators this tick handed to handleViolation

worldVars == <<now, offset, nodeOf>>
gossipVars == <<relevantNodeIds, lastSeenLedger, verifying, heard>>
auditVars == <<derivedOperators, offlineNodeIdCache, phase, todo, pinnedBlock,
               reading, accused>>
vars == <<worldVars, gossipVars, auditVars>>

\* A node signs its heartbeat with its clock (sendHeartbeat) and sends one
\* whenever it likes; it is delayed, lost, duplicated or overtaken at will: any
\* heartbeat of the past may arrive now
Heartbeats == [node : NodeIds, at : Nat]
Arriving == [node : NodeIds, at : Start..now]

\* The clock the node reads, and the time a heartbeat is signed with
Clock == now + offset
authTs(h) == h.at + ClockOf[h.node]

Lesser(x, y) == IF x <= y THEN x ELSE y
Greater(x, y) == IF x >= y THEN x ELSE y

NoReading == [op |-> NoNode, node |-> NoNode, seen |-> 0, heard |-> 0]

\* What a process starts with
MemoryInit ==
  /\ relevantNodeIds = {}
  /\ lastSeenLedger = [n \in {} |-> [authTs |-> 0, seen |-> 0]]
  /\ verifying = {}
  /\ heard = [n \in NodeIds |-> 0]
  /\ derivedOperators = {}
  /\ offlineNodeIdCache = [op \in Operators |-> NoNode]
  /\ phase = "idle"
  /\ todo = {}
  /\ pinnedBlock = 0
  /\ reading = NoReading
  /\ accused = {}

\* No operator shares its key with another
Distinct(keys) ==
  \A a, b \in Operators : keys[a] = keys[b] /\ keys[a] # NoNode => a = b

Init ==
  /\ now = Start
  /\ offset \in Offsets
  /\ nodeOf \in {keys \in [Operators -> NodeIds \cup {NoNode}] :
                  Distinct(keys) /\ \A op \in Operators : keys[op] \in Keys[op]}
  /\ MemoryInit

--------------------------------------------------------------------------------
(* The chain and the clocks. *)

Elapse ==
  /\ now < MaxNow
  /\ now' = now + 1
  /\ UNCHANGED <<offset, nodeOf, gossipVars, auditVars>>

\* An operator is given, loses or rotates its key
SetKey(op, n) ==
  /\ n \in Keys[op] \ {nodeOf[op]}
  /\ Distinct([nodeOf EXCEPT ![op] = n])
  /\ nodeOf' = [nodeOf EXCEPT ![op] = n]
  /\ UNCHANGED <<now, offset, gossipVars, auditVars>>

--------------------------------------------------------------------------------
(* GossipService: the ledger of authenticated heartbeats. *)

Known(n) == n \in DOMAIN lastSeenLedger

\* The cheap gates before verifyHeartbeatAuth
FutureDated(h) == authTs(h) > Clock + MAX_HEARTBEAT_SKEW_MS

Stale(h) == Known(h.node) /\ authTs(h) <= lastSeenLedger[h.node].authTs

LedgerFull(n) == ~Known(n) /\ Cardinality(DOMAIN lastSeenLedger) >= MAX_LIVENESS_LEDGER

Hear(h) == heard' = [heard EXCEPT ![h.node] = Greater(@, h.at)]

\* What will be recorded: the signed time, or the time of receipt if that is
\* earlier
SeenAt(h) == Lesser(authTs(h), Clock)

HandleHeartbeat(h) ==
  /\ \/ /\ authTs(h) <= 0 \/ h.node \notin relevantNodeIds
        /\ UNCHANGED <<verifying, heard>>
     \/ /\ authTs(h) > 0
        /\ h.node \in relevantNodeIds
        /\ FutureDated(h) \/ Stale(h)
        /\ Hear(h)
        /\ UNCHANGED verifying
     \/ /\ authTs(h) > 0
        /\ h.node \in relevantNodeIds
        /\ ~FutureDated(h) /\ ~Stale(h) /\ LedgerFull(h.node)
        /\ UNCHANGED <<verifying, heard>>
     \/ /\ authTs(h) > 0
        /\ h.node \in relevantNodeIds
        /\ ~FutureDated(h) /\ ~Stale(h) /\ ~LedgerFull(h.node)
        /\ Cardinality(verifying) < MaxVerifying
        /\ verifying' = verifying \cup {[beat |-> h, seen |-> SeenAt(h)]}
        /\ UNCHANGED heard
  /\ UNCHANGED <<worldVars, relevantNodeIds, lastSeenLedger, auditVars>>

\* The ledger with an entry for n
Recorded(n, entry) ==
  [x \in DOMAIN lastSeenLedger \cup {n} |-> IF x = n THEN entry ELSE lastSeenLedger[x]]

\* Mutant: the gates passed before the verification are not repeated
Accepts(h) == TRUE

\* recordLiveness repeats the gates: the ledger and the audited set may have
\* changed during the verification
StillAccepted(h) ==
  /\ h.node \in relevantNodeIds
  /\ ~Stale(h)
  /\ ~LedgerFull(h.node)

RecordLiveness(v) ==
  /\ v \in verifying
  /\ verifying' = verifying \ {v}
  /\ lastSeenLedger' =
       IF StillAccepted(v.beat)
       THEN Recorded(v.beat.node, [authTs |-> authTs(v.beat), seen |-> v.seen])
       ELSE lastSeenLedger
  /\ IF v.beat.node \in relevantNodeIds /\ ~LedgerFull(v.beat.node)
     THEN Hear(v.beat) ELSE UNCHANGED heard
  /\ UNCHANGED <<worldVars, relevantNodeIds, auditVars>>

\* setRelevantNodeIds: entries of nodes that are no longer audited are dropped
SetRelevantNodeIds(next) ==
  /\ relevantNodeIds' = next
  /\ lastSeenLedger' = [n \in DOMAIN lastSeenLedger \cap next |-> lastSeenLedger[n]]
  /\ heard' = [n \in NodeIds |-> IF n \in relevantNodeIds \cap next
                                 THEN heard[n] ELSE 0]
  /\ UNCHANGED verifying

--------------------------------------------------------------------------------
(* AuditService: one sweep over the audited operators. *)

Tick(p) == phase = p /\ UNCHANGED <<worldVars>>

\* The sweep takes the operators in the order of the list
NextUp(op) == todo # {} /\ op = CHOOSE x \in todo : TRUE

effectiveWatchlist == watchlist \cup derivedOperators'

\* getViolationBlock: a finalized block
ViolationBlock(b) == b <= now - FinalityLag

\* A finalized block is resolved first, perhaps not the latest; the derived set
\* is refreshed, or kept when the refresh is throttled or fails: it may be any
\* set; operators that left the watch list leave the cache
BeginTick(b) ==
  /\ Tick("idle")
  /\ ViolationBlock(b)
  /\ pinnedBlock' = b
  /\ derivedOperators' \in SUBSET Members
  /\ phase' = "resolve"
  /\ todo' = effectiveWatchlist
  /\ offlineNodeIdCache' = [op \in Operators |->
                              IF op \in effectiveWatchlist
                              THEN offlineNodeIdCache[op] ELSE NoNode]
  /\ accused' = {}
  /\ UNCHANGED <<gossipVars, reading>>

\* getOperatorNodeId answers: the node, or that there is none
ResolveNodeId(op) ==
  /\ Tick("resolve")
  /\ NextUp(op)
  /\ todo' = todo \ {op}
  /\ offlineNodeIdCache' = [offlineNodeIdCache EXCEPT ![op] = nodeOf[op]]
  /\ UNCHANGED <<gossipVars, derivedOperators, phase, pinnedBlock, reading, accused>>

\* The call fails: the last known node is kept
ResolveFails(op) ==
  /\ Tick("resolve")
  /\ NextUp(op)
  /\ todo' = todo \ {op}
  /\ UNCHANGED <<gossipVars, derivedOperators, offlineNodeIdCache, phase, pinnedBlock,
                 reading, accused>>

PushRelevant ==
  /\ Tick("resolve")
  /\ todo = {}
  /\ SetRelevantNodeIds({offlineNodeIdCache[op] : op \in Operators} \ {NoNode})
  /\ phase' = "sweep"
  /\ todo' = watchlist \cup derivedOperators
  /\ UNCHANGED <<derivedOperators, offlineNodeIdCache, pinnedBlock, reading, accused>>

\* auditOfflineForOperator up to its await: without a cached node the chain is
\* asked again; an operator without a node, or never heard of, is skipped
ReadLastSeen(op, node) ==
  /\ Tick("sweep")
  /\ reading = NoReading
  /\ NextUp(op)
  /\ todo' = todo \ {op}
  /\ node = IF offlineNodeIdCache[op] # NoNode THEN offlineNodeIdCache[op] ELSE nodeOf[op]
  /\ reading' = IF node # NoNode /\ Known(node)
                THEN [op |-> op, node |-> node, seen |-> lastSeenLedger[node].seen,
                      heard |-> heard[node]]
                ELSE NoReading
  /\ UNCHANGED <<gossipVars, derivedOperators, offlineNodeIdCache, phase, pinnedBlock,
                 accused>>

\* The chain cannot be asked for the node, or for the block's timestamp
OperatorSkipped ==
  /\ Tick("sweep")
  /\ \/ /\ reading # NoReading
        /\ reading' = NoReading
        /\ UNCHANGED todo
     \/ /\ reading = NoReading
        /\ UNCHANGED reading
        /\ \E op \in todo :
             /\ NextUp(op) /\ offlineNodeIdCache[op] = NoNode
             /\ todo' = todo \ {op}
  /\ UNCHANGED <<gossipVars, derivedOperators, offlineNodeIdCache, phase, pinnedBlock,
                 accused>>

deadlineMs == pinnedBlock - OFFLINE_THRESHOLD_MS

\* Mutant: the clock is not compared with the block
ClockTrusted == TRUE

\* CLOCK-SANITY: a clock behind a finalized block is not trusted
ClockSane == Clock >= pinnedBlock

\* The timestamp is known: with a sane clock, an operator last seen before the
\* deadline is handed to handleViolation
DecideOffline ==
  /\ Tick("sweep")
  /\ reading # NoReading
  /\ reading' = NoReading
  /\ accused' = IF ClockSane /\ reading.seen < deadlineMs
                THEN accused \cup {reading.op} ELSE accused
  /\ UNCHANGED <<gossipVars, derivedOperators, offlineNodeIdCache, phase, todo, pinnedBlock>>

\* Mutant: tickInFlight is not reset
EndTickHeld ==
  /\ Tick("sweep")
  /\ todo = {} /\ reading = NoReading
  /\ UNCHANGED <<gossipVars, auditVars>>

EndTick ==
  /\ Tick("sweep")
  /\ todo = {} /\ reading = NoReading
  /\ phase' = "idle"
  /\ pinnedBlock' = 0
  /\ UNCHANGED <<gossipVars, derivedOperators, offlineNodeIdCache, todo, reading, accused>>

\* The process restarts: ledger and caches are in memory only
Restart ==
  /\ relevantNodeIds' = {}
  /\ lastSeenLedger' = [n \in {} |-> [authTs |-> 0, seen |-> 0]]
  /\ verifying' = {}
  /\ heard' = [n \in NodeIds |-> 0]
  /\ derivedOperators' = {}
  /\ offlineNodeIdCache' = [op \in Operators |-> NoNode]
  /\ phase' = "idle"
  /\ todo' = {}
  /\ pinnedBlock' = 0
  /\ reading' = NoReading
  /\ accused' = {}
  /\ UNCHANGED worldVars

--------------------------------------------------------------------------------
WorldNext ==
  \/ Elapse
  \/ \E op \in Operators, n \in NodeIds \cup {NoNode} : SetKey(op, n)

GossipNext ==
  \/ \E h \in Arriving : HandleHeartbeat(h)
  \/ \E v \in verifying : RecordLiveness(v)

AuditNext ==
  \/ \E b \in Start..MaxNow : BeginTick(b)
  \/ \E op \in Operators : ResolveNodeId(op) \/ ResolveFails(op)
  \/ PushRelevant
  \/ \E op \in Operators, node \in NodeIds \cup {NoNode} : ReadLastSeen(op, node)
  \/ OperatorSkipped
  \/ DecideOffline
  \/ EndTick

Next == WorldNext \/ GossipNext \/ AuditNext \/ Restart

\* The interval timer keeps firing, the chain keeps finalizing, and a call to it
\* answers or fails; it does not fail for ever
Fairness ==
  /\ SF_vars(BeginTick(now - FinalityLag))
  /\ \A op \in Operators : WF_vars(ResolveNodeId(op) \/ ResolveFails(op))
  /\ WF_vars(PushRelevant)
  /\ \A op \in Operators : WF_vars(\E node \in NodeIds \cup {NoNode} : ReadLastSeen(op, node))
  /\ WF_vars(DecideOffline \/ OperatorSkipped)
  /\ \A op \in Operators :
       SF_vars(DecideOffline /\ reading.op = op /\ pinnedBlock = now - FinalityLag)
  /\ WF_vars(EndTick)

Spec == Init /\ [][Next]_vars /\ Fairness

--------------------------------------------------------------------------------
(* Properties. *)

OfflineTypeOK ==
  /\ now \in Nat /\ offset \in Int
  /\ pinnedBlock \in Nat /\ (phase # "idle" => pinnedBlock <= now - FinalityLag)
  /\ nodeOf \in [Operators -> NodeIds \cup {NoNode}]
  /\ relevantNodeIds \subseteq NodeIds
  /\ DOMAIN lastSeenLedger \subseteq NodeIds
  /\ \A n \in DOMAIN lastSeenLedger : lastSeenLedger[n] \in [authTs : Int, seen : Int]
  /\ verifying \subseteq [beat : Heartbeats, seen : Int]
  /\ heard \in [NodeIds -> Nat]
  /\ derivedOperators \subseteq Members
  /\ offlineNodeIdCache \in [Operators -> NodeIds \cup {NoNode}]
  /\ phase \in {"idle", "resolve", "sweep"}
  /\ todo \subseteq Operators
  /\ reading = NoReading \/ reading \in [op : Operators, node : NodeIds, seen : Int, heard : Nat]
  /\ accused \subseteq Operators

\* The ledger holds only nodes the auditor asked for, and no more than its cap,
\* whatever verifications were in flight when the audited set changed
\* (recordLiveness: "re-check relevance (async verify race)")
LedgerWithinRelevant ==
  /\ DOMAIN lastSeenLedger \subseteq relevantNodeIds
  /\ Cardinality(DOMAIN lastSeenLedger) <= MAX_LIVENESS_LEDGER

\* The node's clock lags by no more than the finality lag, and is ahead of the
\* auditor's by no more than MAX_HEARTBEAT_SKEW_MS.  The auditor's own error is
\* otherwise arbitrary
ClockClose(n) ==
  /\ -FinalityLag <= ClockOf[n]
  /\ ClockOf[n] - offset <= MAX_HEARTBEAT_SKEW_MS

\* Nobody is accused whose node, with a clock close enough, sent a heartbeat
\* within the threshold that the auditor handled: reordered, duplicated and
\* delayed heartbeats, concurrent verifications, a wrong clock of the auditor and
\* a late evidence block included (auditOfflineForOperator: "never fabricate an
\* offline violation")
HeardNotAccused ==
  [][\A op \in Operators :
       op \in accused' \ accused /\ ClockClose(reading.node)
         => now - reading.heard > OFFLINE_THRESHOLD_MS]_vars

\* An operator that stays audited and silent is reported again and again
SilentReported ==
  \A op \in Operators : \A n \in Keys[op] \ {NoNode} :
    <>[](/\ op \in watchlist \cup derivedOperators
         /\ nodeOf[op] = n
         /\ Known(n)
         /\ lastSeenLedger[n].seen < now - FinalityLag - OFFLINE_THRESHOLD_MS
         /\ Clock >= now - FinalityLag)
      => []<>(op \in accused)
================================================================================
