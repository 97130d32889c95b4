--------------------------------- MODULE CoSign ---------------------------------
(***************************************************************************)
(* The slash quorum: GossipQuorumCoSigner.coSign on the requesting node,   *)
(* GossipService's collector of co-sign responses, verifyAndSign on the    *)
(* responding ones.  A call of coSign collects responses over gossip,      *)
(* validates each asynchronously (signature, then the key registered       *)
(* on-chain at the claimed slot, remembered in the call's keyCache), and   *)
(* re-validates what it collected before it aggregates.  A response is the *)
(* connection it came on, the signer and the slot it claims, whether its   *)
(* signature is the signer's over the call's message, and whether all of   *)
(* it verifies (the message hash and the public key sent along included).  *)
(* A peer in Faulty may answer anything it can sign or has seen signed.    *)
(***************************************************************************)
EXTENDS Integers, FiniteSets

CONSTANTS
  Peers, Self,      \* nodes; each is also the connection to it and its key
  Calls,            \* coSign calls, one requestId each
  slotOf,           \* node -> its validator slot
  Confirms,         \* honest nodes whose own chain read confirms the violation
  Faulty,           \* peers that may answer anything
  Threshold,        \* thresholdFor(slashLevel)
  perConnCap, maxValidations,
  FaultyMax,        \* bound: a faulty peer answers while fewer responses were seen
  Churn             \* slots that the chain deactivates and reactivates

Nodes == Peers \cup {Self}
Slots == {slotOf[n] : n \in Nodes}

Response == [conn : Nodes, signer : Nodes, slot : Slots, sig : BOOLEAN, good : BOOLEAN]

\* What tells a resend: `${signerNodeId}|${slot}|${signatureCompact}`, without the
\* connection, the public key and the message hash
ExactKey(resp) == <<resp.signer, resp.slot, resp.sig>>

\* The response a node's verifyAndSign gives
OwnResponse(n) ==
  [conn |-> n, signer |-> n, slot |-> slotOf[n], sig |-> TRUE, good |-> TRUE]

\* What the chain said of a slot: the registered key, NoKey for an inactive one
NoKey  == "none"
Unread == "unread"

\* No two nodes share a slot
ASSUME CoSignAssumption ==
  /\ IsFiniteSet(Peers)
  /\ Faulty \subseteq Peers
  /\ \A m, n \in Nodes : slotOf[m] = slotOf[n] => m = n
  /\ {NoKey, Unread} \cap Nodes = {}
  /\ Threshold \in Nat
  /\ perConnCap \in Nat \ {0}
  /\ maxValidations \in Nat

\* All connections together may start as many validations as each may alone (with
\* GossipService's defaults, 64 and 4: up to sixteen peers)
ASSUME CapsAssumption == perConnCap * Cardinality(Peers) <= maxValidations

VARIABLES
  active,      \* slots active on-chain
  knowsSlot,   \* nodes that have memoized their own slot
  call,        \* call -> the state of coSign and of its collector entry
  requests,    \* <<call, peer>>: cosign-request on its way
  replies,     \* <<call, response>>: cosign-response on its way
  checks,      \* <<call, response, "crypto" or "rpc">>: validations that await
  signedBy,    \* <<node, call>>: signatures over the call's message
  crowdedOut   \* <<call, connection>> of which a cap dropped a response

netVars == <<requests, replies>>
coSignVars == <<active, knowsSlot, call, netVars, checks, signedBy, crowdedOut>>

NoCall ==
  [pc        |-> "idle",
   validated |-> {},                        \* responses, one per slot
   seenExact |-> {},
   perConn   |-> [n \in Nodes |-> 0],
   started   |-> 0,
   keyCache  |-> [s \in Slots |-> Unread],
   toCheck   |-> {},                        \* responses coSign has yet to re-validate
   bySlot    |-> {}]                        \* slots counted

CoSignInit ==
  /\ active = Slots
  /\ knowsSlot = {}
  /\ call = [c \in Calls |-> NoCall]
  /\ requests = {}
  /\ replies = {}
  /\ checks = {}
  /\ signedBy = {}
  /\ crowdedOut = {}

--------------------------------------------------------------------------------
(* The chain. *)

KeyAt(s) == IF s \in active THEN CHOOSE n \in Nodes : slotOf[n] = s ELSE NoKey

SetActive(s) ==
  /\ s \in Churn
  /\ active' = IF s \in active THEN active \ {s} ELSE active \cup {s}
  /\ UNCHANGED <<knowsSlot, call, netVars, checks, signedBy, crowdedOut>>

--------------------------------------------------------------------------------
(* verifyAndSign. *)

\* resolveOwnSlot: a slot that was found once is memoized, a missing one is not
ResolvesOwnSlot(n) == n \in knowsSlot \/ slotOf[n] \in active

\* Every gate of verifyAndSign: the violation is confirmed at its block, and the
\* node finds its slot
WouldSign(n) == n \in Confirms /\ ResolvesOwnSlot(n)

\* coSign up to the broadcast: it contributes its own response and asks the peers
CoSignBegin(c) ==
  /\ call[c].pc = "idle"
  /\ WouldSign(Self)
  /\ knowsSlot' = knowsSlot \cup {Self}
  /\ signedBy' = signedBy \cup {<<Self, c>>}
  /\ IF Threshold - 1 <= 0
     THEN /\ call' = [call EXCEPT ![c].pc = "checking", ![c].toCheck = {OwnResponse(Self)}]
          /\ UNCHANGED requests
     ELSE /\ call' = [call EXCEPT ![c].pc = "collecting"]
          /\ requests' = requests \cup {<<c, p>> : p \in Peers}
  /\ UNCHANGED <<active, replies, checks, crowdedOut>>

\* A precondition or a read fails, or the node cannot confirm the violation
CoSignRefuse(c) ==
  /\ call[c].pc = "idle"
  /\ call' = [call EXCEPT ![c].pc = "thrown"]
  /\ UNCHANGED <<active, knowsSlot, netVars, checks, signedBy, crowdedOut>>

\* A peer signs and replies on the same connection
HandleCoSignRequest(c, p) ==
  /\ <<c, p>> \in requests
  /\ WouldSign(p)
  /\ knowsSlot' = knowsSlot \cup {p}
  /\ signedBy' = signedBy \cup {<<p, c>>}
  /\ requests' = requests \ {<<c, p>>}
  /\ replies' = replies \cup {<<c, OwnResponse(p)>>}
  /\ UNCHANGED <<active, call, checks, crowdedOut>>

\* The request is lost with its connection, or the peer refuses
RequestDropped(c, p) ==
  /\ <<c, p>> \in requests
  /\ requests' = requests \ {<<c, p>>}
  /\ UNCHANGED <<active, knowsSlot, call, replies, checks, signedBy, crowdedOut>>

\* A faulty peer answers: under its own key for any slot, with a signature or
\* without; or with a signature another node made for its slot (the message does
\* not depend on who asked), beside the right message hash or another.  Its
\* answers are read from its connection one after the other
FaultyReply(c, p, n, s, good) ==
  /\ p \in Faulty
  /\ n = p \/ (<<n, c>> \in signedBy /\ s = slotOf[n])
  /\ call[c].pc = "collecting"
  /\ \A x \in replies : x[2].conn # p
  /\ Cardinality(call[c].seenExact) < FaultyMax
  /\ LET resp == [conn |-> p, signer |-> n, slot |-> s, sig |-> good \/ n # p, good |-> good]
     IN  /\ ExactKey(resp) \notin call[c].seenExact
         /\ replies' = replies \cup {<<c, resp>>}
  /\ signedBy' = IF good THEN signedBy \cup {<<n, c>>} ELSE signedBy
  /\ UNCHANGED <<active, knowsSlot, call, requests, checks, crowdedOut>>

ReplyLost(x) ==
  /\ x \in replies
  /\ replies' = replies \ {x}
  /\ UNCHANGED <<active, knowsSlot, call, requests, checks, signedBy, crowdedOut>>

--------------------------------------------------------------------------------
(* handleCoSignResponse and countValidatedResponse. *)

\* Mutant: one count for all connections
CapsReachedShared(c, resp) ==
  call[c].started >= perConnCap \/ call[c].started >= maxValidations

CapsReached(c, resp) ==
  \/ call[c].perConn[resp.conn] >= perConnCap
  \/ call[c].started >= maxValidations

\* An answer to a call that is over is ignored, and so is one whose signer, slot and
\* signature were seen; the caps bound the validations started
HandleCoSignResponse(c, resp) ==
  /\ <<c, resp>> \in replies
  /\ replies' = replies \ {<<c, resp>>}
  /\ \/ /\ call[c].pc # "collecting" \/ ExactKey(resp) \in call[c].seenExact
        /\ UNCHANGED <<call, checks, crowdedOut>>
     \/ /\ call[c].pc = "collecting"
        /\ ExactKey(resp) \notin call[c].seenExact
        /\ CapsReached(c, resp)
        /\ call' = [call EXCEPT ![c].seenExact = @ \cup {ExactKey(resp)}]
        /\ crowdedOut' = crowdedOut \cup {<<c, resp.conn>>}
        /\ UNCHANGED checks
     \/ /\ call[c].pc = "collecting"
        /\ ExactKey(resp) \notin call[c].seenExact
        /\ ~CapsReached(c, resp)
        /\ call' = [call EXCEPT ![c].seenExact = @ \cup {ExactKey(resp)},
                                ![c].perConn[resp.conn] = @ + 1,
                                ![c].started = @ + 1]
        /\ checks' = checks \cup {<<c, resp, "crypto">>}
        /\ UNCHANGED crowdedOut
  /\ UNCHANGED <<active, knowsSlot, requests, signedBy>>

\* The collector resolves: coSign goes on to re-validate its own response and the
\* collected ones
Finished(entry, validated) ==
  [entry EXCEPT !.pc = "checking",
                !.validated = validated,
                !.toCheck = validated \cup {OwnResponse(Self)}]

\* A validated response counts once per slot while the collector is open
Counted(entry, resp) ==
  LET validated == entry.validated \cup {resp}
  IN  IF entry.pc # "collecting" \/ \E v \in entry.validated : v.slot = resp.slot THEN entry
      ELSE IF Cardinality(validated) >= Threshold - 1 THEN Finished(entry, validated)
      ELSE [entry EXCEPT !.validated = validated]

\* Mutant: the key registered at the slot is not compared
BoundToAny(key, resp) == key \notin {NoKey, Unread}

\* The key of the slot is the signer's
BoundTo(key, resp) == key = resp.signer

--------------------------------------------------------------------------------
(* validateResponse, in the collector. *)

\* After the signature check: a remembered key decides at once, another slot is
\* read from the chain
CheckSignature(c, resp) ==
  /\ <<c, resp, "crypto">> \in checks
  /\ LET rest == checks \ {<<c, resp, "crypto">>}
         key  == call[c].keyCache[resp.slot]
     IN  \/ /\ ~resp.good
            /\ checks' = rest
            /\ UNCHANGED call
         \/ /\ resp.good /\ key # Unread
            /\ checks' = rest
            /\ call' = IF BoundTo(key, resp)
                       THEN [call EXCEPT ![c] = Counted(@, resp)] ELSE call
         \/ /\ resp.good /\ key = Unread
            /\ checks' = rest \cup {<<c, resp, "rpc">>}
            /\ UNCHANGED call
  /\ UNCHANGED <<active, knowsSlot, netVars, signedBy, crowdedOut>>

\* getBlsPublicKeyAtSlot answers with what the chain says now
CheckKey(c, resp) ==
  /\ <<c, resp, "rpc">> \in checks
  /\ checks' = checks \ {<<c, resp, "rpc">>}
  /\ LET key   == KeyAt(resp.slot)
         entry == [call[c] EXCEPT !.keyCache[resp.slot] = key]
     IN  call' = [call EXCEPT ![c] =
                    IF BoundTo(key, resp) THEN Counted(entry, resp) ELSE entry]
  /\ UNCHANGED <<active, knowsSlot, netVars, signedBy, crowdedOut>>

\* The read fails: the response is dropped
CheckKeyFails(c, resp) ==
  /\ <<c, resp, "rpc">> \in checks
  /\ checks' = checks \ {<<c, resp, "rpc">>}
  /\ UNCHANGED <<active, knowsSlot, call, netVars, signedBy, crowdedOut>>

\* Mutant: the timer is armed by the first response
TimeoutIfAny(c) ==
  /\ call[c].pc = "collecting"
  /\ call[c].validated # {}
  /\ call' = [call EXCEPT ![c] = Finished(@, @.validated)]
  /\ UNCHANGED <<active, knowsSlot, netVars, checks, signedBy, crowdedOut>>

\* setTimeout(finish, timeoutMs)
Timeout(c) ==
  /\ call[c].pc = "collecting"
  /\ call' = [call EXCEPT ![c] = Finished(@, @.validated)]
  /\ UNCHANGED <<active, knowsSlot, netVars, checks, signedBy, crowdedOut>>

--------------------------------------------------------------------------------
(* coSign after the collection. *)

\* One response is validated again, its own first, and its slot counted
Recheck(c, resp, ok) ==
  LET key == IF call[c].keyCache[resp.slot] # Unread THEN call[c].keyCache[resp.slot]
             ELSE IF ok THEN KeyAt(resp.slot) ELSE Unread
  IN  /\ call[c].pc = "checking"
      /\ resp \in call[c].toCheck
      /\ OwnResponse(Self) \in call[c].toCheck => resp = OwnResponse(Self)
      /\ call' = [call EXCEPT ![c].toCheck = @ \ {resp},
                              ![c].keyCache[resp.slot] = key,
                              ![c].bySlot = IF BoundTo(key, resp) THEN @ \cup {resp.slot} ELSE @]
      /\ UNCHANGED <<active, knowsSlot, netVars, checks, signedBy, crowdedOut>>

QuorumReached(c) == Cardinality(call[c].bySlot) >= Threshold

\* The aggregate and its signerMask, or a throw below the threshold
Aggregate(c) ==
  /\ call[c].pc = "checking"
  /\ call[c].toCheck = {}
  /\ call' = [call EXCEPT ![c].pc = IF QuorumReached(c) THEN "proof" ELSE "thrown"]
  /\ UNCHANGED <<active, knowsSlot, netVars, checks, signedBy, crowdedOut>>

CoSignNext ==
  \/ \E s \in Slots : SetActive(s)
  \/ \E c \in Calls :
       \/ CoSignBegin(c) \/ CoSignRefuse(c) \/ Timeout(c) \/ Aggregate(c)
       \/ \E p \in Peers : HandleCoSignRequest(c, p) \/ RequestDropped(c, p)
       \/ \E p \in Peers, n \in Nodes, s \in Slots, good \in BOOLEAN :
            FaultyReply(c, p, n, s, good)
       \/ \E resp \in call[c].toCheck, ok \in BOOLEAN : Recheck(c, resp, ok)
  \/ \E x \in replies : ReplyLost(x) \/ HandleCoSignResponse(x[1], x[2])
  \/ \E x \in checks :
       CheckSignature(x[1], x[2]) \/ CheckKey(x[1], x[2]) \/ CheckKeyFails(x[1], x[2])

\* A timer fires, and coSign's own awaits return, with an answer or an error
CoSignFairness ==
  \A c \in Calls :
    /\ WF_coSignVars(Timeout(c))
    /\ WF_coSignVars(\E resp \in call[c].toCheck, ok \in BOOLEAN : Recheck(c, resp, ok))
    /\ WF_coSignVars(Aggregate(c))

CoSignSpec == CoSignInit /\ [][CoSignNext]_coSignVars /\ CoSignFairness

--------------------------------------------------------------------------------
(* Properties. *)

CoSignTypeOK ==
  /\ active \subseteq Slots
  /\ knowsSlot \subseteq Nodes
  /\ requests \subseteq Calls \X Peers
  /\ replies \subseteq Calls \X Response
  /\ checks \subseteq Calls \X Response \X {"crypto", "rpc"}
  /\ signedBy \subseteq Nodes \X Calls
  /\ crowdedOut \subseteq Calls \X Nodes
  /\ \A c \in Calls :
       /\ call[c].pc \in {"idle", "collecting", "checking", "proof", "thrown"}
       /\ call[c].validated \subseteq Response
       /\ \A r, q \in call[c].validated : r.slot = q.slot => r = q
       /\ call[c].toCheck \subseteq call[c].validated \cup {OwnResponse(Self)}
       /\ call[c].perConn \in [Nodes -> 0..perConnCap]
       /\ call[c].started \in 0..maxValidations
       /\ call[c].keyCache \in [Slots -> Nodes \cup {NoKey, Unread}]
       /\ call[c].bySlot \subseteq Slots

\* A proof carries a threshold of distinct slots, the registered key of each of
\* them signed this call's message, and the honest ones confirmed the violation
\* by their own read; whatever answers, losses, timeouts and chain changes came
\* in between (coSign: "NEVER submits an under-threshold proof")
QuorumSound ==
  \A c \in Calls :
    call[c].pc = "proof" =>
      /\ Cardinality(call[c].bySlot) >= Threshold
      /\ \A s \in call[c].bySlot : \E n \in Nodes :
           /\ slotOf[n] = s
           /\ <<n, c>> \in signedBy
           /\ n \in Faulty \cup Confirms

\* A peer that floods its connection never uses up the validations of the others:
\* no honest answer that reaches an open collector is dropped by a cap
\* (handleCoSignResponse, "finding-3")
HonestNotCrowdedOut ==
  \A x \in crowdedOut : x[2] \in Faulty

\* Every call that starts to collect ends in a proof or a throw
CallEnds ==
  \A c \in Calls : []<>(call[c].pc \notin {"collecting", "checking"})
================================================================================
