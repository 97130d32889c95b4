----------------------------- MODULE SigningProofs -----------------------------
(***************************************************************************)
(* Proofs about the release of a signature (Confirmation), for every set of *)
(* ops, requests, tokens and passkey calls and every setting, and about     *)
(* what the self-check publishes of the signing key (NodeIdentity), for     *)
(* every number of identities, calls, starts and blocks.                    *)
(***************************************************************************)
EXTENDS Confirmation, NodeIdentity, TLAPS

--------------------------------------------------------------------------------
(* The confirmation gate. *)

\* The token in the map is the one created for the op and has released nothing
MapOfOwnEntries ==
  \A op \in Ops :
    pending[op] # NoToken => tokenOp[pending[op]] = op /\ uses[pending[op]] = 0

\* Only created tokens are used, confirmed ones were approved
EntryHistory ==
  \A t \in Tokens :
    /\ confirmed[t] => t \in approved
    /\ tokenOp[t] = NoOp => uses[t] = 0
    /\ uses[t] <= 1
    /\ uses[t] = 1 => t \in approved

\* What a sign call knows where it awaits
RequestHistory ==
  \A r \in Requests :
    /\ request[r].pc # "idle" => request[r].op \in Ops
    /\ At(r, "sending") => /\ request[r].token \in Tokens
                           /\ tokenOp[request[r].token] = request[r].op
    /\ At(r, "signing") /\ NeedsApproval(request[r].op) =>
         /\ request[r].token \in Tokens
         /\ tokenOp[request[r].token] = request[r].op
         /\ uses[request[r].token] = 1

\* The inductive invariant: single use needs that a token in the map has not been
\* used, and that needs that it is the token of this op alone
ConfirmationInv ==
  ConfirmationTypeOK /\ MapOfOwnEntries /\ EntryHistory /\ RequestHistory

\* No entry, no call in flight and no approval exists when the process starts
LEMMA InitInv == Init => ConfirmationInv
BY SMTT(30), ConfirmationAssumption
DEF Init, Idle, ConfirmationInv, ConfirmationTypeOK, MapOfOwnEntries, EntryHistory,
    RequestHistory, At, NeedsApproval

\* Every step keeps the types
LEMMA NextType ==
  ASSUME ConfirmationInv, Next
  PROVE  ConfirmationTypeOK'
<1> USE ConfirmationAssumption DEF ConfirmationInv, ConfirmationTypeOK
<1>1. CASE Tick
  BY <1>1 DEF Tick, entryVars, userVars
<1>2. CASE Restart
  BY Zenon, <1>2 DEF Restart, Idle, entryVars, userVars
<1>3. ASSUME NEW r \in Requests, NEW op \in Ops, SignMessage(r, op)
      PROVE  ConfirmationTypeOK'
  BY Zenon, <1>3 DEF SignMessage, entryVars, userVars
<1>4. ASSUME NEW r \in Requests, OwnerAuth(r) \/ Policy(r)
      PROVE  ConfirmationTypeOK'
  BY <1>4 DEF OwnerAuth, Policy, Goto, Answer, Idle, entryVars, userVars
<1>5. ASSUME NEW r \in Requests,
             \/ GateNotRequired(r) \/ GateConfirmed(r) \/ GatePending(r)
             \/ GateUndeliverable(r) \/ SendFulfilled(r) \/ SendFailed(r)
      PROVE  ConfirmationTypeOK'
  <2>0. (GateConfirmed(r) \/ GateUndeliverable(r) \/ SendFailed(r)) => request[r].op \in Ops
    BY ZenonT(30) DEF RequestHistory, GateConfirmed, GateUndeliverable, SendFailed, At
  <2>1. CASE GateConfirmed(r)
    BY <2>0, <2>1, <1>5 DEF GateConfirmed, LiveEntry, Goto, entryVars, userVars
  <2>2. CASE GateNotRequired(r) \/ GatePending(r) \/ SendFulfilled(r)
    BY <2>2, <1>5 DEF GateNotRequired, GatePending, SendFulfilled, Goto, Answer, Idle,
                      entryVars, userVars
  <2>3. CASE GateUndeliverable(r)
    BY Zenon, <2>0, <2>3, <1>5 DEF GateUndeliverable, Answer, Idle, entryVars, userVars
  <2>4. CASE SendFailed(r)
    BY Zenon, <2>0, <2>4, <1>5 DEF SendFailed, Answer, Idle, entryVars, userVars
  <2> QED BY Zenon, <1>5, <2>1, <2>2, <2>3, <2>4
<1>6. ASSUME NEW r \in Requests, NEW t \in Tokens, GateCreate(r, t)
      PROVE  ConfirmationTypeOK'
  <2>1. request[r].op \in Ops
    BY Zenon, <1>6 DEF RequestHistory, GateCreate, At
  <2>2. EntryExpiry \in Nat
    BY DEF EntryExpiry
  <2> QED BY Zenon, <1>6, <2>1, <2>2 DEF GateCreate, Goto, userVars
<1>7. ASSUME NEW r \in Requests, SignDerivedHash(r)
      PROVE  ConfirmationTypeOK'
  BY Zenon, <1>7 DEF SignDerivedHash, Answer, Idle, entryVars, userVars
<1>8. ASSUME NEW t \in Tokens, Deliver(t) \/ ConfirmToken(t)
      PROVE  ConfirmationTypeOK'
  BY ZenonT(30), <1>8 DEF Deliver, ConfirmToken, entryVars, userVars
<1>9. ASSUME NEW c \in Confirms,
             KmsVerified(c) \/ KmsRefused(c) \/ \E op \in Ops : ConfirmWithPasskey(c, op)
      PROVE  ConfirmationTypeOK'
  <2>1. CASE KmsVerified(c)
    <3>1. passkey[c] \in Tokens
      BY Zenon, <2>1 DEF KmsVerified
    <3> QED BY Zenon, <2>1, <3>1 DEF KmsVerified
  <2>2. CASE KmsRefused(c)
    BY Zenon, <2>2 DEF KmsRefused, entryVars, userVars
  <2>3. CASE \E op \in Ops : ConfirmWithPasskey(c, op)
    BY <2>3 DEF ConfirmWithPasskey, LiveEntry, entryVars, userVars
  <2> QED BY Zenon, <1>9, <2>1, <2>2, <2>3
<1> QED
  BY ZenonT(30), <1>1, <1>2, <1>3, <1>4, <1>5, <1>6, <1>7, <1>8, <1>9 DEF Next

\* Every step keeps the map, the entries and the calls in line
LEMMA NextHistory ==
  ASSUME ConfirmationInv, Next, ConfirmationTypeOK'
  PROVE  (MapOfOwnEntries /\ EntryHistory /\ RequestHistory)'
<1> DEFINE Hist == MapOfOwnEntries /\ EntryHistory /\ RequestHistory
<1> USE ConfirmationAssumption
    DEF ConfirmationInv, ConfirmationTypeOK, MapOfOwnEntries, EntryHistory, RequestHistory, At,
        NeedsApproval
<1>1. CASE Tick
  BY Zenon, <1>1 DEF Tick, entryVars, userVars
<1>2. CASE Restart
  BY Zenon, <1>2 DEF Restart, Idle, entryVars, userVars
<1>3. ASSUME NEW r \in Requests, NEW op \in Ops, SignMessage(r, op)
      PROVE  Hist'
  BY <1>3 DEF SignMessage, entryVars, userVars
<1>4. ASSUME NEW r \in Requests, OwnerAuth(r) \/ Policy(r)
      PROVE  Hist'
  BY SMTT(30), <1>4 DEF OwnerAuth, Policy, Goto, Answer, Idle, entryVars, userVars
<1>5. ASSUME NEW r \in Requests,
             \/ GateNotRequired(r) \/ GateConfirmed(r) \/ GatePending(r)
             \/ GateUndeliverable(r) \/ SendFulfilled(r) \/ SendFailed(r)
      PROVE  Hist'
  <2>0. (GateConfirmed(r) \/ GateUndeliverable(r) \/ SendFailed(r)) => request[r].op \in Ops
    BY Zenon DEF GateConfirmed, GateUndeliverable, SendFailed
  <2>1. CASE GateConfirmed(r)
    <3> DEFINE op == request[r].op
               t  == pending[op]
    <3>1. /\ op \in Ops /\ t \in Tokens /\ LiveEntry(op) = t
          /\ t # NoToken /\ confirmed[t]
      <4>1. op \in Ops /\ LiveEntry(op) # NoToken /\ confirmed[LiveEntry(op)]
        BY Zenon, <2>0, <2>1 DEF GateConfirmed
      <4> HIDE DEF op
      <4>2. LiveEntry(op) = t
        BY Zenon, <4>1 DEF LiveEntry
      <4>3. t \in Tokens \cup {NoToken}
        BY Zenon, <4>1
      <4> QED BY Zenon, <4>1, <4>2, <4>3
    <3>2. /\ pending' = [pending EXCEPT ![op] = NoToken]
          /\ uses' = [uses EXCEPT ![t] = @ + 1]
          /\ request' = [request EXCEPT ![r] = [pc |-> "signing", op |-> op, token |-> t]]
          /\ UNCHANGED <<tokenOp, confirmed, approved>>
      BY Zenon, <2>1, <3>1 DEF GateConfirmed, Goto, entryVars, userVars
    <3>3. tokenOp[t] = op /\ uses[t] = 0 /\ t \in approved
      BY Zenon, <3>1
    <3> HIDE DEF op, t
    <3>4. uses'[t] = 1 /\ \A x \in Tokens : x # t => uses'[x] = uses[x]
      BY <3>1, <3>2, <3>3
    <3>5. MapOfOwnEntries'
      BY <3>1, <3>2, <3>3, <3>4
    <3>6. EntryHistory'
      BY <3>1, <3>2, <3>3, <3>4
    <3>7. RequestHistory'
      BY SMTT(30), <3>1, <3>2, <3>3, <3>4
    <3> QED BY ZenonT(30), <3>5, <3>6, <3>7
  <2>2. CASE GateNotRequired(r) \/ GatePending(r) \/ SendFulfilled(r)
    BY SMTT(30), <2>2, <1>5 DEF GateNotRequired, GatePending, SendFulfilled, Goto, Answer, Idle,
                      entryVars, userVars
  <2>3. CASE GateUndeliverable(r) \/ SendFailed(r)
    BY SMTT(60), <2>0, <2>3, <1>5
    DEF GateUndeliverable, SendFailed, Answer, Idle, entryVars, userVars
  <2> QED BY ZenonT(30), <1>5, <2>1, <2>2, <2>3
<1>6. ASSUME NEW r \in Requests, NEW t \in Tokens, GateCreate(r, t)
      PROVE  Hist'
  BY <1>6 DEF GateCreate, Goto, userVars
<1>7. ASSUME NEW r \in Requests, SignDerivedHash(r)
      PROVE  Hist'
  BY ZenonT(30), <1>7 DEF SignDerivedHash, Answer, Idle, entryVars, userVars
<1>8. ASSUME NEW t \in Tokens, Deliver(t) \/ ConfirmToken(t)
      PROVE  Hist'
  BY ZenonT(30), <1>8 DEF Deliver, ConfirmToken, entryVars, userVars
<1>9. ASSUME NEW c \in Confirms,
             KmsVerified(c) \/ KmsRefused(c) \/ \E op \in Ops : ConfirmWithPasskey(c, op)
      PROVE  Hist'
  BY <1>9 DEF KmsVerified, KmsRefused, ConfirmWithPasskey, LiveEntry, entryVars, userVars
<1> QED
  BY ZenonT(30), <1>1, <1>2, <1>3, <1>4, <1>5, <1>6, <1>7, <1>8, <1>9 DEF Next

\* The inductive invariant holds of every behaviour
THEOREM ConfirmationInvariant == Spec => []ConfirmationInv
<1>1. ConfirmationInv /\ UNCHANGED vars => ConfirmationInv'
  BY DEF ConfirmationInv, ConfirmationTypeOK, MapOfOwnEntries, EntryHistory, RequestHistory,
         At, NeedsApproval, vars, entryVars, userVars
<1>2. ConfirmationInv /\ [Next]_vars => ConfirmationInv'
  BY Zenon, <1>1, NextType, NextHistory DEF ConfirmationInv
<1> QED
  BY <1>2, InitInv, PTL DEF Spec

\* For every number of concurrent calls, a high-value signature is released only on
\* an approval for its op, and an approval releases at most one
THEOREM ReleasedOnApprovalHolds == Spec => []ReleasedOnApproval
<1>1. ConfirmationInv => ReleasedOnApproval
  BY Zenon DEF ConfirmationInv, EntryHistory, RequestHistory, ReleasedOnApproval
<1> QED
  BY <1>1, ConfirmationInvariant, PTL

\* Only GateConfirmed counts a use, of an entry that has not expired
LEMMA StepBeforeExpiry ==
  ASSUME ConfirmationInv, [Next]_vars
  PROVE  \A t \in Tokens : uses'[t] # uses[t] => now < expiry[t]
<1>1. CASE UNCHANGED uses
  BY Zenon, <1>1
<1>2. ASSUME NEW r \in Requests, GateConfirmed(r)
      PROVE  \A t \in Tokens : uses'[t] # uses[t] => now < expiry[t]
  <2>1. ASSUME NEW t \in Tokens, uses'[t] # uses[t]
        PROVE  t = LiveEntry(request[r].op)
    BY Zenon, <1>2, <2>1 DEF GateConfirmed, ConfirmationInv, ConfirmationTypeOK
  <2>2. LiveEntry(request[r].op) # NoToken
    BY Zenon, <1>2 DEF GateConfirmed
  <2>3. ~Expired(LiveEntry(request[r].op))
    BY Zenon, <2>2 DEF LiveEntry
  <2>4. \A t \in Tokens : ~Expired(t) => now < expiry[t]
    BY SMTT(30) DEF Expired, ConfirmationInv, ConfirmationTypeOK
  <2> QED BY Zenon, <2>1, <2>3, <2>4
<1>3. UNCHANGED uses \/ \E r \in Requests : GateConfirmed(r)
  BY ZenonT(30)
  DEF Next, Tick, Restart, SignMessage, OwnerAuth, Policy, GateNotRequired, GatePending,
         GateUndeliverable, GateCreate, SendFulfilled, SendFailed, SignDerivedHash, Deliver,
         ConfirmToken, ConfirmWithPasskey, KmsVerified, KmsRefused, vars
<1> QED BY Zenon, <1>1, <1>2, <1>3

\* An entry confirmed too late, by a slow passkey verification, releases nothing
THEOREM ReleasedBeforeExpiryHolds == Spec => ReleasedBeforeExpiry
<1>1. ConfirmationInv /\ [Next]_vars =>
        [\A t \in Tokens : uses'[t] # uses[t] => now < expiry[t]]_vars
  BY Zenon, StepBeforeExpiry
<1> QED
  BY <1>1, ConfirmationInvariant, PTL DEF Spec, ReleasedBeforeExpiry

\* A token is sent only for an account with a contact
SentToContact == \A r \in Requests : At(r, "sending") => request[r].op \in HasContact

\* Only GateCreate starts to send
LEMMA StepContact ==
  ASSUME ConfirmationInv, SentToContact, [Next]_vars
  PROVE  SentToContact'
<1> USE DEF ConfirmationInv, ConfirmationTypeOK, SentToContact, At
<1>1. CASE \/ UNCHANGED vars \/ Tick
           \/ \E t \in Tokens : Deliver(t) \/ ConfirmToken(t)
           \/ \E c \in Confirms : \/ KmsVerified(c) \/ KmsRefused(c)
                                  \/ \E op \in Ops : ConfirmWithPasskey(c, op)
  BY Zenon, <1>1 DEF vars, Tick, Deliver, ConfirmToken, KmsVerified, KmsRefused, ConfirmWithPasskey
<1>2. CASE Restart
  BY ZenonT(30), <1>2 DEF Restart, Idle
<1>3. ASSUME NEW r \in Requests,
             \/ \E op \in Ops : SignMessage(r, op)
             \/ OwnerAuth(r) \/ Policy(r) \/ GateNotRequired(r) \/ GateConfirmed(r)
             \/ GatePending(r) \/ GateUndeliverable(r) \/ SignDerivedHash(r)
             \/ SendFulfilled(r) \/ SendFailed(r)
      PROVE  SentToContact'
  BY SMTT(60), <1>3
  DEF SignMessage, OwnerAuth, Policy, GateNotRequired, GateConfirmed, GatePending,
              GateUndeliverable, SignDerivedHash, SendFulfilled, SendFailed, Goto, Answer, Idle
<1>4. ASSUME NEW r \in Requests, NEW t \in Tokens, GateCreate(r, t)
      PROVE  SentToContact'
  BY Zenon, <1>4 DEF GateCreate, Goto
<1> QED
  BY ZenonT(30), <1>1, <1>2, <1>3, <1>4 DEF Next

\* Each step keeps an undelivered entry of the map with the call that sends it
LEMMA StepDelivered ==
  ASSUME ConfirmationInv, SentToContact, UndeliveredOnlyUnaddressed, [Next]_vars
  PROVE  UndeliveredOnlyUnaddressed'
<1> USE ConfirmationAssumption DEF ConfirmationInv, ConfirmationTypeOK, UndeliveredOnlyUnaddressed, At
<1>1. CASE \/ UNCHANGED vars \/ Tick
           \/ \E t \in Tokens : Deliver(t) \/ ConfirmToken(t)
           \/ \E c \in Confirms : \/ KmsVerified(c) \/ KmsRefused(c)
                                  \/ \E op \in Ops : ConfirmWithPasskey(c, op)
  BY ZenonT(30), <1>1
  DEF vars, Tick, Deliver, ConfirmToken, KmsVerified, KmsRefused, ConfirmWithPasskey,
              userVars
<1>2. CASE Restart
  BY Zenon, <1>2 DEF Restart
<1>3. ASSUME NEW r \in Requests, ~At(r, "sending"), UNCHANGED delivered,
             \A q \in Requests \ {r} : request'[q] = request[q],
             \A op \in Ops : pending'[op] \in {pending[op], NoToken}
      PROVE  UndeliveredOnlyUnaddressed'
  <2> SUFFICES ASSUME NEW op \in Ops, pending'[op] # NoToken, pending'[op] \notin delivered',
                      ~(HasChannel /\ op \in HasContact \ Addressable)
               PROVE  \E q \in Requests : At(q, "sending")' /\ request'[q].token = pending'[op]
    BY Zenon
  <2>1. pending'[op] = pending[op] /\ pending[op] \notin delivered
    BY Zenon, <1>3
  <2>2. PICK q \in Requests : At(q, "sending") /\ request[q].token = pending[op]
    BY Zenon, <2>1
  <2>3. q # r
    BY ZenonT(30), <1>3, <2>2
  <2> QED BY Zenon, <1>3, <2>1, <2>2, <2>3
<1>4. ASSUME NEW r \in Requests,
             \/ \E op \in Ops : SignMessage(r, op)
             \/ OwnerAuth(r) \/ Policy(r) \/ GateNotRequired(r) \/ GateConfirmed(r)
             \/ GatePending(r) \/ GateUndeliverable(r) \/ SignDerivedHash(r)
      PROVE  UndeliveredOnlyUnaddressed'
  <2>1. ~At(r, "sending") /\ UNCHANGED delivered
    BY ZenonT(30), <1>4
    DEF SignMessage, OwnerAuth, Policy, GateNotRequired, GateConfirmed, GatePending,
                GateUndeliverable, SignDerivedHash, userVars
  <2>2. \A q \in Requests \ {r} : request'[q] = request[q]
    BY SMTT(30), <1>4
    DEF SignMessage, OwnerAuth, Policy, GateNotRequired, GateConfirmed, GatePending,
                GateUndeliverable, SignDerivedHash, Goto, Answer
  <2>3. \A op \in Ops : pending'[op] \in {pending[op], NoToken}
    BY ZenonT(30), <1>4
    DEF SignMessage, OwnerAuth, Policy, GateNotRequired, GateConfirmed, GatePending,
                GateUndeliverable, SignDerivedHash
  <2> QED BY Zenon, <1>3, <2>1, <2>2, <2>3
<1>5. ASSUME NEW r \in Requests, NEW t \in Tokens, GateCreate(r, t)
      PROVE  UndeliveredOnlyUnaddressed'
  BY ZenonT(30), <1>5 DEF GateCreate, Goto, userVars
<1>6. ASSUME NEW r \in Requests, SendFulfilled(r)
      PROVE  UndeliveredOnlyUnaddressed'
  <2> SUFFICES ASSUME NEW op \in Ops, pending'[op] # NoToken, pending'[op] \notin delivered',
                      ~(HasChannel /\ op \in HasContact \ Addressable)
               PROVE  \E q \in Requests : At(q, "sending")' /\ request'[q].token = pending'[op]
    BY Zenon
  <2>1. /\ pending' = pending /\ delivered' = delivered /\ HasChannel /\ At(r, "sending")
        /\ request[r].op \in Addressable => request[r].token \in delivered
        /\ \A q \in Requests \ {r} : request'[q] = request[q]
    BY Zenon, <1>6 DEF SendFulfilled, Answer, userVars
  <2>2. PICK q \in Requests : At(q, "sending") /\ request[q].token = pending[op]
    BY Zenon, <2>1
  <2>3. q # r
    <3> SUFFICES ASSUME q = r PROVE FALSE
      BY Zenon
    <3>1. tokenOp[pending[op]] = request[r].op
      BY Zenon, <2>1, <2>2 DEF RequestHistory
    <3>2. tokenOp[pending[op]] = op
      BY Zenon, <2>1 DEF MapOfOwnEntries
    <3>3. request[r].op \in HasContact
      BY Zenon, <2>1 DEF SentToContact
    <3>4. request[r].op = op
      BY Zenon, <3>1, <3>2
    <3>5. op \in Addressable
      BY Zenon, <2>1, <3>3, <3>4
    <3>6. pending[op] \in delivered
      BY Zenon, <2>1, <2>2, <3>4, <3>5
    <3> QED BY Zenon, <2>1, <3>6
  <2> QED BY Zenon, <2>1, <2>2, <2>3
<1>7. ASSUME NEW r \in Requests, SendFailed(r)
      PROVE  UndeliveredOnlyUnaddressed'
  <2>1. /\ request[r].op \in Ops
        /\ tokenOp[request[r].token] = request[r].op
    BY Zenon, <1>7 DEF SendFailed, RequestHistory
  <2>2. \A op \in Ops :
          pending'[op] # NoToken => pending'[op] = pending[op] /\ pending[op] # request[r].token
    BY Zenon, <1>7, <2>1 DEF SendFailed, MapOfOwnEntries
  <2>3. \A q \in Requests \ {r} : request'[q] = request[q]
    BY Zenon, <1>7 DEF SendFailed, Answer
  <2>4. UNCHANGED delivered
    BY Zenon, <1>7 DEF SendFailed, userVars
  <2> SUFFICES ASSUME NEW op \in Ops, pending'[op] # NoToken, pending'[op] \notin delivered',
                      ~(HasChannel /\ op \in HasContact \ Addressable)
               PROVE  \E q \in Requests : At(q, "sending")' /\ request'[q].token = pending'[op]
    BY Zenon
  <2>5. PICK q \in Requests : At(q, "sending") /\ request[q].token = pending[op]
    BY Zenon, <2>2, <2>4
  <2>6. q # r
    BY Zenon, <2>2, <2>5
  <2> QED BY Zenon, <2>2, <2>3, <2>5, <2>6
<1> QED
  BY ZenonT(30), <1>1, <1>2, <1>4, <1>5, <1>6, <1>7 DEF Next

\* An op awaits an approval the user was not asked for only while its token is
\* being sent, or because its contact names no address of the channel
THEOREM UndeliveredOnlyUnaddressedHolds == Spec => []UndeliveredOnlyUnaddressed
<1>1. Init => UndeliveredOnlyUnaddressed /\ SentToContact
  BY DEF Init, UndeliveredOnlyUnaddressed, SentToContact, At, Idle
<1>2. ConfirmationInv /\ SentToContact /\ UndeliveredOnlyUnaddressed /\ [Next]_vars =>
        SentToContact' /\ UndeliveredOnlyUnaddressed'
  BY Zenon, StepContact, StepDelivered
<1> QED
  BY <1>1, <1>2, ConfirmationInvariant, PTL DEF Spec

--------------------------------------------------------------------------------
(* The identity's self-check.  A result is published only by a loop of the  *)
(* current generation, every change of the loaded identity moves the        *)
(* generation on, and what a loop has read is true at the block it pinned,  *)
(* which no later block changes.                                            *)

\* The identity a state declares is the one the process runs
IsCurrent(s) == \E n \in nodeState : s.id = n.id /\ s.publicKey = n.publicKey

\* Nothing runs while the process is down
DownIsEmpty ==
  /\ ~up => jobs = {} /\ attempts = {} /\ timer = {} /\ lastResult = {}
  /\ generation \in Nat

\* Loops of an earlier generation may still run; one of this generation is
\* about the state that is loaded
LoopsCurrent ==
  /\ \A a \in attempts : a = [state |-> a.state, gen |-> a.gen, at |-> a.at, block |-> a.block]
  /\ \A a \in attempts \union timer : a.gen \in Nat /\ a.gen <= generation
  /\ \A a \in attempts \union timer : a.gen = generation => IsCurrent(a.state)

\* What an attempt has read so far was true at the block it pinned
ReadsTrue ==
  /\ head \in Nat \ {0}
  /\ \A a \in attempts :
       /\ a.at # "head" => a.block \in 1..head
       /\ a.at = "key" => chain[a.block][a.state.id] # NoKey

\* What an outcome of the reads, and a status, say of the key k on the chain
OutcomeTrue(onchain, k, key) ==
  /\ onchain = "mismatch" => k \notin {NoKey, key}
  /\ onchain = "not_registered" => k = NoKey
  /\ onchain = "ok" => k = key
StatusTrue(status, k, key) ==
  /\ status = "mismatch_onchain" => k \notin {NoKey, key}
  /\ status = "not_registered" => k = NoKey
  /\ status = "ok" => k = key

\* The held result is about the loaded state and true at one block
HeldTrue ==
  \A r \in lastResult :
    /\ r = [status |-> r.status, id |-> r.id, key |-> r.key, checkerError |-> r.checkerError]
    /\ \E n \in nodeState : r.id = n.id /\ r.key = n.publicKey
    /\ \E b \in 1..head : StatusTrue(r.status, chain[b][r.id], r.key)

IdentityInv ==
  /\ \E S : chain \in Seq(S)
  /\ DownIsEmpty /\ LoopsCurrent /\ ReadsTrue /\ HeldTrue

Onchain == {"ok", "mismatch", "not_registered", "unknown"}

(* The combined status says of the chain what the reads found (Combine,      *)
(* CheckLocal).                                                             *)
LEMMA CombineTrue ==
  ASSUME NEW s, NEW onchain \in Onchain, NEW k, NEW key, OutcomeTrue(onchain, k, key)
  PROVE  StatusTrue(Combine(CheckLocal(s), onchain), k, key)
PROOF
  <1>1. CheckLocal(s) \in {"skipped_no_private_key", "skipped_remote_signer", "ok", "mismatch"}
    BY Zenon DEF CheckLocal
  <1> DEFINE local == CheckLocal(s)
  <1>2. local \in {"skipped_no_private_key", "skipped_remote_signer", "ok", "mismatch"}
    BY Zenon, <1>1
  <1> HIDE DEF local
  <1>3. StatusTrue(Combine(local, onchain), k, key)
    BY Zenon, <1>2 DEF Combine, StatusTrue, OutcomeTrue, Onchain
  <1> QED  BY Zenon, <1>3 DEF local

(* start of the self-check for a state that is loaded: every loop of before *)
(* is of an earlier generation.                                             *)
LEMMA StartKeeps ==
  ASSUME IdentityInv, NEW s \in nodeState', Start(s), UNCHANGED chain, up'
  PROVE  IdentityInv'
PROOF
  <1> DEFINE new == [state |-> s, gen |-> generation + 2, at |-> "head", block |-> 0]
  <1>1. /\ generation' = generation + 2 /\ timer' = {} /\ lastResult' = {}
        /\ attempts' = attempts \union {new} /\ generation \in Nat
    BY Zenon DEF Start, IdentityInv, DownIsEmpty
  <1>2. DownIsEmpty'
    BY <1>1 DEF DownIsEmpty
  <1>3. /\ new = [state |-> new.state, gen |-> new.gen, at |-> new.at, block |-> new.block]
        /\ new.gen = generation' /\ new.at = "head" /\ new.state = s
    BY Zenon, <1>1
  <1> HIDE DEF new
  <1>4. IsCurrent(s)'
    BY Zenon DEF IsCurrent
  <1>5. LoopsCurrent'
    <2>1. \A a \in attempts' : a = [state |-> a.state, gen |-> a.gen, at |-> a.at, block |-> a.block]
      BY Zenon, <1>1, <1>3 DEF IdentityInv, LoopsCurrent
    <2>2. \A a \in attempts' : a.gen \in Nat /\ a.gen <= generation'
      BY <1>1, <1>3 DEF IdentityInv, LoopsCurrent
    <2>3. \A a \in attempts' : a.gen = generation' => a = new
      BY <1>1, <1>3 DEF IdentityInv, LoopsCurrent
    <2>4. \A a \in attempts' : a.gen = generation' => IsCurrent(a.state)'
      BY Zenon, <1>3, <1>4, <2>3
    <2> QED  BY Zenon, <1>1, <2>1, <2>2, <2>4 DEF LoopsCurrent
  <1>6. ReadsTrue'
    BY Zenon, <1>1, <1>3 DEF IdentityInv, ReadsTrue, head
  <1>7. HeldTrue'
    BY Zenon, <1>1 DEF HeldTrue
  <1> QED  BY Zenon, <1>2, <1>5, <1>6, <1>7 DEF IdentityInv

(* stop of the self-check: no loop of this generation is left.              *)
LEMMA StopKeeps ==
  ASSUME IdentityInv, StopAndClear, UNCHANGED chain, up'
  PROVE  IdentityInv'
PROOF
  <1>1. /\ generation' = generation + 1 /\ timer' = {} /\ lastResult' = {}
        /\ attempts' = attempts /\ generation \in Nat
    BY Zenon DEF StopAndClear, IdentityInv, DownIsEmpty
  <1>2. DownIsEmpty'
    BY <1>1 DEF DownIsEmpty
  <1>3. LoopsCurrent'
    BY <1>1 DEF IdentityInv, LoopsCurrent
  <1>4. ReadsTrue'
    BY Zenon, <1>1 DEF IdentityInv, ReadsTrue, head
  <1>5. HeldTrue'
    BY Zenon, <1>1 DEF HeldTrue
  <1> QED  BY Zenon, <1>2, <1>3, <1>4, <1>5 DEF IdentityInv

(* A step that leaves the self-check and the chain alone, and every loaded  *)
(* identity loaded.                                                         *)
LEMMA CheckStays ==
  ASSUME IdentityInv, UNCHANGED <<check, chain>>, up' \/ (~up /\ jobs' = {}),
         \A s : IsCurrent(s) => IsCurrent(s)'
  PROVE  IdentityInv'
PROOF
  <1>1. UNCHANGED <<generation, timer, attempts, lastResult, chain>>
    BY Zenon DEF check
  <1>2. DownIsEmpty'
    BY Zenon, <1>1 DEF IdentityInv, DownIsEmpty
  <1>3. LoopsCurrent'
    BY Zenon, <1>1 DEF IdentityInv, LoopsCurrent
  <1>4. ReadsTrue'
    BY Zenon, <1>1 DEF IdentityInv, ReadsTrue, head
  <1>5. \A r \in lastResult : \E n \in nodeState' : r.id = n.id /\ r.key = n.publicKey
    <2> TAKE r \in lastResult
    <2>1. IsCurrent([id |-> r.id, publicKey |-> r.key])
      BY Zenon DEF IdentityInv, HeldTrue, IsCurrent
    <2>2. IsCurrent([id |-> r.id, publicKey |-> r.key])'
      BY Zenon, <2>1
    <2> QED  BY Zenon, <2>2 DEF IsCurrent
  <1>6. HeldTrue'
    BY Zenon, <1>1, <1>5 DEF IdentityInv, HeldTrue, head
  <1> QED  BY Zenon, <1>1, <1>2, <1>3, <1>4, <1>6 DEF IdentityInv

(* reloadNodeState, in each of its outcomes.                                *)
LEMMA ReloadKeeps ==
  ASSUME IdentityInv, NEW f, Reload(f), UNCHANGED <<chain, up>>, up
  PROVE  IdentityInv'
PROOF
  <1>1. CASE StopAndClear
    BY Zenon, <1>1, StopKeeps
  <1>2. ASSUME NEW s, nodeState' = {Resolved(s)}, Start(Resolved(s)) PROVE IdentityInv'
    <2>1. Resolved(s) \in nodeState'
      BY Zenon, <1>2
    <2> QED  BY Zenon, <1>2, <2>1, StartKeeps
  <1>3. CASE UNCHANGED <<nodeState, check>>
    <2>1. \A s : IsCurrent(s) => IsCurrent(s)'
      BY Zenon, <1>3 DEF IsCurrent
    <2> QED  BY Zenon, <1>3, <2>1, CheckStays
  <1> QED  BY Zenon, <1>1, <1>2, <1>3 DEF Reload

(* The timer after an attempt ends is armed for a loop of this generation.  *)
LEMMA ScheduleFacts ==
  ASSUME LoopsCurrent, NEW a \in attempts, Schedule(a)
  PROVE  /\ attempts' \subseteq attempts
         /\ \A t \in timer' : t \in timer \/ (t.gen = a.gen /\ t.state = a.state)
BY DEF Schedule

(* Loops that are a part of those there were, or go on from one of them.     *)
LEMMA LoopsStay ==
  ASSUME LoopsCurrent, UNCHANGED <<generation, nodeState>>,
         \A a \in attempts' : a = [state |-> a.state, gen |-> a.gen, at |-> a.at, block |-> a.block],
         \A a \in attempts' \union timer' : \E c \in attempts \union timer :
            a.gen = c.gen /\ a.state = c.state
  PROVE  LoopsCurrent'
PROOF
  <1>1. \A s : IsCurrent(s)' <=> IsCurrent(s)
    BY Zenon DEF IsCurrent
  <1>2. \A a \in attempts' \union timer' : a.gen \in Nat /\ a.gen <= generation
    BY Zenon DEF LoopsCurrent
  <1>3. \A a \in attempts' \union timer' : a.gen = generation => IsCurrent(a.state)
    BY ZenonT(30) DEF LoopsCurrent
  <1> QED  BY Zenon, <1>1, <1>2, <1>3 DEF LoopsCurrent

(* An attempt publishes what its reads found, unless it is of an earlier     *)
(* generation (Publish).                                                    *)
LEMMA PublishKeeps ==
  ASSUME IdentityInv, NEW a \in attempts, NEW onchain \in Onchain, Publish(a, onchain),
         \E b \in 1..head : OutcomeTrue(onchain, chain[b][a.state.id], a.state.publicKey),
         UNCHANGED <<chain, nodeState, up, jobs>>
  PROVE  IdentityInv'
PROOF
  <1> DEFINE status == Combine(CheckLocal(a.state), onchain)
  <1>0. LoopsCurrent /\ up /\ a.gen \in Nat /\ generation \in Nat
    BY Zenon DEF IdentityInv, DownIsEmpty, LoopsCurrent
  <1>1. UNCHANGED generation /\ Schedule(a)
    BY Zenon DEF Publish
  <1>2. DownIsEmpty'
    BY ZenonT(30), <1>0, <1>1 DEF DownIsEmpty
  <1>3. LoopsCurrent'
    <2>1. /\ attempts' \subseteq attempts
          /\ \A t \in timer' : t \in timer \/ (t.gen = a.gen /\ t.state = a.state)
      BY Zenon, <1>0, <1>1, ScheduleFacts
    <2>2. \A c \in attempts' : c = [state |-> c.state, gen |-> c.gen, at |-> c.at, block |-> c.block]
      BY ZenonT(30), <1>0, <2>1 DEF LoopsCurrent
    <2>3. \A c \in attempts' \union timer' : \E d \in attempts \union timer :
            c.gen = d.gen /\ c.state = d.state
      BY Zenon, <2>1
    <2> QED  BY ZenonT(30), <1>0, <1>1, <2>2, <2>3, LoopsStay
  <1>4. ReadsTrue'
    BY ZenonT(30), <1>1 DEF IdentityInv, ReadsTrue, head, Schedule
  <1>5. PICK b \in 1..head : StatusTrue(status, chain[b][a.state.id], a.state.publicKey)
    BY ZenonT(30), CombineTrue
  <1> HIDE DEF status
  <1>6. HeldTrue'
    <2>1. CASE lastResult' = lastResult
      BY Zenon, <2>1 DEF IdentityInv, HeldTrue, head
    <2>2. CASE lastResult' = {[r EXCEPT !.checkerError = FALSE] : r \in lastResult}
      <3>1. \A q \in lastResult' : \E r \in lastResult :
              /\ q = [status |-> r.status, id |-> r.id, key |-> r.key, checkerError |-> FALSE]
        BY SMTT(30), <2>2 DEF IdentityInv, HeldTrue
      <3> QED  BY <3>1 DEF IdentityInv, HeldTrue, head
    <2>3. CASE /\ a.gen = generation
               /\ lastResult' = {[status |-> status, id |-> a.state.id, key |-> a.state.publicKey,
                                  checkerError |-> FALSE]}
      <3>1. PICK n \in nodeState : a.state.id = n.id /\ a.state.publicKey = n.publicKey
        BY Zenon, <1>0, <2>3 DEF LoopsCurrent, IsCurrent
      <3> QED  BY SMTT(60), <1>5, <2>3, <3>1 DEF HeldTrue, head
    <2> QED  BY Zenon, <2>1, <2>2, <2>3 DEF Publish, status
  <1> QED  BY Zenon, <1>2, <1>3, <1>4, <1>6 DEF IdentityInv

(* check itself throws: the held result keeps what it says (CheckThrows).   *)
LEMMA CheckThrowsKeeps ==
  ASSUME IdentityInv, NEW a \in attempts, CheckThrows(a), UNCHANGED <<chain, nodeState, up, jobs>>
  PROVE  IdentityInv'
PROOF
  <1>0. LoopsCurrent /\ up /\ a.gen \in Nat /\ generation \in Nat /\ head \in Nat \ {0}
    BY Zenon DEF IdentityInv, DownIsEmpty, LoopsCurrent, ReadsTrue
  <1>1. UNCHANGED generation /\ Schedule(a)
    BY Zenon DEF CheckThrows
  <1>2. DownIsEmpty'
    BY Zenon, <1>0, <1>1 DEF DownIsEmpty
  <1>3. LoopsCurrent'
    <2>1. /\ attempts' \subseteq attempts
          /\ \A t \in timer' : t \in timer \/ (t.gen = a.gen /\ t.state = a.state)
      BY Zenon, <1>0, <1>1, ScheduleFacts
    <2>2. \A c \in attempts' : c = [state |-> c.state, gen |-> c.gen, at |-> c.at, block |-> c.block]
      BY Zenon, <1>0, <2>1 DEF LoopsCurrent
    <2>3. \A c \in attempts' \union timer' : \E d \in attempts \union timer :
            c.gen = d.gen /\ c.state = d.state
      BY ZenonT(30), <2>1
    <2> QED  BY Zenon, <1>0, <1>1, <2>2, <2>3, LoopsStay
  <1>4. ReadsTrue'
    BY Zenon, <1>1 DEF IdentityInv, ReadsTrue, head, Schedule
  <1>6. HeldTrue'
    <2>1. CASE lastResult' = lastResult
      BY Zenon, <2>1 DEF IdentityInv, HeldTrue, head
    <2>2. CASE lastResult' = {[r EXCEPT !.checkerError = TRUE] : r \in lastResult}
      <3>1. \A q \in lastResult' : \E r \in lastResult :
              /\ q = [status |-> r.status, id |-> r.id, key |-> r.key, checkerError |-> TRUE]
        BY SMTT(30), <2>2 DEF IdentityInv, HeldTrue
      <3> QED  BY <3>1 DEF IdentityInv, HeldTrue, head
    <2>3. CASE /\ a.gen = generation
               /\ lastResult' = {[status |-> "unknown", id |-> a.state.id, key |-> a.state.publicKey,
                                  checkerError |-> TRUE]}
      <3>1. PICK n \in nodeState : a.state.id = n.id /\ a.state.publicKey = n.publicKey
        BY Zenon, <1>0, <2>3 DEF LoopsCurrent, IsCurrent
      <3>2. 1 \in 1..head /\ StatusTrue("unknown", chain[1][a.state.id], a.state.publicKey)
        BY <1>0 DEF StatusTrue
      <3> QED  BY <2>3, <3>1, <3>2 DEF HeldTrue, head
    <2> QED  BY Zenon, <2>1, <2>2, <2>3 DEF CheckThrows, IsStaleOrStopped
  <1> QED  BY ZenonT(30), <1>2, <1>3, <1>4, <1>6 DEF IdentityInv

(* An attempt goes on to its next read (ReadHead, ReadRegistered).          *)
LEMMA AttemptGoesOn ==
  ASSUME IdentityInv, NEW a \in attempts, NEW at, NEW b \in 1..head,
         attempts' = (attempts \ {a}) \union {[state |-> a.state, gen |-> a.gen, at |-> at, block |-> b]},
         at = "key" => chain[b][a.state.id] # NoKey,
         UNCHANGED <<chain, nodeState, up, jobs, generation, timer, lastResult>>
  PROVE  IdentityInv'
PROOF
  <1> DEFINE new == [state |-> a.state, gen |-> a.gen, at |-> at, block |-> b]
  <1>0. LoopsCurrent /\ up
    BY ZenonT(30) DEF IdentityInv, DownIsEmpty
  <1>1. /\ new = [state |-> new.state, gen |-> new.gen, at |-> new.at, block |-> new.block]
        /\ new.gen = a.gen /\ new.state = a.state /\ new.at = at /\ new.block = b
    BY Zenon
  <1>2. attempts' = (attempts \ {a}) \union {new}
    BY Zenon
  <1> HIDE DEF new
  <1>3. DownIsEmpty'
    BY ZenonT(30), <1>0 DEF IdentityInv, DownIsEmpty
  <1>4. LoopsCurrent'
    <2>1. \A c \in attempts' : c = [state |-> c.state, gen |-> c.gen, at |-> c.at, block |-> c.block]
      BY Zenon, <1>0, <1>1, <1>2 DEF LoopsCurrent
    <2>2. \A c \in attempts' \union timer' : \E d \in attempts \union timer :
            c.gen = d.gen /\ c.state = d.state
      BY ZenonT(30), <1>1, <1>2
    <2> QED  BY ZenonT(30), <1>0, <2>1, <2>2, LoopsStay
  <1>5. ReadsTrue'
    BY ZenonT(30), <1>1, <1>2 DEF IdentityInv, ReadsTrue, head
  <1>6. HeldTrue'
    BY Zenon DEF IdentityInv, HeldTrue, head
  <1> QED  BY Zenon, <1>3, <1>4, <1>5, <1>6 DEF IdentityInv

(* The timer starts the next attempt of its loop (TimerFires).              *)
LEMMA TimerKeeps ==
  ASSUME IdentityInv, TimerFires, UNCHANGED <<chain, nodeState, up, jobs>>
  PROVE  IdentityInv'
PROOF
  <1>1. PICK t \in timer :
          attempts' = attempts \union {[state |-> t.state, gen |-> t.gen, at |-> "head", block |-> 0]}
    BY Zenon DEF TimerFires
  <1> DEFINE new == [state |-> t.state, gen |-> t.gen, at |-> "head", block |-> 0]
  <1>0. LoopsCurrent /\ up /\ timer' = {} /\ UNCHANGED <<generation, lastResult>>
    BY Zenon DEF IdentityInv, DownIsEmpty, TimerFires
  <1>2. /\ new = [state |-> new.state, gen |-> new.gen, at |-> new.at, block |-> new.block]
        /\ new.gen = t.gen /\ new.state = t.state /\ new.at = "head"
        /\ attempts' = attempts \union {new}
    BY Zenon, <1>1
  <1> HIDE DEF new
  <1>3. DownIsEmpty'
    BY Zenon, <1>0 DEF IdentityInv, DownIsEmpty
  <1>4. LoopsCurrent'
    <2>1. \A c \in attempts' : c = [state |-> c.state, gen |-> c.gen, at |-> c.at, block |-> c.block]
      BY Zenon, <1>0, <1>2 DEF LoopsCurrent
    <2>2. \A c \in attempts' \union timer' : \E d \in attempts \union timer :
            c.gen = d.gen /\ c.state = d.state
      BY Zenon, <1>0, <1>2
    <2> QED  BY Zenon, <1>0, <2>1, <2>2, LoopsStay
  <1>5. ReadsTrue'
    BY Zenon, <1>2 DEF IdentityInv, ReadsTrue, head
  <1>6. HeldTrue'
    BY Zenon, <1>0 DEF IdentityInv, HeldTrue, head
  <1> QED  BY Zenon, <1>3, <1>4, <1>5, <1>6 DEF IdentityInv

(* Every step of an attempt (Attempt, AttemptFails).                        *)
LEMMA AttemptKeeps ==
  ASSUME IdentityInv, Attempt \/ AttemptFails
  PROVE  IdentityInv'
PROOF
  <1>0. UNCHANGED <<chain, nodeState, up, jobs>>
    BY Zenon DEF Attempt, AttemptFails, world
  <1>1. ASSUME NEW a \in attempts, ReadHead(a) PROVE IdentityInv'
    <2>1. PICK b \in 1..head :
            attempts' = (attempts \ {a}) \union
              {[state |-> a.state, gen |-> a.gen, at |-> "registered", block |-> b]}
      BY Zenon, <1>1 DEF ReadHead
    <2>2. UNCHANGED <<generation, timer, lastResult>>
      BY Zenon, <1>1 DEF ReadHead
    <2> QED  BY SMTT(30), <1>0, <2>1, <2>2, AttemptGoesOn
  <1>2. ASSUME NEW a \in attempts, ReadRegistered(a) PROVE IdentityInv'
    <2>0. a.block \in 1..head
      BY ZenonT(30), <1>2 DEF ReadRegistered, IdentityInv, ReadsTrue
    <2>1. CASE ~Registered(a.state.id, a.block) /\ Publish(a, "not_registered")
      <3>1. OutcomeTrue("not_registered", chain[a.block][a.state.id], a.state.publicKey)
        BY ZenonT(30), <2>1 DEF OutcomeTrue, Registered
      <3> QED  BY ZenonT(30), <1>0, <2>0, <2>1, <3>1, PublishKeeps DEF Onchain
    <2>2. CASE Publish(a, "unknown")
      <3>1. OutcomeTrue("unknown", chain[a.block][a.state.id], a.state.publicKey)
        BY Zenon DEF OutcomeTrue
      <3> QED  BY ZenonT(30), <1>0, <2>0, <2>2, <3>1, PublishKeeps DEF Onchain
    <2>3. CASE /\ Registered(a.state.id, a.block)
               /\ attempts' = (attempts \ {a}) \union {[a EXCEPT !.at = "key"]}
               /\ UNCHANGED <<generation, stopped, timer, lastResult>>
      <3>1. [a EXCEPT !.at = "key"]
              = [state |-> a.state, gen |-> a.gen, at |-> "key", block |-> a.block]
        BY DEF IdentityInv, LoopsCurrent
      <3>2. chain[a.block][a.state.id] # NoKey
        BY Zenon, <2>3 DEF Registered
      <3> QED  BY ZenonT(30), <1>0, <2>0, <2>3, <3>1, <3>2, AttemptGoesOn
    <2> QED  BY Zenon, <1>2, <2>1, <2>2, <2>3 DEF ReadRegistered
  <1>3. ASSUME NEW a \in attempts, ReadKey(a) PROVE IdentityInv'
    <2> DEFINE k == NodePublicKey(a.state.id, a.block)
               out == IF k = NoKey THEN "not_registered" ELSE IF k = a.state.publicKey THEN "ok" ELSE "mismatch"
    <2>1. a.block \in 1..head /\ Publish(a, out)
      BY ZenonT(30), <1>3 DEF ReadKey, IdentityInv, ReadsTrue
    <2>2. out \in Onchain /\ OutcomeTrue(out, chain[a.block][a.state.id], a.state.publicKey)
      BY ZenonT(30) DEF Onchain, OutcomeTrue, NodePublicKey
    <2> HIDE DEF out
    <2> QED  BY ZenonT(30), <1>0, <2>1, <2>2, PublishKeeps
  <1>4. ASSUME NEW a \in attempts, ReadFails(a) PROVE IdentityInv'
    <2>1. 1 \in 1..head /\ OutcomeTrue("unknown", chain[1][a.state.id], a.state.publicKey)
      BY DEF OutcomeTrue, IdentityInv, ReadsTrue
    <2>2. Publish(a, "unknown")
      BY Zenon, <1>4 DEF ReadFails
    <2> QED  BY Zenon, <1>0, <2>1, <2>2, PublishKeeps DEF Onchain
  <1>5. ASSUME NEW a \in attempts, CheckThrows(a) PROVE IdentityInv'
    BY Zenon, <1>0, <1>5, CheckThrowsKeeps
  <1>6. CASE TimerFires
    BY Zenon, <1>0, <1>6, TimerKeeps
  <1> QED  BY Zenon, <1>1, <1>2, <1>3, <1>4, <1>5, <1>6 DEF Attempt, AttemptFails

\* Every state held, stored or on its way is a whole NodeState
StatesWhole ==
  /\ \A s \in file \union nodeState : IsState(s)
  /\ \A j \in jobs : j = [op |-> j.op, state |-> j.state, call |-> j.call] /\ IsState(j.state)

(* Loading, saving and stamping a state keep it whole, and keep its id and  *)
(* declared key (resolvePrivateKey, saveNodeState, registerOnChain).        *)
LEMMA StateKept ==
  ASSUME NEW s, IsState(s)
  PROVE  /\ IsState(Resolved(s)) /\ IsState(Saved(s)) /\ IsState([s EXCEPT !.registeredAt = TRUE])
         /\ [s EXCEPT !.registeredAt = TRUE].id = s.id
         /\ [s EXCEPT !.registeredAt = TRUE].publicKey = s.publicKey
PROOF
  <1>1. IsState(Resolved(s))
    BY Zenon DEF IsState, Resolved
  <1>2. IsState(Saved(s))
    BY Zenon DEF IsState, Saved
  <1>3. ASSUME NEW v
        PROVE  /\ IsState([s EXCEPT !.registeredAt = v])
               /\ [s EXCEPT !.registeredAt = v].id = s.id
               /\ [s EXCEPT !.registeredAt = v].publicKey = s.publicKey
    <2>1. [s EXCEPT !.registeredAt = v]
            = [id |-> s.id, keystore |-> s.keystore, privateKey |-> s.privateKey,
               publicKey |-> s.publicKey, registeredAt |-> v]
      BY DEF IsState
    <2> QED  BY Zenon, <2>1 DEF IsState
  <1> QED  BY Zenon, <1>1, <1>2, <1>3

(* The stamp of registerOnChain, in both of its outcomes (Stamp).           *)
LEMMA StampFacts ==
  ASSUME StatesWhole, Stamp \/ UNCHANGED <<file, nodeState>>
  PROVE  /\ \A s \in file' \union nodeState' : IsState(s)
         /\ \A s : IsCurrent(s) => IsCurrent(s)'
PROOF
  <1>1. CASE UNCHANGED <<file, nodeState>>
    BY Zenon, <1>1 DEF StatesWhole, IsCurrent
  <1>2. CASE /\ nodeState' = {[s EXCEPT !.registeredAt = TRUE] : s \in nodeState}
             /\ file' = {Saved(s) : s \in nodeState'}
    <2>1. \A s \in nodeState : IsState(s)
      BY Zenon DEF StatesWhole
    <2>2. \A s \in nodeState' : IsState(s)
      BY Zenon, <1>2, <2>1, StateKept
    <2>3. \A s \in file' : IsState(s)
      BY Zenon, <1>2, <2>2, StateKept
    <2>4. ASSUME NEW s, IsCurrent(s) PROVE IsCurrent(s)'
      <3>1. PICK n \in nodeState : s.id = n.id /\ s.publicKey = n.publicKey
        BY Zenon, <2>4 DEF IsCurrent
      <3>2. [n EXCEPT !.registeredAt = TRUE] \in nodeState'
        BY ZenonT(30), <1>2
      <3>3. /\ [n EXCEPT !.registeredAt = TRUE].id = n.id
            /\ [n EXCEPT !.registeredAt = TRUE].publicKey = n.publicKey
        BY Zenon, <2>1, StateKept
      <3> QED  BY ZenonT(30), <3>1, <3>2, <3>3 DEF IsCurrent
    <2> QED  BY Zenon, <2>2, <2>3, <2>4
  <1> QED  BY Zenon, <1>1, <1>2 DEF Stamp

(* reloadNodeState leaves whole states in memory (Reload).                  *)
LEMMA ReloadWhole ==
  ASSUME \A s \in nodeState : IsState(s), NEW f, \A s \in f : IsState(s), Reload(f)
  PROVE  \A s \in nodeState' : IsState(s)
PROOF
  <1>1. CASE nodeState' = {}
    BY Zenon, <1>1
  <1>2. CASE UNCHANGED nodeState
    BY Zenon, <1>2
  <1>3. ASSUME NEW s \in f, nodeState' = {Resolved(s)} PROVE \A t \in nodeState' : IsState(t)
    BY ZenonT(30), <1>3, StateKept
  <1> QED  BY Zenon, <1>1, <1>2, <1>3 DEF Reload

(* A step that leaves the states alone, whatever calls are gone.            *)
LEMMA WholeStays ==
  ASSUME StatesWhole, UNCHANGED <<file, nodeState>>, jobs' \subseteq jobs
  PROVE  StatesWhole'
BY Zenon DEF StatesWhole

(* A call is made about a whole state (Call).                               *)
LEMMA CallWhole ==
  ASSUME StatesWhole, NEW o, NEW s, IsState(s), Call(o, s), UNCHANGED <<file, nodeState>>
  PROVE  StatesWhole'
PROOF
  <1> DEFINE new == [op |-> o, state |-> s, call |-> calls]
  <1>1. /\ jobs' = jobs \union {new} /\ new.state = s
        /\ new = [op |-> new.op, state |-> new.state, call |-> new.call]
    BY Zenon DEF Call
  <1> HIDE DEF new
  <1> QED  BY Zenon, <1>1 DEF StatesWhole

(* Every step of the node keeps its states whole.                           *)
LEMMA WholeNext ==
  ASSUME StatesWhole, IdentityNext
  PROVE  StatesWhole'
PROOF
  <1>0. \A s \in Created : IsState(s)
    BY Zenon, IdentityAssumption
  <1>1. CASE Attempt \/ AttemptFails
    BY Zenon, <1>1, WholeStays DEF Attempt, AttemptFails
  <1>2. ASSUME NEW j \in jobs, WriteCreated(j) PROVE StatesWhole'
    <2>1. file' = {j.state} /\ Reload({j.state}) /\ jobs' = jobs \ {j}
      BY Zenon, <1>2 DEF WriteCreated
    <2>2. \A s \in nodeState' : IsState(s)
      BY Zenon, <2>1, ReloadWhole DEF StatesWhole
    <2> QED  BY Zenon, <2>1, <2>2 DEF StatesWhole
  <1>3. ASSUME NEW s \in Created, ImportNode(s) PROVE StatesWhole'
    <2>1. file' = {s} /\ Reload({s}) /\ jobs' = jobs
      BY Zenon, <1>3 DEF ImportNode
    <2>2. \A t \in nodeState' : IsState(t)
      BY Zenon, <1>0, <2>1, ReloadWhole DEF StatesWhole
    <2> QED  BY Zenon, <1>0, <2>1, <2>2 DEF StatesWhole
  <1>4. ASSUME NEW j \in jobs, RemoveFile(j) PROVE StatesWhole'
    <2>1. jobs' = jobs \ {j} /\ (UNCHANGED <<file, nodeState>> \/ (file' = {} /\ Reload({})))
      BY Zenon, <1>4 DEF RemoveFile
    <2>2. CASE file' = {} /\ Reload({})
      <3>1. nodeState' = {}
        BY ZenonT(30), <2>2 DEF Reload
      <3> QED  BY Zenon, <2>1, <2>2, <3>1 DEF StatesWhole
    <2> QED  BY Zenon, <2>1, <2>2, WholeStays
  <1>5. ASSUME NEW j \in jobs, AnswerRegistered(j) PROVE StatesWhole'
    <2>1. CASE Stamp /\ jobs' = jobs \ {j}
      BY Zenon, <2>1, StampFacts DEF StatesWhole
    <2>2. CASE /\ UNCHANGED <<file, nodeState>>
               /\ jobs' = (jobs \ {j}) \union {[op |-> "send", state |-> s, call |-> j.call] :
                            s \in {t \in nodeState : SigningKey(t) \in Keys}}
      <3>1. \A q \in jobs' \ jobs :
              q = [op |-> q.op, state |-> q.state, call |-> q.call] /\ q.state \in nodeState
        BY <2>2
      <3> QED  BY Zenon, <2>2, <3>1 DEF StatesWhole
    <2> QED  BY Zenon, <1>5, <2>1, <2>2 DEF AnswerRegistered
  <1>6. ASSUME NEW j \in jobs, RegisterNodeOnChain(j) PROVE StatesWhole'
    <2>1. CASE Stamp /\ jobs' = jobs \ {j}
      BY Zenon, <2>1, StampFacts DEF StatesWhole
    <2>2. CASE UNCHANGED <<file, nodeState>> /\ jobs' = (jobs \ {j}) \union {[j EXCEPT !.op = "wait"]}
      <3>1. [j EXCEPT !.op = "wait"] = [op |-> "wait", state |-> j.state, call |-> j.call]
        BY DEF StatesWhole
      <3>2. IsState(j.state)
        BY Zenon DEF StatesWhole
      <3> DEFINE new == [op |-> "wait", state |-> j.state, call |-> j.call]
      <3>3. /\ new = [op |-> new.op, state |-> new.state, call |-> new.call] /\ new.state = j.state
            /\ jobs' = (jobs \ {j}) \union {new}
        BY Zenon, <2>2, <3>1
      <3> HIDE DEF new
      <3> QED  BY Zenon, <2>2, <3>2, <3>3 DEF StatesWhole
    <2> QED  BY Zenon, <1>6, <2>1, <2>2 DEF RegisterNodeOnChain
  <1>7. ASSUME NEW j \in jobs, Receipt(j) PROVE StatesWhole'
    <2>1. jobs' = jobs \ {j} /\ (Stamp \/ UNCHANGED <<file, nodeState>>)
      BY Zenon, <1>7 DEF Receipt
    <2> QED  BY ZenonT(30), <2>1, StampFacts DEF StatesWhole
  <1>8. ASSUME NEW s \in Created, CreateNode(s) PROVE StatesWhole'
    BY Zenon, <1>0, <1>8, CallWhole DEF CreateNode
  <1>9. CASE DeleteCurrentNode
    <2>1. PICK s \in nodeState : Call("delete", s)
      BY Zenon, <1>9 DEF DeleteCurrentNode
    <2>2. IsState(s)
      BY Zenon DEF StatesWhole
    <2> QED  BY Zenon, <1>9, <2>1, <2>2, CallWhole DEF DeleteCurrentNode
  <1>10. CASE RegisterOnChain
    <2>1. PICK s \in nodeState : Call("register", s)
      BY Zenon, <1>10 DEF RegisterOnChain
    <2>2. IsState(s)
      BY Zenon DEF StatesWhole
    <2> QED  BY Zenon, <1>10, <2>1, <2>2, CallWhole DEF RegisterOnChain
  <1>11. ASSUME NEW j \in jobs, RegistrationFails(j) PROVE StatesWhole'
    BY Zenon, <1>11, WholeStays DEF RegistrationFails
  <1>12. CASE Boot
    <2>1. nodeState' = {Resolved(s) : s \in file} /\ UNCHANGED <<file, jobs>>
      BY Zenon, <1>12 DEF Boot
    <2>2. \A s \in nodeState' : IsState(s)
      BY ZenonT(30), <2>1, StateKept DEF StatesWhole
    <2> QED  BY Zenon, <2>1, <2>2 DEF StatesWhole
  <1>13. CASE Crash
    BY Zenon, <1>13 DEF Crash, StatesWhole
  <1>14. CASE Mine
    BY Zenon, <1>14, WholeStays DEF Mine
  <1> QED  BY Zenon, <1>1, <1>2, <1>3, <1>4, <1>5, <1>6, <1>7, <1>8, <1>9, <1>10, <1>11, <1>12, <1>13, <1>14
           DEF IdentityNext, Job

(* A dashboard call's step leaves the held result about the running node.   *)
LEMMA JobKeeps ==
  ASSUME IdentityInv, StatesWhole, NEW j \in jobs,
         WriteCreated(j) \/ RemoveFile(j) \/ AnswerRegistered(j) \/ RegisterNodeOnChain(j)
           \/ Receipt(j) \/ RegistrationFails(j)
  PROVE  IdentityInv'
PROOF
  <1>0. up /\ UNCHANGED <<up, chain>>
    BY Zenon DEF IdentityInv, DownIsEmpty, WriteCreated, RemoveFile, AnswerRegistered,
           RegisterNodeOnChain, Receipt, RegistrationFails, world
  <1>1. CASE WriteCreated(j)
    BY ZenonT(30), <1>0, <1>1, ReloadKeeps DEF WriteCreated
  <1>2. CASE RemoveFile(j)
    <2>1. CASE UNCHANGED <<nodeState, check>>
      <3>1. \A s : IsCurrent(s) => IsCurrent(s)'
        BY Zenon, <2>1 DEF IsCurrent
      <3> QED  BY ZenonT(30), <1>0, <2>1, <3>1, CheckStays
    <2>2. CASE Reload({})
      BY Zenon, <1>0, <2>2, ReloadKeeps
    <2> QED  BY Zenon, <1>2, <2>1, <2>2 DEF RemoveFile
  <1>3. CASE AnswerRegistered(j) \/ RegisterNodeOnChain(j) \/ Receipt(j) \/ RegistrationFails(j)
    <2>1. UNCHANGED check /\ (Stamp \/ UNCHANGED <<file, nodeState>>)
      BY Zenon, <1>3 DEF AnswerRegistered, RegisterNodeOnChain, Receipt, RegistrationFails
    <2>2. \A s : IsCurrent(s) => IsCurrent(s)'
      BY Zenon, <2>1, StampFacts
    <2> QED  BY Zenon, <1>0, <2>1, <2>2, CheckStays
  <1> QED  BY Zenon, <1>1, <1>2, <1>3

(* A new block adds to the history of the chain and changes none of it      *)
(* (Mine).                                                                  *)
LEMMA MineKeeps ==
  ASSUME IdentityInv, Mine
  PROVE  IdentityInv'
PROOF
  <1>0. UNCHANGED <<nodeState, up, jobs, generation, timer, attempts, lastResult>>
    BY Zenon DEF Mine, check
  <1>1. PICK x : chain' = Append(chain, x)
    BY ZenonT(30) DEF Mine
  <1>2. PICK S : chain \in Seq(S)
    BY Zenon DEF IdentityInv
  <1>3. chain \in Seq(S \union {x})
    BY <1>2
  <1>4. chain' \in Seq(S \union {x})
    BY <1>1, <1>3
  <1>5. head' = head + 1 /\ head \in Nat /\ \A b \in 1..head : chain'[b] = chain[b]
    BY <1>1, <1>3 DEF head
  <1>6. DownIsEmpty'
    BY ZenonT(30), <1>0 DEF IdentityInv, DownIsEmpty
  <1>7. LoopsCurrent'
    BY Zenon, <1>0 DEF IdentityInv, LoopsCurrent, IsCurrent
  <1>8. 1..head \subseteq 1..head'
    BY SMTT(30), <1>5
  <1>9. ReadsTrue'
    BY SMTT(30), <1>0, <1>5, <1>8 DEF IdentityInv, ReadsTrue
  <1>10. HeldTrue'
    BY Zenon, <1>0, <1>5, <1>8 DEF IdentityInv, HeldTrue
  <1> QED  BY Zenon, <1>4, <1>6, <1>7, <1>9, <1>10 DEF IdentityInv

(* Every step of the node keeps the published result true.                  *)
LEMMA IdentityStepKeeps ==
  ASSUME IdentityInv, StatesWhole, IdentityNext
  PROVE  IdentityInv'
PROOF
  <1>1. CASE Attempt \/ AttemptFails
    BY Zenon, <1>1, AttemptKeeps
  <1>2. CASE Job \/ \E j \in jobs : RegistrationFails(j)
    BY Zenon, <1>2, JobKeeps DEF Job
  <1>3. ASSUME NEW s \in Created, ImportNode(s) PROVE IdentityInv'
    <2>1. up /\ UNCHANGED <<up, chain>> /\ Reload(file')
      BY Zenon, <1>3 DEF ImportNode, world
    <2> QED  BY Zenon, <2>1, ReloadKeeps
  <1>4. CASE (\E s \in Created : CreateNode(s)) \/ DeleteCurrentNode \/ RegisterOnChain
    <2>1. up /\ UNCHANGED <<up, chain, check, nodeState>>
      BY ZenonT(30), <1>4 DEF CreateNode, DeleteCurrentNode, RegisterOnChain, Call, world
    <2>2. \A s : IsCurrent(s) => IsCurrent(s)'
      BY Zenon, <2>1 DEF IsCurrent
    <2> QED  BY Zenon, <2>1, <2>2, CheckStays
  <1>5. CASE Boot
    <2>1. ~up /\ up' /\ UNCHANGED chain
      BY Zenon, <1>5 DEF Boot, world
    <2>2. CASE UNCHANGED check
      <3>1. attempts = {} /\ timer = {} /\ lastResult = {}
        BY Zenon, <2>1 DEF IdentityInv, DownIsEmpty
      <3>2. UNCHANGED <<generation, attempts, timer, lastResult>>
        BY Zenon, <2>2 DEF check
      <3> QED  BY ZenonT(30), <2>1, <3>1, <3>2
               DEF IdentityInv, DownIsEmpty, LoopsCurrent, ReadsTrue, HeldTrue, head
    <2>3. ASSUME NEW s \in nodeState', Start(s) PROVE IdentityInv'
      BY Zenon, <2>1, <2>3, StartKeeps
    <2> QED  BY Zenon, <1>5, <2>2, <2>3 DEF Boot
  <1>6. CASE Crash
    <2>1. /\ UNCHANGED chain /\ jobs' = {} /\ generation' = 0 /\ timer' = {} /\ attempts' = {}
          /\ lastResult' = {}
      BY Zenon, <1>6 DEF Crash, world
    <2> QED  BY ZenonT(30), <2>1
             DEF IdentityInv, DownIsEmpty, LoopsCurrent, ReadsTrue, HeldTrue, head
  <1>7. CASE Mine
    BY Zenon, <1>7, MineKeeps
  <1> QED  BY Zenon, <1>1, <1>2, <1>3, <1>4, <1>5, <1>6, <1>7 DEF IdentityNext

(* The invariants hold of every behaviour.                                  *)
LEMMA IdentityInvHolds == IdentitySpec => [](IdentityInv /\ StatesWhole)
PROOF
  <1>1. IdentityInit => IdentityInv /\ StatesWhole
    <2> SUFFICES ASSUME IdentityInit PROVE IdentityInv /\ StatesWhole
      BY Zenon
    <2>1. chain \in Seq([Ids -> Keys \union {NoKey}]) /\ Len(chain) = 1
      <3> DEFINE S == [Ids -> Keys \union {NoKey}]
      <3>1. chain \in [1..1 -> S]
        <4>1. 1..1 = {1}
          OBVIOUS
        <4> QED  BY Zenon, <4>1 DEF IdentityInit
      <3> HIDE DEF S
      <3>2. chain = <<chain[1]>> /\ chain[1] \in S
        BY <3>1
      <3>3. \A x \in S : <<x>> \in Seq(S) /\ Len(<<x>>) = 1
        OBVIOUS
      <3> QED  BY <3>2, <3>3, Zenon DEF S
    <2>2. head = 1
      BY ZenonT(30), <2>1 DEF head
    <2>3. StatesWhole
      BY ZenonT(30), IdentityAssumption DEF IdentityInit, StatesWhole
    <2>4. DownIsEmpty /\ LoopsCurrent /\ HeldTrue
      BY Zenon DEF IdentityInit, DownIsEmpty, LoopsCurrent, HeldTrue
    <2>5. ReadsTrue
      BY <2>2 DEF IdentityInit, ReadsTrue
    <2> QED  BY Zenon, <2>1, <2>3, <2>4, <2>5 DEF IdentityInv
  <1>2. IdentityInv /\ StatesWhole /\ [IdentityNext]_identityVars => (IdentityInv /\ StatesWhole)'
    <2> SUFFICES ASSUME IdentityInv, StatesWhole, [IdentityNext]_identityVars PROVE (IdentityInv /\ StatesWhole)'
      BY Zenon
    <2>1. CASE IdentityNext
      BY Zenon, <2>1, IdentityStepKeeps, WholeNext
    <2>2. CASE UNCHANGED identityVars
      <3>1. UNCHANGED <<chain, check, up, jobs, nodeState, file>>
        BY Zenon, <2>2 DEF identityVars, world
      <3>2. StatesWhole'
        BY Zenon, <3>1, WholeStays
      <3>3. UNCHANGED <<generation, timer, attempts, lastResult>>
        BY Zenon, <3>1 DEF check
      <3> QED  BY ZenonT(30), <3>1, <3>2, <3>3
               DEF IdentityInv, DownIsEmpty, LoopsCurrent, ReadsTrue, HeldTrue, head, IsCurrent
    <2> QED  BY Zenon, <2>1, <2>2
  <1> QED  BY <1>1, <1>2, PTL DEF IdentitySpec

(* What the self-check publishes is about the identity the process runs,    *)
(* and was true of the chain at one block.                                  *)
THEOREM PublishedIsTrueHolds == IdentitySpec => []PublishedIsTrue
PROOF
  <1>1. IdentityInv => PublishedIsTrue
    BY Zenon DEF IdentityInv, HeldTrue, StatusTrue, PublishedIsTrue, PublishedForCurrent, ResultWasTrue
  <1> QED  BY <1>1, IdentityInvHolds, PTL
================================================================================
