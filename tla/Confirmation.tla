------------------------------ MODULE Confirmation ------------------------------
(***************************************************************************)
(* POST /signature/sign and POST /signature/confirm of one node: the gates *)
(* of SignatureService.signMessage in their order (owner authorization,    *)
(* policy, out-of-band confirmation), the pending map of                   *)
(* ConfirmationService and the two ways to approve.  Requests run on one   *)
(* event loop: an action is the code between two awaits, and any other     *)
(* request may run at an await.  An entry of the map is an object that an  *)
(* awaiting call keeps a reference to after it has left the map; it is     *)
(* identified by its one-time token.                                       *)
(***************************************************************************)
EXTENDS Integers

CONSTANTS
  Ops,             \* user operations, by their userOpHash
  Requests,        \* sign calls in flight
  Confirms,        \* passkey confirm calls in flight
  Tokens,          \* bounds the confirmations ever created
  NoToken, NoOp,
  confirmEnabled,
  nativeValue,     \* op -> what nativeValue decodes: the value of an execute call, 0 for any other
  thresholdWei,
  ttlMs,
  HasContact,      \* ops whose sender has an entry in the contacts file
  Addressable,     \* ops whose contact names an address of the channel
  HasChannel,      \* a notification channel is configured
  rustSignerUrl, rustSignerRequired, privateKey,   \* which signers there are
  Restarts,        \* the process may restart
  MaxNow           \* bounds the clock

ASSUME ConfirmationAssumption ==
  /\ NoToken \notin Tokens
  /\ NoOp \notin Ops
  /\ nativeValue \in [Ops -> Nat]
  /\ thresholdWei \in Nat
  /\ ttlMs \in Nat
  /\ confirmEnabled \in BOOLEAN
  /\ Addressable \subseteq Ops

VARIABLES
  now,
  pending,                        \* op -> the token of its entry
  tokenOp, confirmed, expiry,     \* the fields of an entry, by token
  request,                        \* sign call -> where it awaits, its op, its token
  passkey,                        \* passkey call -> the entry it holds at the await
  delivered,                      \* tokens that reached the user
  approved,                       \* tokens the user approved
  uses,                           \* token -> releases by the gate
  signed                          \* tokens whose release ended in a signature

entryVars == <<tokenOp, confirmed, expiry>>
userVars  == <<delivered, approved>>
vars == <<now, pending, entryVars, request, passkey, userVars, uses, signed>>

Idle == [pc |-> "idle", op |-> NoOp, token |-> NoToken]

ConfirmationTypeOK ==
  /\ now \in Nat
  /\ pending \in [Ops -> Tokens \cup {NoToken}]
  /\ tokenOp \in [Tokens -> Ops \cup {NoOp}]
  /\ confirmed \in [Tokens -> BOOLEAN]
  /\ expiry \in [Tokens -> Nat]
  /\ request \in [Requests -> [pc    : {"idle", "auth", "policy", "gate", "sending", "signing"},
                               op    : Ops \cup {NoOp},
                               token : Tokens \cup {NoToken}]]
  /\ passkey \in [Confirms -> Tokens \cup {NoToken}]
  /\ delivered \subseteq Tokens
  /\ approved \subseteq Tokens
  /\ uses \in [Tokens -> Nat]
  /\ signed \subseteq Tokens

Init ==
  /\ now = 0
  /\ pending = [op \in Ops |-> NoToken]
  /\ tokenOp = [t \in Tokens |-> NoOp]
  /\ confirmed = [t \in Tokens |-> FALSE]
  /\ expiry = [t \in Tokens |-> 0]
  /\ request = [r \in Requests |-> Idle]
  /\ passkey = [c \in Confirms |-> NoToken]
  /\ delivered = {}
  /\ approved = {}
  /\ uses = [t \in Tokens |-> 0]
  /\ signed = {}

--------------------------------------------------------------------------------
(* SignatureService.signMessage. *)

Tick ==
  /\ now < MaxNow
  /\ now' = now + 1
  /\ UNCHANGED <<pending, entryVars, request, passkey, userVars, uses, signed>>

At(r, pc) == request[r].pc = pc

Goto(r, pc, token) ==
  request' = [request EXCEPT ![r] = [pc |-> pc, op |-> request[r].op, token |-> token]]

\* The call is answered, by a signature, a pending status or an error
Answer(r) == request' = [request EXCEPT ![r] = Idle]

SignMessage(r, op) ==
  /\ At(r, "idle")
  /\ request' = [request EXCEPT ![r] = [pc |-> "auth", op |-> op, token |-> NoToken]]
  /\ UNCHANGED <<now, pending, entryVars, passkey, userVars, uses, signed>>

\* authorizeAndDeriveHash returns the hash, or throws on any failure
OwnerAuth(r) ==
  /\ At(r, "auth")
  /\ Goto(r, "policy", NoToken) \/ Answer(r)
  /\ UNCHANGED <<now, pending, entryVars, passkey, userVars, uses, signed>>

\* policyService.evaluate
Policy(r) ==
  /\ At(r, "policy")
  /\ Goto(r, "gate", NoToken) \/ Answer(r)
  /\ UNCHANGED <<now, pending, entryVars, passkey, userVars, uses, signed>>

--------------------------------------------------------------------------------
(* ConfirmationService.gate. *)

NeedsApproval(op) == confirmEnabled /\ nativeValue[op] >= thresholdWei

Expired(t) == expiry[t] <= now

\* Mutant: an expired entry still answers
LiveEntryStale(op) == pending[op]

\* The op's entry, NoToken if there is none or it has expired
LiveEntry(op) ==
  IF pending[op] # NoToken /\ ~Expired(pending[op]) THEN pending[op] ELSE NoToken

GateNotRequired(r) ==
  /\ At(r, "gate")
  /\ ~NeedsApproval(request[r].op)
  /\ Goto(r, "signing", NoToken)
  /\ UNCHANGED <<now, pending, entryVars, passkey, userVars, uses, signed>>

\* Mutant: the entry stays in the map
GateConfirmedKept(r) ==
  LET op == request[r].op
      t  == LiveEntry(op)
  IN  /\ At(r, "gate")
      /\ NeedsApproval(op)
      /\ t # NoToken
      /\ confirmed[t]
      /\ uses' = [uses EXCEPT ![t] = @ + 1]
      /\ Goto(r, "signing", t)
      /\ UNCHANGED <<now, pending, entryVars, passkey, userVars, signed>>

\* An approved entry releases the signature and is consumed
GateConfirmed(r) ==
  LET op == request[r].op
      t  == LiveEntry(op)
  IN  /\ At(r, "gate")
      /\ NeedsApproval(op)
      /\ t # NoToken
      /\ confirmed[t]
      /\ pending' = [pending EXCEPT ![op] = NoToken]
      /\ uses' = [uses EXCEPT ![t] = @ + 1]
      /\ Goto(r, "signing", t)
      /\ UNCHANGED <<now, entryVars, passkey, userVars, signed>>

\* An entry already awaits approval
GatePending(r) ==
  LET op == request[r].op
      t  == LiveEntry(op)
  IN  /\ At(r, "gate")
      /\ NeedsApproval(op)
      /\ t # NoToken
      /\ ~confirmed[t]
      /\ Answer(r)
      /\ UNCHANGED <<now, pending, entryVars, passkey, userVars, uses, signed>>

\* An expired entry is dropped; an account without a contact is refused
GateUndeliverable(r) ==
  LET op == request[r].op
  IN  /\ At(r, "gate")
      /\ NeedsApproval(op)
      /\ LiveEntry(op) = NoToken
      /\ op \notin HasContact
      /\ pending' = [pending EXCEPT ![op] = NoToken]
      /\ Answer(r)
      /\ UNCHANGED <<now, entryVars, passkey, userVars, uses, signed>>

EntryExpiry == now + ttlMs

\* A fresh entry replaces an expired one, and its token is being sent
GateCreate(r, t) ==
  LET op == request[r].op
  IN  /\ At(r, "gate")
      /\ NeedsApproval(op)
      /\ LiveEntry(op) = NoToken
      /\ op \in HasContact
      /\ tokenOp[t] = NoOp
      /\ pending' = [pending EXCEPT ![op] = t]
      /\ tokenOp' = [tokenOp EXCEPT ![t] = op]
      /\ confirmed' = [confirmed EXCEPT ![t] = FALSE]
      /\ expiry' = [expiry EXCEPT ![t] = EntryExpiry]
      /\ Goto(r, "sending", t)
      /\ UNCHANGED <<now, passkey, userVars, uses, signed>>

\* The channel may put a token it was given before the user at any time, whether
\* or not it answers the sender
Deliver(t) ==
  /\ HasChannel
  /\ tokenOp[t] \in Addressable
  /\ t \notin delivered
  /\ delivered' = delivered \cup {t}
  /\ UNCHANGED <<now, pending, entryVars, request, passkey, approved, uses, signed>>

\* sendToAccount fulfils; a channel the contact has no address for returns
\* without sending
SendFulfilled(r) ==
  /\ At(r, "sending")
  /\ HasChannel
  /\ request[r].op \in Addressable => request[r].token \in delivered
  /\ Answer(r)
  /\ UNCHANGED <<now, pending, entryVars, passkey, userVars, uses, signed>>

\* Every channel rejected, or there is none: the op's entry is deleted
SendFailed(r) ==
  /\ At(r, "sending")
  /\ HasChannel => request[r].op \in Addressable
  /\ pending' = [pending EXCEPT ![request[r].op] = NoToken]
  /\ Answer(r)
  /\ UNCHANGED <<now, entryVars, passkey, userVars, uses, signed>>

--------------------------------------------------------------------------------
(* BlsService.signDerivedHash. *)

\* signViaRust answers with a signature or throws on any transport error
SignViaRust == {TRUE, FALSE}

\* signViaNode throws without a usable local key
SignViaNode == {privateKey}

\* A failure of the remote signer falls back to the local key unless the remote
\* one is required
SignOutcomes ==
  IF ~rustSignerUrl THEN SignViaNode
  ELSE IF rustSignerRequired THEN SignViaRust
  ELSE UNION {IF ok THEN {TRUE} ELSE SignViaNode : ok \in SignViaRust}

SignDerivedHash(r) ==
  /\ At(r, "signing")
  /\ \E ok \in SignOutcomes :
       signed' = IF ok /\ request[r].token # NoToken
                 THEN signed \cup {request[r].token} ELSE signed
  /\ Answer(r)
  /\ UNCHANGED <<now, pending, entryVars, passkey, userVars, uses>>

--------------------------------------------------------------------------------
(* Approvals. *)

\* confirm accepts the token of the op's entry while it is live
ConfirmToken(t) ==
  \E op \in Ops :
    /\ t \in delivered
    /\ pending[op] = t
    /\ ~Expired(t)
    /\ confirmed' = [confirmed EXCEPT ![t] = TRUE]
    /\ approved' = approved \cup {t}
    /\ UNCHANGED <<now, pending, tokenOp, expiry, request, passkey, delivered, uses, signed>>

\* confirmWithPasskey up to its await: the entry is live and the assertion binds
\* to the op
ConfirmWithPasskey(c, op) ==
  /\ passkey[c] = NoToken
  /\ LiveEntry(op) # NoToken
  /\ passkey' = [passkey EXCEPT ![c] = LiveEntry(op)]
  /\ UNCHANGED <<now, pending, entryVars, request, userVars, uses, signed>>

\* The KMS has verified the user's assertion: the entry held since before the
\* await is confirmed
KmsVerified(c) ==
  /\ passkey[c] # NoToken
  /\ confirmed' = [confirmed EXCEPT ![passkey[c]] = TRUE]
  /\ approved' = approved \cup {passkey[c]}
  /\ passkey' = [passkey EXCEPT ![c] = NoToken]
  /\ UNCHANGED <<now, pending, tokenOp, expiry, request, delivered, uses, signed>>

\* The KMS refuses, throws, times out or is not configured
KmsRefused(c) ==
  /\ passkey[c] # NoToken
  /\ passkey' = [passkey EXCEPT ![c] = NoToken]
  /\ UNCHANGED <<now, pending, entryVars, request, userVars, uses, signed>>

\* getStatus, for polling
GetStatus(op) ==
  CASE pending[op] = NoToken -> "not_found"
    [] pending[op] # NoToken /\ Expired(pending[op]) -> "expired"
    [] LiveEntry(op) # NoToken /\ confirmed[LiveEntry(op)] -> "approved"
    [] OTHER -> "pending"

\* The map and the calls in flight are in memory only
Restart ==
  /\ Restarts
  /\ pending' = [op \in Ops |-> NoToken]
  /\ request' = [r \in Requests |-> Idle]
  /\ passkey' = [c \in Confirms |-> NoToken]
  /\ UNCHANGED <<now, entryVars, userVars, uses, signed>>

Next ==
  \/ Tick
  \/ Restart
  \/ \E r \in Requests :
       \/ \E op \in Ops : SignMessage(r, op)
       \/ OwnerAuth(r)
       \/ Policy(r)
       \/ GateNotRequired(r)
       \/ GateConfirmed(r)
       \/ GatePending(r)
       \/ GateUndeliverable(r)
       \/ \E t \in Tokens : GateCreate(r, t)
       \/ SendFulfilled(r)
       \/ SendFailed(r)
       \/ SignDerivedHash(r)
  \/ \E t \in Tokens : Deliver(t) \/ ConfirmToken(t)
  \/ \E c \in Confirms :
       \/ \E op \in Ops : ConfirmWithPasskey(c, op)
       \/ KmsVerified(c)
       \/ KmsRefused(c)

Spec == Init /\ [][Next]_vars

--------------------------------------------------------------------------------
(* Properties. *)

\* A high-value signature is released only on an approval the user gave for this
\* op, and one approval releases at most one signature, whatever requests,
\* approvals and restarts interleave (gate: "single-use")
ReleasedOnApproval ==
  /\ \A t \in Tokens : uses[t] <= 1 /\ (uses[t] = 1 => t \in approved)
  /\ \A r \in Requests :
       At(r, "signing") /\ NeedsApproval(request[r].op) =>
         \E t \in Tokens :
           request[r].token = t /\ tokenOp[t] = request[r].op /\ uses[t] = 1

\* An approval releases a signature only before the entry expires, though a
\* passkey verification that began in time may confirm the entry later
ReleasedBeforeExpiry ==
  [][\A t \in Tokens : uses'[t] # uses[t] => now < expiry[t]]_vars

\* An op waits for an approval the user was never asked for only while its token
\* is being sent, or when its contact has no address of the configured channel:
\* the one case in which sendToAccount counts as delivered what it did not send.
\* Without a channel, or when every send fails, the entry is withdrawn (gate:
\* "Fail-closed")
UndeliveredOnlyUnaddressed ==
  \A op \in Ops :
    pending[op] # NoToken /\ pending[op] \notin delivered =>
      \/ HasChannel /\ op \in HasContact \ Addressable
      \/ \E r \in Requests : At(r, "sending") /\ request[r].token = pending[op]

\* getStatus answers not_found for a released approval only when it was consumed
\* "by a successful sign", or is being signed
ConsumedBySuccessfulSign ==
  \A t \in Tokens :
    uses[t] = 1 /\ GetStatus(tokenOp[t]) = "not_found" =>
      \/ t \in signed
      \/ \E r \in Requests : At(r, "signing") /\ request[r].token = t
================================================================================
