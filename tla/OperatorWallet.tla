---------------------------- MODULE OperatorWallet ----------------------------
(***************************************************************************)
(* The operator's wallet of blockchain.service.ts: every write takes its   *)
(* nonce and broadcasts in one FIFO, and waits for its receipt outside of  *)
(* it.  Slash writes have priority over attestations; an attestation that  *)
(* is not mined in time is sent again under its nonce with a higher fee.   *)
(*                                                                         *)
(* The network: a transaction is mined in the order of nonces and once its *)
(* fee reaches `price`; the endpoint counts the pending transactions it    *)
(* accepted.  Fees are the number of bumps an attestation pays; a slash    *)
(* pays enough.                                                            *)
(***************************************************************************)
EXTENDS Integers, Sequences, FiniteSets

CONSTANTS
  Slashes, Attests,   \* the calls of the two kinds
  MaxSends,           \* maxSends of attestLiveness
  MaxFaults           \* bound on the reads and sends that fail

Ops == Slashes \union Attests

VARIABLES
  pc,        \* call -> where it is
  fifo,      \* walletChain: the calls that broadcast, or wait for their turn
  nonce,     \* call -> its nonce, 0 for null
  sends,     \* call -> broadcasts so far
  recovered, \* call -> recoveries so far
  prevFee,   \* call -> prevFees, 0 for null
  sent,      \* the transactions broadcast: [op, nonce, fee]
  pool,      \* the endpoint's pending transactions, one per nonce
  mined,     \* the transactions mined, in order of nonces: [tx, ok]
  price,     \* the fee from which transactions are mined
  faults

net == <<pool, mined, price>>
locals == <<nonce, sends, recovered, prevFee, sent>>
vars == <<pc, fifo, locals, net, faults>>

(* hasPendingSlashWrite: runWithSlashPriority counts a slash from its call *)
(* to its return.                                                          *)
HasPendingSlash == \E s \in Slashes : pc[s] \notin {"idle", "ok", "failed"}

Turn(o) == fifo # <<>> /\ Head(fifo) = o

Goto(o, p) == pc' = [pc EXCEPT ![o] = p]
Fault == faults < MaxFaults /\ faults' = faults + 1

(* getTransactionCount(pending), with nonces from 1.                       *)
PendingCount == Len(mined) + Cardinality(pool) + 1

(* What eth_sendRawTransaction makes of the transaction t.                 *)
Expired(t) == t.nonce <= Len(mined)
Acceptable(t) == ~Expired(t) /\ \A u \in pool : u.nonce = t.nonce => u.fee < t.fee
Accept(t) ==
  /\ Acceptable(t)
  /\ pool' = {u \in pool : u.nonce # t.nonce} \union {t}
  /\ sent' = sent \union {t}

-----------------------------------------------------------------------------
(* A slash write: queueSlashWithProof, createProposalWithEvidence,         *)
(* createSlashProposal and executeSlashWithProof have this form.           *)
SlashCall(s) ==
  /\ pc[s] = "idle"
  /\ Goto(s, "preflight")
  /\ UNCHANGED <<fifo, locals, net, faults>>

(* bumpedFees: a percentage above the estimate and above a floor, so that  *)
(* it pays every price of this model.                                      *)
SlashFee == MaxSends

(* The simulated call and the fees; a call that would revert stops here.   *)
SlashPreflight(s) ==
  /\ pc[s] = "preflight"
  /\ \/ Goto(s, "queued") /\ fifo' = Append(fifo, s) /\ UNCHANGED faults
     \/ Fault /\ Goto(s, "failed") /\ UNCHANGED fifo
  /\ UNCHANGED <<locals, net>>

SlashNonce(s) ==
  /\ pc[s] = "queued" /\ Turn(s)
  /\ nonce' = [nonce EXCEPT ![s] = PendingCount]
  /\ Goto(s, "sending")
  /\ UNCHANGED <<fifo, sends, recovered, prevFee, sent, net, faults>>

(* A mutated form of SlashSend: the turn is kept until the receipt.        *)
SlashSendHolding(s) ==
  /\ pc[s] = "sending"
  /\ Accept([op |-> s, nonce |-> nonce[s], fee |-> SlashFee])
  /\ Goto(s, "waiting")
  /\ UNCHANGED <<fifo, nonce, sends, recovered, prevFee, mined, price, faults>>

SlashSend(s) ==
  LET t == [op |-> s, nonce |-> nonce[s], fee |-> SlashFee] IN
  /\ pc[s] = "sending"
  /\ fifo' = SelectSeq(fifo, LAMBDA o : o # s)
  /\ \/ Accept(t) /\ Goto(s, "waiting") /\ UNCHANGED faults
     \/ (IF Acceptable(t) THEN Fault ELSE UNCHANGED faults) /\ Goto(s, "failed") /\ UNCHANGED <<pool, sent>>
  /\ UNCHANGED <<nonce, sends, recovered, prevFee, mined, price>>

SlashReceipt(s) ==
  /\ pc[s] = "waiting"
  /\ \E i \in 1..Len(mined) :
       mined[i].tx.op = s /\ Goto(s, IF mined[i].ok THEN "ok" ELSE "failed")
  /\ fifo' = SelectSeq(fifo, LAMBDA o : o # s)
  /\ UNCHANGED <<locals, net, faults>>

-----------------------------------------------------------------------------
(* attestLiveness: it yields to a slash at its start, and again before and *)
(* after it takes its first nonce.                                         *)
AttestCall(a) ==
  /\ pc[a] = "idle"
  /\ Goto(a, IF HasPendingSlash THEN "failed" ELSE "preflight")
  /\ UNCHANGED <<fifo, locals, net, faults>>

AttestPreflight(a) ==
  /\ pc[a] = "preflight"
  /\ \/ Goto(a, "queued") /\ fifo' = Append(fifo, a) /\ UNCHANGED faults
     \/ Fault /\ Goto(a, "failed") /\ UNCHANGED fifo
  /\ UNCHANGED <<locals, net>>

SentBy(a) == {t \in sent : t.op = a}
Yields(a) == SentBy(a) = {} /\ HasPendingSlash
Release(a) == fifo' = SelectSeq(fifo, LAMBDA o : o # a)

AttestNonce(a) ==
  /\ pc[a] = "queued" /\ Turn(a)
  /\ IF Yields(a) THEN Goto(a, "reconcile") /\ Release(a) /\ UNCHANGED nonce
     ELSE /\ nonce' = [nonce EXCEPT ![a] = IF @ = 0 THEN PendingCount ELSE @]
          /\ Goto(a, "sending")
          /\ UNCHANGED fifo
  /\ UNCHANGED <<sends, recovered, prevFee, sent, net, faults>>

(* nextAttestFees: a resend strictly exceeds the one before, and follows   *)
(* the network's estimate, which knows the price once something was mined. *)
NextAttestFee(a) ==
  LET estimate == IF mined = <<>> THEN 1 ELSE price
  IN IF prevFee[a] + 1 > estimate THEN prevFee[a] + 1 ELSE estimate

(* The send, and the recoveries: a consumed nonce is fetched afresh unless *)
(* one of our own transactions took it; an underpriced replacement is sent *)
(* again; after too many of them, or another error, the loop ends.         *)
AttestSend(a) ==
  LET t == [op |-> a, nonce |-> nonce[a], fee |-> NextAttestFee(a)]
      recover(p) == /\ recovered' = [recovered EXCEPT ![a] = @ + 1]
                    /\ Goto(a, IF recovered[a] + 1 > 2 * MaxSends + 2 THEN "reconcile" ELSE p)
  IN
  /\ pc[a] = "sending"
  /\ Release(a)
  /\ prevFee' = [prevFee EXCEPT ![a] = t.fee]
  /\ IF Yields(a)
     THEN Goto(a, "reconcile") /\ UNCHANGED <<sends, recovered, sent, pool, faults>>
     ELSE \/ /\ Accept(t)
             /\ sends' = [sends EXCEPT ![a] = @ + 1]
             /\ Goto(a, "waiting")
             /\ UNCHANGED <<recovered, faults>>
          \/ Expired(t) /\ recover("expired") /\ UNCHANGED <<sends, sent, pool, faults>>
          \/ Fault /\ recover("requeue") /\ UNCHANGED <<sends, sent, pool>>
          \/ Fault /\ Goto(a, "reconcile") /\ UNCHANGED <<sends, recovered, sent, pool>>
  /\ UNCHANGED <<nonce, mined, price>>

(* A mutated form of Reconciled: a transaction that was sent counts.       *)
ReconciledSent(a) == SentBy(a) # {}
Reconciled(a) == \E i \in 1..Len(mined) : mined[i].ok /\ mined[i].tx \in SentBy(a)

AttestExpired(a) ==
  /\ pc[a] = "expired"
  /\ \/ Reconciled(a) /\ Goto(a, "ok") /\ UNCHANGED <<nonce, prevFee, faults>>
     \/ /\ IF Reconciled(a) THEN Fault ELSE UNCHANGED faults
        /\ nonce' = [nonce EXCEPT ![a] = 0]
        /\ prevFee' = [prevFee EXCEPT ![a] = 0]
        /\ Goto(a, "requeue")
  /\ UNCHANGED <<fifo, sends, recovered, sent, net>>

AttestRequeue(a) ==
  /\ pc[a] = "requeue"
  /\ fifo' = Append(fifo, a)
  /\ Goto(a, "queued")
  /\ UNCHANGED <<locals, net, faults>>

(* The receipt of the last transaction sent, or the timeout.               *)
AttestReceipt(a) ==
  /\ pc[a] = "waiting"
  /\ \E i \in 1..Len(mined) :
       /\ mined[i].tx.op = a /\ mined[i].tx.fee = prevFee[a]
       /\ Goto(a, IF mined[i].ok THEN "ok" ELSE "reconcile")
  /\ UNCHANGED <<fifo, locals, net, faults>>

AttestTimeout(a) ==
  /\ pc[a] = "waiting"
  /\ Goto(a, IF sends[a] < MaxSends THEN "requeue" ELSE "reconcile")
  /\ UNCHANGED <<fifo, locals, net, faults>>

AttestReconcile(a) ==
  /\ pc[a] = "reconcile"
  /\ \/ Reconciled(a) /\ Goto(a, "ok") /\ UNCHANGED faults
     \/ (IF Reconciled(a) THEN Fault ELSE UNCHANGED faults) /\ Goto(a, "failed")
  /\ UNCHANGED <<fifo, locals, net>>

-----------------------------------------------------------------------------
(* The next nonce is mined; the call may revert.                           *)
Mine ==
  /\ \E t \in pool :
       /\ t.nonce = Len(mined) + 1 /\ t.fee >= price
       /\ pool' = pool \ {t}
       /\ \/ mined' = Append(mined, [tx |-> t, ok |-> TRUE]) /\ UNCHANGED faults
          \/ mined' = Append(mined, [tx |-> t, ok |-> FALSE]) /\ Fault
  /\ UNCHANGED <<pc, fifo, locals, price>>

(* An attestation that failed half-way leaves its transaction to a price   *)
(* that falls back; nothing else relies on that.                           *)
PriceFalls ==
  /\ faults > 0 /\ price > 1
  /\ price' = 1
  /\ UNCHANGED <<pc, fifo, locals, pool, mined, faults>>

Init ==
  /\ pc = [o \in Ops |-> "idle"]
  /\ fifo = <<>>
  /\ nonce = [o \in Ops |-> 0] /\ sends = [o \in Ops |-> 0] /\ recovered = [o \in Ops |-> 0]
  /\ prevFee = [o \in Ops |-> 0]
  /\ sent = {} /\ pool = {} /\ mined = <<>>
  /\ price \in 1..MaxSends
  /\ faults = 0

SlashStep(s) == SlashPreflight(s) \/ SlashNonce(s) \/ SlashSend(s) \/ SlashReceipt(s)
AttestStep(a) ==
  \/ AttestPreflight(a) \/ AttestNonce(a) \/ AttestSend(a) \/ AttestExpired(a) \/ AttestRequeue(a)
  \/ AttestReceipt(a) \/ AttestTimeout(a) \/ AttestReconcile(a)

Next ==
  \/ \E s \in Slashes : SlashCall(s) \/ SlashStep(s)
  \/ \E a \in Attests : AttestCall(a) \/ AttestStep(a)
  \/ Mine \/ PriceFalls

Spec == Init /\ [][Next]_vars

(* Every await settles, and the network mines what pays.                   *)
FairSpec ==
  /\ Spec
  /\ WF_vars(Mine) /\ WF_vars(PriceFalls)
  /\ \A s \in Slashes : WF_vars(SlashStep(s))
  /\ \A a \in Attests : WF_vars(AttestStep(a))

-----------------------------------------------------------------------------
(* No write displaces another one: every nonce is used by one call only,   *)
(* so that a slash is never replaced by an attestation or by another slash *)
(* (enqueueWalletWrite).                                                   *)
NonceExclusive == \A t, u \in sent : t.nonce = u.nonce => t.op = u.op

(* A slash that is asked for returns and, unless something failed, is on   *)
(* the chain, although an attestation in front of it may be stuck: the     *)
(* turn is not held while a call waits, so that the attestation can raise  *)
(* its fee (runWithSlashPriority, enqueueWalletWrite).                     *)
SlashLands ==
  \A s \in Slashes : []<>(pc[s] \in {"idle", "ok"} \/ (faults > 0 /\ pc[s] = "failed"))

(* The wallet keeps its promise.                                           *)
Promise == INSTANCE WalletPromise WITH
  Ops <- Ops,
  status <- [o \in Ops |-> IF pc[o] \in {"idle", "ok", "failed"} THEN pc[o] ELSE "open"],
  landed <- {mined[i].tx.op : i \in {j \in 1..Len(mined) : mined[j].ok}}

(* Every call returns, success is reported only for a transaction that is  *)
(* on the chain, and a call returns once (attestLiveness, the slash writes)*)
KeepsPromise == Promise!PromiseSpec
===============================================================================
