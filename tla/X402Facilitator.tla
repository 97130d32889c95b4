---------------------------- MODULE X402Facilitator ----------------------------
(***************************************************************************)
(* The x402 payment facilitator (x402-facilitator.service.ts, the HMAC     *)
(* guard x402-auth.guard.ts and its controller): verify reads whether a    *)
(* payment's nonce is spent and checks its authorization; settle submits   *)
(* it on a serialised chain and waits for the receipt.  The contract, and  *)
(* the other facilitators that settle the same payments, are external.     *)
(***************************************************************************)
EXTENDS Integers, Sequences, FiniteSets

CONSTANTS
  MaxRequests,     \* bound on the requests, numbered as they come
  Payments,        \* [flaws, scheme, from, nonce, salt, validBefore, signed]
  AuthEnabled,     \* X402_AUTH_ENABLED with a secret set
  AuthTtl,         \* X402_AUTH_TTL_MS in clock ticks
  MaxClock,        \* bound on the clock
  MaxFaults        \* bound on the calls to the endpoint that fail

VARIABLES
  clock,
  pay,             \* request -> {} or the payment it carries
  at,              \* request -> idle | signature | chained | send | wait | answered
  answer,          \* request -> none | refused | valid | settled | failed
  spentBefore,     \* request -> its payment was spent when it came
  spent,           \* x402SettlementNonces: the keys the contract has recorded
  submitChain,
  txs,             \* the node's settlements broadcast: [req, status]
  faults

xvars == <<clock, pay, at, answer, spentBefore, spent, submitChain, txs, faults>>

Calls == 1..MaxRequests
p(r) == CHOOSE x \in pay[r] : TRUE
Fault == faults < MaxFaults /\ faults' = faults + 1
Answered(r, code) == at' = [at EXCEPT ![r] = "answered"] /\ answer' = [answer EXCEPT ![r] = code]

(* normalize: any structural problem refuses the request; an absent salt   *)
(* falls back to the nonce.                                                *)
Normal(x) == x.flaws = {}
Salt(x) == IF x.salt = "absent" THEN x.nonce ELSE x.salt

(* effectiveNonce: the nonce the contract derives, by scheme.  With the     *)
(* payer it is the key the contract records.                                *)
EffectiveNonce(x) == IF x.scheme = "direct" THEN <<"raw", x.nonce>> ELSE <<"eip3009", Salt(x)>>

NonceKey(x) == <<x.from, EffectiveNonce(x)>>
ContractKey(x) == <<x.from, IF x.scheme = "direct" THEN <<"raw", x.nonce>> ELSE <<"eip3009", Salt(x)>>>>

(* verifySignatureOffChain: the two schemes end at different instants.     *)
Expired(x) == IF x.scheme = "direct" THEN clock > x.validBefore ELSE clock >= x.validBefore

(* The contract accepts a payment that is signed, in time and not spent.   *)
ContractAccepts(x) == x.signed /\ ~Expired(x) /\ ContractKey(x) \notin spent

Arrive(r, x) ==
  /\ at[r] = "idle" /\ \A q \in 1..(r - 1) : at[q] # "idle"
  /\ pay' = [pay EXCEPT ![r] = {x}]
  /\ spentBefore' = [spentBefore EXCEPT ![r] = ContractKey(x) \in spent]

(* verify: normalize, then the nonce is looked up on chain.                *)
Verify(r, x) ==
  /\ Arrive(r, x)
  /\ \/ /\ ~Normal(x) \/ NonceKey(x) \in spent
        /\ Answered(r, "refused") /\ UNCHANGED faults
     \/ Answered(r, "refused") /\ Fault
     \/ /\ Normal(x) /\ NonceKey(x) \notin spent
        /\ at' = [at EXCEPT ![r] = "signature"] /\ UNCHANGED <<answer, faults>>
  /\ UNCHANGED <<clock, spent, submitChain, txs>>

(* Then its expiry and signature, by recovery or by the payer's account.   *)
VerifySignature(r) ==
  /\ at[r] = "signature"
  /\ Answered(r, IF p(r).signed /\ ~Expired(p(r)) THEN "valid" ELSE "refused")
  /\ UNCHANGED <<clock, pay, spentBefore, spent, submitChain, txs, faults>>

(* canActivate: the request's timestamp is within the TTL, its HMAC right. *)
CanActivate(sentAt, macOk) == AuthEnabled => (clock - sentAt <= AuthTtl /\ macOk)

(* settle normalises again and joins the chain.                            *)
Settle(r, x, sentAt, macOk) ==
  /\ Arrive(r, x)
  /\ IF CanActivate(sentAt, macOk) /\ Normal(x)
       THEN /\ submitChain' = Append(submitChain, r)
            /\ at' = [at EXCEPT ![r] = "chained"] /\ UNCHANGED answer
       ELSE Answered(r, "refused") /\ UNCHANGED submitChain
  /\ UNCHANGED <<clock, spent, txs, faults>>

Leave == submitChain' = Tail(submitChain)

(* sendSettle: the call is estimated, so one the contract would refuse     *)
(* fails here; a failing endpoint too.                                     *)
SendSettle(r) ==
  /\ at[r] = "chained" /\ Head(submitChain) = r
  /\ \/ /\ ContractAccepts(p(r))
        /\ txs' = txs \union {[req |-> r, status |-> "pending"]}
        /\ at' = [at EXCEPT ![r] = "wait"]
        /\ UNCHANGED <<answer, submitChain, faults>>
     \/ /\ IF ContractAccepts(p(r)) THEN Fault ELSE UNCHANGED faults
        /\ Answered(r, "failed") /\ Leave /\ UNCHANGED txs
  /\ UNCHANGED <<clock, pay, spentBefore, spent>>

(* A settlement is mined, and reverts if the payment was spent meanwhile.  *)
Mine(t) ==
  /\ t.status = "pending"
  /\ LET ok == ContractAccepts(p(t.req)) IN
     /\ txs' = (txs \ {t}) \union {[t EXCEPT !.status = IF ok THEN "settled" ELSE "reverted"]}
     /\ spent' = IF ok THEN spent \union {ContractKey(p(t.req))} ELSE spent
  /\ UNCHANGED <<clock, pay, at, answer, spentBefore, submitChain, faults>>

Mined(r) == \E t \in txs : t.req = r /\ t.status # "pending"
MinedWell(r) == \E t \in txs : t.req = r /\ t.status = "settled"

(* A mutated form of Receipt: any receipt is a success.                    *)
ReceiptAny(r) ==
  /\ at[r] = "wait"
  /\ Mined(r) /\ Answered(r, "settled") /\ Leave /\ UNCHANGED faults
  /\ UNCHANGED <<clock, pay, spentBefore, spent, txs>>

(* tx.wait(1) has no deadline: the chain is held until the receipt comes,  *)
(* or the endpoint fails.                                                  *)
Receipt(r) ==
  /\ at[r] = "wait"
  /\ \/ Mined(r) /\ Answered(r, IF MinedWell(r) THEN "settled" ELSE "failed") /\ UNCHANGED faults
     \/ Answered(r, "failed") /\ Fault
  /\ Leave
  /\ UNCHANGED <<clock, pay, spentBefore, spent, txs>>

(* Another facilitator settles the payment.                                *)
SettledElsewhere(x) ==
  /\ Normal(x) /\ ContractAccepts(x)
  /\ spent' = spent \union {ContractKey(x)}
  /\ UNCHANGED <<clock, pay, at, answer, spentBefore, submitChain, txs, faults>>

Tick ==
  /\ clock < MaxClock
  /\ clock' = clock + 1
  /\ UNCHANGED <<pay, at, answer, spentBefore, spent, submitChain, txs, faults>>

X402Init ==
  /\ clock = 0 /\ spent = {} /\ submitChain = <<>> /\ txs = {} /\ faults = 0
  /\ pay = [r \in Calls |-> {}] /\ at = [r \in Calls |-> "idle"]
  /\ answer = [r \in Calls |-> "none"] /\ spentBefore = [r \in Calls |-> FALSE]

Submission(r) == SendSettle(r) \/ Receipt(r)

X402Next ==
  \/ \E r \in Calls, x \in Payments :
       Verify(r, x) \/ \E sentAt \in 0..clock, macOk \in {TRUE} \union {~AuthEnabled} : Settle(r, x, sentAt, macOk)
  \/ \E r \in Calls : VerifySignature(r) \/ Submission(r)
  \/ \E t \in txs : Mine(t)
  \/ \E x \in Payments : SettledElsewhere(x)
  \/ Tick

X402Fairness ==
  /\ \A r \in Calls : WF_xvars(VerifySignature(r)) /\ WF_xvars(Submission(r))
  /\ WF_xvars(\E t \in txs : Mine(t))

X402Spec == X402Init /\ [][X402Next]_xvars /\ X402Fairness

-----------------------------------------------------------------------------
(* A client told that its payment settled was told so by the receipt of    *)
(* its own transaction, and no second request for that payment is told so  *)
(* (sendSettle, beside the other facilitators).                            *)
SettledOnce ==
  \A r \in Calls : answer[r] = "settled" =>
    /\ [req |-> r, status |-> "settled"] \in txs
    /\ \A q \in Calls \ {r} : answer[q] = "settled" => ContractKey(p(q)) # ContractKey(p(r))

(* verify refuses a payment that was spent before the request came: the     *)
(* nonce it looks up is the one the contract records (effectiveNonce).      *)
VerifyRefusesSpent ==
  \A r \in Calls : answer[r] = "valid" => ~spentBefore[r]

(* Every settlement is answered, those behind a failed one too (submitChain *)
(* and the wait at its head).                                               *)
SettleAnswered == \A r \in Calls : at[r] # "idle" ~> at[r] = "answered"

(* One payment is settled for one request, and a spent one is not valid.   *)
SettlementSound == SettledOnce /\ VerifyRefusesSpent
===============================================================================
