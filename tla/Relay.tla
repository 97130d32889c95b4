-------------------------------- MODULE Relay --------------------------------
(***************************************************************************)
(* The gasless purchase relay (relay.service.ts): a request passes the     *)
(* hourly limits and the off-chain checks of its BuyIntent, then waits its *)
(* turn on the submission chain, is simulated, and is broadcast from the   *)
(* operator wallet, whose next nonce each transaction reads for itself.    *)
(***************************************************************************)
EXTENDS Integers, Sequences, FiniteSets

CONSTANTS
  MaxRequests,     \* bound on the requests, numbered as they come
  Bodies,          \* their bodies: [buyer, flaws, deadline], flaws a set of what is wrong
  MaxPerAddress,   \* RELAY_RATE_LIMIT_PER_ADDRESS_PER_HOUR
  MaxGlobal,       \* RELAY_RATE_LIMIT_GLOBAL_PER_HOUR
  HourLength,      \* clock ticks in a rate-limit window
  MaxClock,        \* bound on the clock
  MaxFaults        \* bound on the calls to the endpoint that fail

(* The limits and the window are non-negative settings, and the window is   *)
(* not empty (relay.service.ts: the constructor, an hour of 3600 s).        *)
RelayConstants ==
  /\ MaxRequests \in Nat /\ MaxClock \in Nat /\ MaxPerAddress \in Nat
  /\ HourLength \in Nat \ {0}

VARIABLES
  clock,
  body,            \* request -> {} or its body
  at,              \* request -> idle | chained | fees | send | answered
  answer,          \* request -> "none", a RelayErrorCode, or "ok"
  counts,          \* the rate-limit counters: buyer -> epoch -> admitted requests
  submitChain,     \* the requests waiting for the wallet, in order
  nonceRead,       \* request -> the nonce its transaction was signed with
  broadcasts,      \* the transactions accepted by the endpoint: [req, nonce, at]
  faults

rvars == <<clock, body, at, answer, counts, submitChain, nonceRead, broadcasts, faults>>

Calls == 1..MaxRequests
Buyers == {b.buyer : b \in Bodies}
Epochs == 0..(MaxClock \div HourLength)
epoch == clock \div HourLength
b(r) == CHOOSE x \in body[r] : TRUE
Fault == faults < MaxFaults /\ faults' = faults + 1
Answered(r, code) == at' = [at EXCEPT ![r] = "answered"] /\ answer' = [answer EXCEPT ![r] = code]
Total(e) == LET ofEpoch[S \in SUBSET Buyers] ==
                  IF S = {} THEN 0 ELSE LET x == CHOOSE x \in S : TRUE IN counts[x][e] + ofEpoch[S \ {x}]
            IN  ofEpoch[Buyers]

(* checkRateLimit, with pruneWindows: counters of earlier windows are      *)
(* dropped.                                                                *)
Allowed(buyer) == counts[buyer][epoch] < MaxPerAddress /\ Total(epoch) < MaxGlobal
Counted(buyer) ==
  counts' = [x \in Buyers |-> [e \in Epochs |->
              IF e < epoch THEN 0 ELSE counts[x][e] + (IF x = buyer /\ e = epoch THEN 1 ELSE 0)]]

(* validateAndBuild: the first check that fails names the error.           *)
Validate(x) ==
  CASE "fields" \in x.flaws -> "INVALID_SHAPE"
    [] "token" \in x.flaws -> "NOT_WHITELISTED"
    [] x.deadline < clock -> "EXPIRED"
    [] "amount" \in x.flaws -> "INVALID_SHAPE"
    [] "cap" \in x.flaws -> "NOT_WHITELISTED"
    [] "signature" \in x.flaws -> "SIGNATURE_INVALID"
    [] "transferAuth" \in x.flaws -> "INVALID_SHAPE"
    [] OTHER -> "ok"

(* A mutated form of Request: the limit is counted after the submission.   *)
RequestUncounted(r, x) ==
  /\ at[r] = "idle" /\ \A q \in 1..(r - 1) : at[q] # "idle"
  /\ body' = [body EXCEPT ![r] = {x}]
  /\ IF ~Allowed(x.buyer) THEN Answered(r, "RATE_LIMITED") /\ UNCHANGED <<counts, submitChain>>
     ELSE IF Validate(x) # "ok" THEN Answered(r, Validate(x)) /\ UNCHANGED <<counts, submitChain>>
     ELSE /\ at' = [at EXCEPT ![r] = "chained"]
          /\ submitChain' = Append(submitChain, r)
          /\ UNCHANGED <<answer, counts>>
  /\ UNCHANGED <<clock, nonceRead, broadcasts, faults>>

(* relay: everything up to the submission runs without a pause.            *)
Request(r, x) ==
  /\ at[r] = "idle" /\ \A q \in 1..(r - 1) : at[q] # "idle"
  /\ body' = [body EXCEPT ![r] = {x}]
  /\ IF "buyer" \in x.flaws
       THEN Answered(r, "INVALID_SHAPE") /\ UNCHANGED <<counts, submitChain>>
     ELSE IF ~Allowed(x.buyer)
       THEN Answered(r, "RATE_LIMITED") /\ UNCHANGED <<counts, submitChain>>
     ELSE /\ Counted(x.buyer)
          /\ IF Validate(x) # "ok" THEN Answered(r, Validate(x)) /\ UNCHANGED submitChain
             ELSE /\ at' = [at EXCEPT ![r] = "chained"]
                  /\ submitChain' = Append(submitChain, r)
                  /\ UNCHANGED answer
  /\ UNCHANGED <<clock, nonceRead, broadcasts, faults>>

Turn(r) == submitChain # <<>> /\ Head(submitChain) = r

(* A submission ends: the next one runs whatever its outcome.              *)
Leave(r) == submitChain' = SelectSeq(submitChain, LAMBDA x : x # r)

(* sendTx simulates the call first; one that would revert costs nothing.   *)
Preflight(r) ==
  /\ at[r] = "chained" /\ Turn(r)
  /\ \/ /\ b(r).deadline >= clock
        /\ at' = [at EXCEPT ![r] = "fees"]
        /\ UNCHANGED <<answer, submitChain, faults>>
     \/ /\ IF b(r).deadline < clock THEN UNCHANGED faults ELSE Fault
        /\ Answered(r, "PREFLIGHT_REVERTED") /\ Leave(r)
  /\ UNCHANGED <<clock, body, counts, nonceRead, broadcasts>>

(* bumpedFees, then sendTransaction reads the wallet's pending nonce.      *)
ReadNonce(r) ==
  /\ at[r] = "fees"
  /\ \/ /\ at' = [at EXCEPT ![r] = "send"]
        /\ nonceRead' = [nonceRead EXCEPT ![r] = Cardinality({t.nonce : t \in broadcasts})]
        /\ UNCHANGED <<answer, submitChain, faults>>
     \/ Answered(r, "SUBMIT_FAILED") /\ Leave(r) /\ Fault /\ UNCHANGED nonceRead
  /\ UNCHANGED <<clock, body, counts, broadcasts>>

(* The broadcast; the relay answers with the hash and does not wait for    *)
(* the receipt.                                                            *)
Send(r) ==
  /\ at[r] = "send"
  /\ \/ /\ broadcasts' = broadcasts \union {[req |-> r, nonce |-> nonceRead[r], epoch |-> epoch]}
        /\ Answered(r, "ok") /\ Leave(r) /\ UNCHANGED faults
     \/ Answered(r, "SUBMIT_FAILED") /\ Leave(r) /\ Fault /\ UNCHANGED broadcasts
  /\ UNCHANGED <<clock, body, counts, nonceRead>>

Tick ==
  /\ clock < MaxClock
  /\ clock' = clock + 1
  /\ UNCHANGED <<body, at, answer, counts, submitChain, nonceRead, broadcasts, faults>>

RelayInit ==
  /\ clock = 0 /\ submitChain = <<>> /\ broadcasts = {} /\ faults = 0
  /\ body = [r \in Calls |-> {}] /\ at = [r \in Calls |-> "idle"]
  /\ answer = [r \in Calls |-> "none"] /\ nonceRead = [r \in Calls |-> 0]
  /\ counts = [x \in Buyers |-> [e \in Epochs |-> 0]]

Submission(r) == Preflight(r) \/ ReadNonce(r) \/ Send(r)

RelayNext ==
  \/ \E r \in Calls : (\E x \in Bodies : Request(r, x)) \/ Submission(r)
  \/ Tick

RelayFairness == \A r \in Calls : WF_rvars(Submission(r))

RelaySpec == RelayInit /\ [][RelayNext]_rvars /\ RelayFairness

-----------------------------------------------------------------------------
(* A transaction the relay reported is not displaced by another of the     *)
(* relay's own: no two are broadcast with the same nonce (submitChain).    *)
NoncesDistinct == \A s, t \in broadcasts : s.nonce = t.nonce => s = t

(* The limits bound what the wallet pays for: up to any hour, a buyer's     *)
(* broadcasts fit the quota of the hours begun, however the requests        *)
(* overlap (checkRateLimit).                                                *)
BroadcastsWithinQuota ==
  \A x \in Buyers :
    Cardinality({t \in broadcasts : b(t.req).buyer = x}) <= MaxPerAddress * (epoch + 1)

(* Every request is answered: a failed or reverting submission does not     *)
(* hold up those behind it (submit).                                        *)
RequestAnswered == \A r \in Calls : at[r] # "idle" ~> at[r] = "answered"
===============================================================================
