--------------------------- MODULE NodeServicesProofs ---------------------------
(***************************************************************************)
(* What the node's services decide, for every value of their constants:     *)
(* the policy gate, the x402 facilitator, and the gasless relay; and what   *)
(* the liveness keeper confirms.                                            *)
(***************************************************************************)
EXTENDS NodeServices, LivenessKeeper, FunctionTheorems, FiniteSetTheorems, TLAPS

-----------------------------------------------------------------------------
(* The policy gate.                                                         *)

\* The call data decodes and the floor lets every call of it pass
FloorHeld ==
  /\ Gate!Decodes /\ op.calls # <<>>
  /\ \A i \in DOMAIN op.calls : Gate!FloorPasses(op.calls[i])

\* Every call is asked about, as normalizeForPolicy reduces it
AskedAll == asked = [i \in DOMAIN op.calls |-> Gate!normalizeForPolicy(op.calls[i])]

GateInv ==
  /\ op.fn = "execute" => op.aligned
  /\ gateAt \in {"start", "evaluate"} => ~allowed
  /\ gateAt = "ask" => config.enabled /\ FloorHeld /\ AskedAll
  /\ gateAt = "done" /\ allowed /\ config.enabled =>
       /\ FloorHeld
       /\ config.registry => AskedAll /\ \A i \in DOMAIN asked : answers[i] \in Gate!Passing

(* What the floor's check of a call says of the call itself                 *)
(* (normalizeForPolicy, FloorPasses).                                       *)
LEMMA FloorCovers ==
  ASSUME NEW c, Gate!FloorPasses(c)
  PROVE  /\ \A cap \in config.cap : c.value <= cap
         /\ config.allow = {} \/ Gate!Touched(c) \subseteq config.allow
PROOF
  <1>1. \A cap \in config.cap : c.value <= cap
    BY Zenon DEF Gate!FloorPasses
  <1>2. CASE c.payload.fn \in Gate!TokenFns
    BY <1>1, <1>2 DEF Gate!FloorPasses, Gate!normalizeForPolicy, Gate!Touched
  <1>3. CASE c.payload.fn \notin Gate!TokenFns
    BY <1>1, <1>3 DEF Gate!FloorPasses, Gate!normalizeForPolicy, Gate!Touched
  <1> QED  BY ZenonT(30), <1>2, <1>3

(* The question asked about a call names the contract it calls, its         *)
(* function, and the asset and amount that move (normalizeForPolicy).       *)
LEMMA QuestionCovers ==
  ASSUME NEW c
  PROVE  LET q == Gate!normalizeForPolicy(c) IN
         /\ q.contract = c.to /\ q.fn = c.payload.fn
         /\ Gate!TokenMove(c) \union Gate!NativeMove(c) \subseteq {<<q.asset, q.amount>>}
PROOF
  <1>1. CASE c.payload.fn \in Gate!TokenFns
    BY ZenonT(30), <1>1 DEF Gate!normalizeForPolicy, Gate!TokenMove, Gate!NativeMove
  <1>2. CASE c.payload.fn \notin Gate!TokenFns
    BY <1>2 DEF Gate!normalizeForPolicy, Gate!TokenMove, Gate!NativeMove
  <1> QED  BY ZenonT(30), <1>1, <1>2

(* GateInv holds of every behaviour.                                        *)
LEMMA GateInvHolds == Gate!GateSpec => []GateInv
PROOF
  <1>1. Gate!Init => GateInv
    BY DEF Gate!Init, GateInv
  <1>2. GateInv /\ [Gate!Next]_Gate!vars => GateInv'
    <2> SUFFICES ASSUME GateInv, [Gate!Next]_Gate!vars PROVE GateInv'
      BY ZenonT(30)
    <2>1. UNCHANGED <<config, op>>
      BY Zenon DEF Gate!Next, Gate!vars, Gate!Start, Gate!Evaluate, Gate!Conclude, Gate!checkPolicy
    <2>2. FloorHeld' = FloorHeld
      BY <2>1 DEF FloorHeld, Gate!Decodes, Gate!FloorPasses, Gate!normalizeForPolicy
    <2>3. UNCHANGED asked => AskedAll' = AskedAll
      BY ZenonT(30), <2>1 DEF AskedAll, Gate!normalizeForPolicy
    <2>4. CASE Gate!Start
      BY Zenon, <2>1, <2>4 DEF Gate!Start, GateInv
    <2>5. CASE Gate!Evaluate
      <3>1. CASE ~config.enabled /\ Gate!Decide(TRUE)
        BY ZenonT(30), <2>1, <3>1 DEF GateInv, Gate!Decide
      <3>2. CASE Gate!Decide(FALSE)
        BY <2>1, <3>2 DEF GateInv, Gate!Decide
      <3>3. CASE /\ config.enabled /\ Gate!Decodes /\ op.calls # <<>>
                 /\ \A i \in DOMAIN op.calls : op.calls[i].payload.ok /\ Gate!FloorPasses(op.calls[i])
                 /\ config.registry
                 /\ asked' = [i \in DOMAIN op.calls |-> Gate!normalizeForPolicy(op.calls[i])]
                 /\ gateAt' = "ask"
        <4>1. FloorHeld'
          BY ZenonT(30), <2>2, <3>3 DEF FloorHeld
        <4>2. AskedAll'
          BY <2>1, <3>3 DEF AskedAll, Gate!normalizeForPolicy
        <4> QED  BY ZenonT(30), <2>1, <3>3, <4>1, <4>2 DEF GateInv
      <3>4. CASE /\ config.enabled /\ Gate!Decodes /\ op.calls # <<>>
                 /\ \A i \in DOMAIN op.calls : op.calls[i].payload.ok /\ Gate!FloorPasses(op.calls[i])
                 /\ ~config.registry /\ Gate!Decide(TRUE)
        <4>1. FloorHeld'
          BY <2>2, <3>4 DEF FloorHeld
        <4> QED  BY ZenonT(30), <2>1, <3>4, <4>1 DEF GateInv, Gate!Decide
      <3> QED  BY ZenonT(30), <2>5, <3>1, <3>2, <3>3, <3>4 DEF Gate!Evaluate
    <2>6. CASE Gate!Conclude
      <3>1. /\ gateAt = "ask" /\ gateAt' = "done" /\ UNCHANGED <<asked, answers>>
            /\ allowed' => \A i \in DOMAIN asked : answers[i] \in Gate!Passing
        BY ZenonT(30), <2>6 DEF Gate!Conclude, Gate!Decide
      <3> QED  BY <2>1, <2>2, <2>3, <3>1 DEF GateInv, Gate!Passing
    <2>7. ASSUME NEW i \in 1..MaxCalls, Gate!checkPolicy(i) PROVE GateInv'
      <3>1. gateAt = "ask" /\ UNCHANGED asked /\ (UNCHANGED <<gateAt, allowed>> \/ Gate!Decide(FALSE))
        BY ZenonT(30), <2>7 DEF Gate!checkPolicy
      <3> QED  BY <2>1, <2>2, <2>3, <3>1 DEF GateInv, Gate!Decide
    <2>8. CASE UNCHANGED Gate!vars
      BY <2>1, <2>2, <2>3, <2>8 DEF GateInv, Gate!vars, Gate!Passing
    <2> QED  BY ZenonT(30), <2>4, <2>5, <2>6, <2>7, <2>8 DEF Gate!Next
  <1> QED  BY <1>1, <1>2, PTL DEF Gate!GateSpec

(* Whatever an enabled gate allows is covered, call by call, by each rule    *)
(* that is set (policy.service.ts: evaluate, normalizeForPolicy).           *)
THEOREM AllowedIsCoveredHolds == Gate!GateSpec => []AllowedIsCovered
PROOF
  <1>1. GateInv => AllowedIsCovered
    <2> SUFFICES ASSUME GateInv, gateAt = "done", allowed, config.enabled
                 PROVE  /\ op.fn # "other" /\ op.aligned /\ op.calls # <<>>
                        /\ \A i \in DOMAIN op.calls :
                             LET c == op.calls[i] IN
                             /\ \A cap \in config.cap : c.value <= cap
                             /\ config.allow = {} \/ Gate!Touched(c) \subseteq config.allow
                             /\ config.registry =>
                                  /\ answers[i] \in {0, 1}
                                  /\ asked[i].contract = c.to /\ asked[i].fn = c.payload.fn
                                  /\ Gate!TokenMove(c) \union Gate!NativeMove(c)
                                       \subseteq {<<asked[i].asset, asked[i].amount>>}
      BY ZenonT(30) DEF AllowedIsCovered, Gate!AllowedIsCovered
    <2>1. op.fn # "other" /\ op.aligned /\ op.calls # <<>>
      BY Zenon DEF GateInv, FloorHeld, Gate!Decodes
    <2>2. ASSUME NEW i \in DOMAIN op.calls
          PROVE  /\ \A cap \in config.cap : op.calls[i].value <= cap
                 /\ config.allow = {} \/ Gate!Touched(op.calls[i]) \subseteq config.allow
      BY FloorCovers DEF GateInv, FloorHeld
    <2>3. ASSUME NEW i \in DOMAIN op.calls, config.registry
          PROVE  /\ answers[i] \in {0, 1}
                 /\ asked[i].contract = op.calls[i].to /\ asked[i].fn = op.calls[i].payload.fn
                 /\ Gate!TokenMove(op.calls[i]) \union Gate!NativeMove(op.calls[i])
                      \subseteq {<<asked[i].asset, asked[i].amount>>}
      <3>1. asked[i] = Gate!normalizeForPolicy(op.calls[i]) /\ i \in DOMAIN asked
        BY ZenonT(30), <2>3 DEF GateInv, AskedAll
      <3>2. answers[i] \in {0, 1}
        BY <2>3, <3>1 DEF GateInv, Gate!Passing
      <3> QED  BY ZenonT(30), <3>1, <3>2, QuestionCovers
    <2> QED  BY ZenonT(30), <2>1, <2>2, <2>3
  <1> QED  BY <1>1, GateInvHolds, PTL
-----------------------------------------------------------------------------
(* The x402 facilitator.                                                     *)

Stages == {"idle", "signature", "chained", "wait", "answered"}
Codes == {"none", "refused", "valid", "settled", "failed"}
\* The settlements the node broadcasts
Settlements == [req : X402!Calls, status : {"pending", "settled", "reverted"}]

\* Every request has its payment, and whether it was spent when it came
PaymentsKept ==
  /\ DOMAIN pay = X402!Calls /\ pay = [q \in X402!Calls |-> pay[q]]
  /\ spentBefore \in [X402!Calls -> BOOLEAN]

\* What a request's stage and answer say
RequestsSound ==
  /\ x402At \in [X402!Calls -> Stages] /\ x402Answer \in [X402!Calls -> Codes]
  /\ \A q \in X402!Calls : x402At[q] = "signature" \/ x402Answer[q] = "valid" => ~spentBefore[q]
  /\ \A q \in X402!Calls : x402At[q] # "answered" => x402Answer[q] = "none"
  /\ \A q \in X402!Calls : x402Answer[q] = "settled" => [req |-> q, status |-> "settled"] \in txs
  /\ \A t \in txs : x402At[t.req] # "idle"

\* What the contract's record says of the node's settlements
BooksSound ==
  /\ txs \subseteq Settlements
  /\ \A t \in txs : t.status = "settled" => X402!ContractKey(X402!p(t.req)) \in spent
  /\ \A t, u \in txs : t.status = "settled" /\ u.status = "settled" /\ t.req # u.req
                         => X402!ContractKey(X402!p(t.req)) # X402!ContractKey(X402!p(u.req))

X402Inv == PaymentsKept /\ RequestsSound /\ BooksSound

\* Request r moves to a stage, perhaps with an answer
Moves(r, stage, code) ==
  /\ stage \in Stages \ {"idle"} /\ code \in Codes
  /\ x402At' = [x402At EXCEPT ![r] = stage] /\ x402Answer' = [x402Answer EXCEPT ![r] = code]
  /\ stage # "answered" => code = "none"

(* A request comes: its payment is fixed, no other request's changes, and   *)
(* one whose nonce is not spent is marked so (Arrive, NonceKey).             *)
LEMMA ArriveFacts ==
  ASSUME X402Inv, NEW r \in X402!Calls, NEW x \in Payments, X402!Arrive(r, x)
  PROVE  /\ PaymentsKept'
         /\ \A q \in X402!Calls \ {r} : pay'[q] = pay[q] /\ spentBefore'[q] = spentBefore[q]
         /\ X402!NonceKey(x) \notin spent => ~spentBefore'[r]
         /\ \A t \in txs : pay'[t.req] = pay[t.req]
         /\ x402Answer = [x402Answer EXCEPT ![r] = "none"]
PROOF
  <1>1. PaymentsKept'
    <2>1. DOMAIN pay' = X402!Calls /\ pay' = [q \in X402!Calls |-> pay'[q]]
      BY ZenonT(30) DEF X402Inv, PaymentsKept, X402!Arrive
    <2>2. spentBefore' \in [X402!Calls -> BOOLEAN]
      BY DEF X402Inv, PaymentsKept, X402!Arrive
    <2> QED  BY <2>1, <2>2 DEF PaymentsKept, X402!Calls
  <1>2. \A q \in X402!Calls \ {r} : pay'[q] = pay[q] /\ spentBefore'[q] = spentBefore[q]
    BY Zenon DEF X402Inv, PaymentsKept, X402!Arrive
  <1>3. X402!ContractKey(x) = X402!NonceKey(x)
    BY Zenon DEF X402!ContractKey, X402!NonceKey, X402!EffectiveNonce
  <1>4. spentBefore'[r] = (X402!ContractKey(x) \in spent)
    BY ZenonT(30) DEF X402Inv, PaymentsKept, X402!Arrive
  <1>5. \A t \in txs : t.req \in X402!Calls \ {r}
    BY ZenonT(30) DEF X402Inv, RequestsSound, BooksSound, X402!Arrive, Settlements
  <1>6. x402Answer = [x402Answer EXCEPT ![r] = "none"]
    BY ZenonT(30) DEF X402Inv, RequestsSound, X402!Arrive
  <1> QED  BY ZenonT(30), <1>1, <1>2, <1>3, <1>4, <1>5, <1>6

(* The contract's record stays sound while it and the settlements' payments *)
(* are left alone.                                                          *)
LEMMA BooksStay ==
  ASSUME X402Inv, UNCHANGED <<txs, spent>>, \A t \in txs : pay'[t.req] = pay[t.req]
  PROVE  BooksSound'
PROOF
  <1>1. \A t \in txs : X402!p(t.req)' = X402!p(t.req)
    BY Zenon DEF X402!p
  <1>2. \A t \in txs : X402!ContractKey(X402!p(t.req))' = X402!ContractKey(X402!p(t.req))
    BY Zenon, <1>1 DEF X402!ContractKey, X402!Salt
  <1> QED  BY <1>2 DEF X402Inv, BooksSound, Settlements, X402!Calls

(* The requests stay sound when one of them moves on: to the signature, or   *)
(* to valid, only if not spent before; to settled only with its settlement.  *)
LEMMA MovesOn ==
  ASSUME X402Inv, NEW r \in X402!Calls, NEW stage, NEW code, Moves(r, stage, code),
         stage = "signature" \/ code = "valid" => ~spentBefore'[r],
         \A q \in X402!Calls \ {r} : spentBefore'[q] = spentBefore[q],
         code = "settled" => [req |-> r, status |-> "settled"] \in txs,
         txs \subseteq txs', \A t \in txs' : t.req = r \/ t \in txs
  PROVE  RequestsSound'
PROOF
  <1>0. X402!Calls' = X402!Calls
    BY Zenon DEF X402!Calls
  <1>1. x402At' \in [X402!Calls -> Stages] /\ x402Answer' \in [X402!Calls -> Codes]
    BY Zenon DEF X402Inv, RequestsSound, Moves, Stages, Codes
  <1>2. x402At'[r] = stage /\ x402Answer'[r] = code
    BY Zenon DEF X402Inv, RequestsSound, Moves
  <1>3. \A q \in X402!Calls \ {r} : x402At'[q] = x402At[q] /\ x402Answer'[q] = x402Answer[q]
    BY DEF X402Inv, RequestsSound, Moves
  <1>4. \A q \in X402!Calls : x402At'[q] = "signature" \/ x402Answer'[q] = "valid" => ~spentBefore'[q]
    BY ZenonT(30), <1>2, <1>3 DEF X402Inv, RequestsSound
  <1>5. \A q \in X402!Calls : x402At'[q] # "answered" => x402Answer'[q] = "none"
    BY ZenonT(30), <1>2, <1>3 DEF X402Inv, RequestsSound, Moves
  <1>6. \A q \in X402!Calls : x402Answer'[q] = "settled" => [req |-> q, status |-> "settled"] \in txs'
    BY ZenonT(30), <1>2, <1>3 DEF X402Inv, RequestsSound
  <1>7. \A t \in txs' : x402At'[t.req] # "idle"
    BY <1>2, <1>3 DEF X402Inv, RequestsSound, BooksSound, Settlements, Moves
  <1> QED  BY ZenonT(30), <1>0, <1>1, <1>4, <1>5, <1>6, <1>7 DEF RequestsSound, Stages, Codes

(* verify starts: refused, or on to the signature (Verify).                 *)
LEMMA VerifyKeeps ==
  ASSUME X402Inv, NEW r \in X402!Calls, NEW x \in Payments, X402!Verify(r, x)
  PROVE  X402Inv'
PROOF
  <1>1. X402!Arrive(r, x) /\ UNCHANGED <<txs, spent>>
    BY ZenonT(30) DEF X402!Verify
  <1>2. /\ PaymentsKept'
        /\ \A q \in X402!Calls \ {r} : pay'[q] = pay[q] /\ spentBefore'[q] = spentBefore[q]
        /\ X402!NonceKey(x) \notin spent => ~spentBefore'[r]
        /\ \A t \in txs : pay'[t.req] = pay[t.req]
        /\ x402Answer = [x402Answer EXCEPT ![r] = "none"]
    BY ZenonT(30), <1>1, ArriveFacts
  <1>3. \/ Moves(r, "answered", "refused")
        \/ Moves(r, "signature", "none") /\ X402!NonceKey(x) \notin spent
    BY <1>2 DEF X402!Verify, X402!Answered, Moves, Stages, Codes
  <1>4. RequestsSound'
    BY ZenonT(30), <1>1, <1>2, <1>3, MovesOn
  <1> QED  BY ZenonT(30), <1>1, <1>2, <1>4, BooksStay DEF X402Inv

(* settle starts: refused, or on to the chain (Settle).                     *)
LEMMA SettleKeeps ==
  ASSUME X402Inv, NEW r \in X402!Calls, NEW x \in Payments, NEW sentAt, NEW macOk,
         X402!Settle(r, x, sentAt, macOk)
  PROVE  X402Inv'
PROOF
  <1>1. X402!Arrive(r, x) /\ UNCHANGED <<txs, spent>>
    BY DEF X402!Settle
  <1>2. /\ PaymentsKept'
        /\ \A q \in X402!Calls \ {r} : pay'[q] = pay[q] /\ spentBefore'[q] = spentBefore[q]
        /\ \A t \in txs : pay'[t.req] = pay[t.req]
        /\ x402Answer = [x402Answer EXCEPT ![r] = "none"]
    BY ZenonT(30), <1>1, ArriveFacts
  <1>3. Moves(r, "answered", "refused") \/ Moves(r, "chained", "none")
    BY <1>2 DEF X402!Settle, X402!Answered, Moves, Stages, Codes
  <1>4. RequestsSound'
    BY ZenonT(30), <1>1, <1>2, <1>3, MovesOn
  <1> QED  BY ZenonT(30), <1>1, <1>2, <1>4, BooksStay DEF X402Inv

(* The signature is checked: the request is answered (VerifySignature).     *)
LEMMA VerifySignatureKeeps ==
  ASSUME X402Inv, NEW r \in X402!Calls, X402!VerifySignature(r)
  PROVE  X402Inv'
PROOF
  <1>1. UNCHANGED <<txs, spent, pay, spentBefore>> /\ ~spentBefore[r]
    BY DEF X402!VerifySignature, X402Inv, RequestsSound
  <1>2. Moves(r, "answered", "valid") \/ Moves(r, "answered", "refused")
    BY ZenonT(30) DEF X402!VerifySignature, X402!Answered, Moves, Stages, Codes
  <1>3. RequestsSound'
    BY ZenonT(30), <1>1, <1>2, MovesOn
  <1>4. PaymentsKept'
    BY ZenonT(30), <1>1 DEF X402Inv, PaymentsKept, X402!Calls
  <1> QED  BY ZenonT(30), <1>1, <1>3, <1>4, BooksStay DEF X402Inv

(* A settlement is broadcast, or the request fails (SendSettle).            *)
LEMMA SendSettleKeeps ==
  ASSUME X402Inv, NEW r \in X402!Calls, X402!SendSettle(r)
  PROVE  X402Inv'
PROOF
  <1>1. UNCHANGED <<spent, pay, spentBefore>> /\ x402Answer = [x402Answer EXCEPT ![r] = "none"]
    BY DEF X402!SendSettle, X402Inv, RequestsSound
  <1>2. PaymentsKept'
    BY ZenonT(30), <1>1 DEF X402Inv, PaymentsKept, X402!Calls
  <1>3. CASE X402!Answered(r, "failed") /\ UNCHANGED txs
    <2>1. Moves(r, "answered", "failed")
      BY <1>3 DEF X402!Answered, Moves, Stages, Codes
    <2>2. RequestsSound'
      BY ZenonT(30), <1>1, <1>3, <2>1, MovesOn
    <2> QED  BY ZenonT(30), <1>1, <1>2, <1>3, <2>2, BooksStay DEF X402Inv
  <1>4. CASE /\ txs' = txs \union {[req |-> r, status |-> "pending"]}
             /\ x402At' = [x402At EXCEPT ![r] = "wait"] /\ UNCHANGED x402Answer
    <2>1. Moves(r, "wait", "none")
      BY ZenonT(30), <1>1, <1>4 DEF Moves, Stages, Codes
    <2>2. txs \subseteq txs' /\ \A t \in txs' : t.req = r \/ t \in txs
      BY <1>4
    <2>3. RequestsSound'
      BY ZenonT(30), <1>1, <2>1, <2>2, MovesOn
    <2>4. \A t \in txs : X402!p(t.req)' = X402!p(t.req)
      BY ZenonT(30), <1>1 DEF X402!p
    <2>5. \A t \in txs : X402!ContractKey(X402!p(t.req))' = X402!ContractKey(X402!p(t.req))
      BY ZenonT(30), <2>4 DEF X402!ContractKey, X402!Salt
    <2>6. \A t \in txs' : t.status = "settled" => t \in txs
      BY <1>4
    <2>7. txs' \subseteq Settlements
      BY <1>4 DEF X402Inv, BooksSound, Settlements
    <2>8. BooksSound'
      BY ZenonT(30), <1>1, <2>5, <2>6, <2>7 DEF X402Inv, BooksSound, Settlements, X402!Calls
    <2> QED  BY ZenonT(30), <1>2, <2>3, <2>8 DEF X402Inv
  <1> QED  BY ZenonT(30), <1>3, <1>4 DEF X402!SendSettle

(* A receipt or a failing wait answers the request (Receipt).               *)
LEMMA ReceiptKeeps ==
  ASSUME X402Inv, NEW r \in X402!Calls, X402!Receipt(r)
  PROVE  X402Inv'
PROOF
  <1>1. UNCHANGED <<txs, spent, pay, spentBefore>>
    BY ZenonT(30) DEF X402!Receipt
  <1>2. X402!MinedWell(r) => [req |-> r, status |-> "settled"] \in txs
    BY DEF X402!MinedWell, X402Inv, BooksSound, Settlements
  <1>3. \/ Moves(r, "answered", "settled") /\ X402!MinedWell(r)
        \/ Moves(r, "answered", "failed")
    BY Zenon DEF X402!Receipt, X402!Answered, Moves, Stages, Codes
  <1>4. RequestsSound'
    BY ZenonT(30), <1>1, <1>2, <1>3, MovesOn
  <1>5. PaymentsKept'
    BY ZenonT(30), <1>1 DEF X402Inv, PaymentsKept, X402!Calls
  <1> QED  BY ZenonT(30), <1>1, <1>4, <1>5, BooksStay DEF X402Inv

(* The requests stay sound while they are left alone and no settlement that *)
(* succeeded is lost.                                                       *)
LEMMA RequestsStay ==
  ASSUME X402Inv, UNCHANGED <<pay, x402At, x402Answer, spentBefore>>,
         \A t \in txs : t.status = "settled" => t \in txs',
         \A t \in txs' : \E u \in txs : t.req = u.req
  PROVE  PaymentsKept' /\ RequestsSound'
PROOF
  <1>1. \A q \in X402!Calls : x402Answer[q] = "settled" => [req |-> q, status |-> "settled"] \in txs'
    BY ZenonT(30) DEF X402Inv, RequestsSound
  <1>2. \A t \in txs' : x402At[t.req] # "idle"
    BY ZenonT(30) DEF X402Inv, RequestsSound
  <1> QED  BY ZenonT(30), <1>1, <1>2 DEF X402Inv, RequestsSound, PaymentsKept, X402!Calls, Stages, Codes

(* A settlement is mined: it succeeds only if its payment is in no other's   *)
(* name on the contract's record (Mine).                                    *)
LEMMA X402MineKeeps ==
  ASSUME X402Inv, NEW t \in txs, X402!Mine(t)
  PROVE  X402Inv'
PROOF
  <1> DEFINE ok == X402!ContractAccepts(X402!p(t.req))
             mined == [t EXCEPT !.status = IF ok THEN "settled" ELSE "reverted"]
             key == X402!ContractKey(X402!p(t.req))
  <1>1. /\ t.status = "pending" /\ UNCHANGED <<pay, x402At, x402Answer, spentBefore>>
        /\ txs' = (txs \ {t}) \union {mined}
        /\ spent' = IF ok THEN spent \union {key} ELSE spent
    BY ZenonT(30) DEF X402!Mine
  <1>2. t \in Settlements /\ txs \subseteq Settlements
    BY ZenonT(30) DEF X402Inv, BooksSound
  <1>3. /\ mined \in Settlements /\ mined.req = t.req
        /\ mined.status = "settled" => ok
    BY ZenonT(30), <1>2 DEF Settlements
  <1>4. ok => key \notin spent
    BY DEF X402!ContractAccepts
  <1> HIDE DEF ok, mined
  <1>5. \A u \in txs : u.status = "settled" => u \in txs'
    BY ZenonT(30), <1>1
  <1>6. \A u \in txs' : \E w \in txs : u.req = w.req
    BY ZenonT(30), <1>1, <1>3
  <1>7. PaymentsKept' /\ RequestsSound'
    BY ZenonT(30), <1>1, <1>5, <1>6, RequestsStay
  <1>8. \A q : X402!p(q)' = X402!p(q)
    BY ZenonT(30), <1>1 DEF X402!p
  <1>9. \A q : X402!ContractKey(X402!p(q))' = X402!ContractKey(X402!p(q))
    BY ZenonT(30), <1>8 DEF X402!ContractKey, X402!Salt
  <1>10. txs' \subseteq Settlements
    BY ZenonT(30), <1>1, <1>2, <1>3
  <1>11. \A u \in txs' : u.status = "settled" => X402!ContractKey(X402!p(u.req)) \in spent'
    BY ZenonT(30), <1>1, <1>3 DEF X402Inv, BooksSound
  <1>12. \A u, w \in txs' : u.status = "settled" /\ w.status = "settled" /\ u.req # w.req
                             => X402!ContractKey(X402!p(u.req)) # X402!ContractKey(X402!p(w.req))
    BY ZenonT(30), <1>1, <1>3, <1>4 DEF X402Inv, BooksSound
  <1>13. BooksSound'
    BY ZenonT(30), <1>9, <1>10, <1>11, <1>12 DEF BooksSound, Settlements, X402!Calls
  <1> QED  BY ZenonT(30), <1>7, <1>13 DEF X402Inv

(* Another facilitator's settlement only adds to the record                 *)
(* (SettledElsewhere).                                                      *)
LEMMA SettledElsewhereKeeps ==
  ASSUME X402Inv, NEW x \in Payments, X402!SettledElsewhere(x)
  PROVE  X402Inv'
PROOF
  <1>1. UNCHANGED <<pay, x402At, x402Answer, spentBefore, txs>> /\ spent \subseteq spent'
    BY DEF X402!SettledElsewhere
  <1>2. PaymentsKept' /\ RequestsSound'
    BY ZenonT(30), <1>1, RequestsStay
  <1>3. \A q : X402!p(q)' = X402!p(q)
    BY ZenonT(30), <1>1 DEF X402!p
  <1>4. \A q : X402!ContractKey(X402!p(q))' = X402!ContractKey(X402!p(q))
    BY ZenonT(30), <1>3 DEF X402!ContractKey, X402!Salt
  <1>5. BooksSound'
    BY <1>1, <1>4 DEF X402Inv, BooksSound, Settlements, X402!Calls
  <1> QED  BY ZenonT(30), <1>2, <1>5 DEF X402Inv

(* Nothing happens, or the clock moves.                                     *)
LEMMA X402IdleKeeps ==
  ASSUME X402Inv, X402!Tick \/ UNCHANGED X402!xvars
  PROVE  X402Inv'
PROOF
  <1>1. UNCHANGED <<pay, x402At, x402Answer, spentBefore, txs, spent>>
    BY Zenon DEF X402!Tick, X402!xvars
  <1>2. PaymentsKept' /\ RequestsSound'
    BY <1>1, RequestsStay
  <1> QED  BY ZenonT(30), <1>1, <1>2, BooksStay DEF X402Inv

(* X402Inv holds of every behaviour: one lemma per step of the service.     *)
LEMMA X402InvHolds == X402!X402Spec => []X402Inv
PROOF
  <1>1. X402!X402Init => X402Inv
    BY DEF X402!X402Init, X402Inv, PaymentsKept, RequestsSound, BooksSound, Stages, Codes, Settlements
  <1>2. X402Inv /\ [X402!X402Next]_X402!xvars => X402Inv'
    <2> SUFFICES ASSUME X402Inv, [X402!X402Next]_X402!xvars PROVE X402Inv'
      BY Zenon
    <2>1. ASSUME NEW r \in X402!Calls, NEW x \in Payments, X402!Verify(r, x) PROVE X402Inv'
      BY ZenonT(30), <2>1, VerifyKeeps
    <2>2. ASSUME NEW r \in X402!Calls, NEW x \in Payments, NEW sentAt, NEW macOk,
                 X402!Settle(r, x, sentAt, macOk)
          PROVE X402Inv'
      BY <2>2, SettleKeeps
    <2>3. ASSUME NEW r \in X402!Calls, X402!VerifySignature(r) \/ X402!Submission(r) PROVE X402Inv'
      BY ZenonT(30), <2>3, VerifySignatureKeeps, SendSettleKeeps, ReceiptKeeps DEF X402!Submission
    <2>4. ASSUME NEW t \in txs, X402!Mine(t) PROVE X402Inv'
      BY <2>4, X402MineKeeps
    <2>5. ASSUME NEW x \in Payments, X402!SettledElsewhere(x) PROVE X402Inv'
      BY ZenonT(30), <2>5, SettledElsewhereKeeps
    <2>6. CASE X402!Tick \/ UNCHANGED X402!xvars
      BY ZenonT(30), <2>6, X402IdleKeeps
    <2> QED  BY ZenonT(30), <2>1, <2>2, <2>3, <2>4, <2>5, <2>6 DEF X402!X402Next
  <1> QED  BY <1>1, <1>2, PTL DEF X402!X402Spec

(* A payment settles for one request, told so by its own receipt, and       *)
(* verify does not call a payment valid that was spent before it was asked  *)
(* (x402-facilitator.service.ts: sendSettle, effectiveNonce).               *)
THEOREM SettlementSoundHolds == X402!X402Spec => []SettlementSound
PROOF
  <1>1. X402Inv => SettlementSound
    <2> SUFFICES ASSUME X402Inv PROVE SettlementSound
      OBVIOUS
    <2>1. X402!SettledOnce
      <3>1. \A q \in X402!Calls : x402Answer[q] = "settled" => [req |-> q, status |-> "settled"] \in txs
        BY ZenonT(30) DEF X402Inv, RequestsSound
      <3>2. \A r, q \in X402!Calls :
              [req |-> r, status |-> "settled"] \in txs /\ [req |-> q, status |-> "settled"] \in txs /\ q # r
                => X402!ContractKey(X402!p(q)) # X402!ContractKey(X402!p(r))
        BY ZenonT(30) DEF X402Inv, BooksSound
      <3> QED  BY ZenonT(30), <3>1, <3>2 DEF X402!SettledOnce
    <2>2. X402!VerifyRefusesSpent
      BY ZenonT(30) DEF X402Inv, RequestsSound, X402!VerifyRefusesSpent
    <2> QED  BY <2>1, <2>2 DEF SettlementSound, X402!SettlementSound
  <1> QED  BY <1>1, X402InvHolds, PTL
-----------------------------------------------------------------------------
(* The gasless relay.                                                        *)

(* The quotient of a natural number: between the two multiples around it.   *)
LEMMA DivBounds ==
  ASSUME NEW c \in Nat, NEW h \in Nat \ {0}
  PROVE  c \div h \in Nat /\ h * (c \div h) <= c /\ c < h * (c \div h) + h
OBVIOUS

(* The product of natural numbers is one.                                   *)
LEMMA MulNat == ASSUME NEW m \in Nat, NEW n \in Nat PROVE m * n \in Nat
OBVIOUS

(* A bound on a count is one on any smaller count.                          *)
LEMMA WithinBelow ==
  ASSUME NEW a \in Nat, NEW c \in Nat, NEW m \in Nat, NEW n \in Nat, a <= c, c <= m + n
  PROVE  a <= m + n
OBVIOUS

(* One more of what is counted, and one more of what bounds it.             *)
LEMMA WithinOneMore ==
  ASSUME NEW a \in Nat, NEW c \in Nat, NEW d \in Nat, NEW m \in Nat, NEW n \in Nat,
         a <= d, d <= c + 1, c <= m + n
  PROVE  a <= m + (n + 1)
OBVIOUS

(* A number that is another, or the next, is at most the next.              *)
LEMMA SameOrNext ==
  ASSUME NEW c \in Nat, NEW d, d = c \/ d = c + 1
  PROVE  d \in Nat /\ d <= c + 1
OBVIOUS

(* Between a number and the next there is no other.                         *)
LEMMA NothingBetween ==
  ASSUME NEW c \in Nat, NEW d \in Nat, c <= d, d <= c + 1
  PROVE  d = c \/ d = c + 1
OBVIOUS

(* A count within the windows past and a part of this one fits the windows  *)
(* past and the whole of this one.                                          *)
LEMMA WithinWhole ==
  ASSUME NEW a \in Nat, NEW m \in Nat, NEW c \in Nat, NEW q \in Nat, NEW t \in Nat,
         a <= m + c, c <= q, m + q <= t
  PROVE  a <= t /\ a <= t + 0
OBVIOUS

(* The order of the natural numbers is transitive.                          *)
LEMMA LeqTrans == ASSUME NEW a \in Nat, NEW c \in Nat, NEW d \in Nat, a <= c, c <= d PROVE a <= d
OBVIOUS

(* A sum grows with its second part.                                        *)
LEMMA SumGrows ==
  ASSUME NEW m \in Nat, NEW c \in Nat, NEW q \in Nat, c <= q
  PROVE  m + c <= m + q /\ m + c \in Nat /\ m + q \in Nat
OBVIOUS

(* What is below a limit can grow by one, and a limit is above zero.        *)
LEMMA RoomForOne ==
  ASSUME NEW c \in Nat, NEW q \in Nat
  PROVE  (c < q => c + 1 <= q) /\ c + 0 = c /\ c + 1 > c /\ 0 <= q /\ 0 <= q + c
OBVIOUS

(* Multiplication by a positive number is strictly increasing.              *)
LEMMA MulGrows ==
  ASSUME NEW h \in Nat, NEW m \in Int, NEW n \in Int, m + 1 <= n
  PROVE  h * m + h <= h * n
OBVIOUS

(* A multiple and the next one.                                             *)
LEMMA MulNext ==
  ASSUME NEW h \in Nat, NEW m \in Nat
  PROVE  /\ h * m \in Nat /\ h * (m + 1) \in Nat
         /\ h * m + h <= h * (m + 1)
OBVIOUS

(* The quotient grows with the number, by one at most per tick.             *)
LEMMA DivGrows ==
  ASSUME NEW c \in Nat, NEW d \in Nat, c <= d, NEW h \in Nat \ {0}
  PROVE  c \div h <= d \div h /\ (d = c + 1 => d \div h <= c \div h + 1)
PROOF
  <1> DEFINE q == c \div h
             r == d \div h
  <1>1. /\ q \in Nat /\ h * q <= c /\ c < h * q + h
        /\ r \in Nat /\ h * r <= d /\ d < h * r + h
    BY ZenonT(30), DivBounds
  <1> HIDE DEF q, r
  <1>2. h * q \in Nat /\ h * r \in Nat /\ h * (q + 1) \in Nat
    BY <1>1
  <1>3. ~(r + 1 <= q)
    BY <1>1, <1>2, MulGrows
  <1>4. ASSUME d = c + 1 PROVE ~(q + 2 <= r)
    <2> SUFFICES ASSUME q + 2 <= r PROVE FALSE
      BY ZenonT(30)
    <2>1. h * (q + 1) + h <= h * r
      BY <1>1, MulGrows
    <2>2. h * q + h <= h * (q + 1)
      BY <1>1, MulGrows
    <2> QED  BY SMTT(30), <1>1, <1>2, <1>4, <2>1, <2>2
  <1>5. q <= r /\ (d = c + 1 => r <= q + 1)
    BY <1>1, <1>3, <1>4
  <1> QED  BY <1>5 DEF q, r

RelayStages == {"idle", "chained", "fees", "send", "answered"}

\* The requests of a buyer that count against its quota: admitted, and neither
\* refused nor failed since
Admitted(x) ==
  {r \in Gasless!Calls : (gaslessAt[r] \in {"chained", "fees", "send"} \/ gaslessAnswer[r] = "ok") /\ Gasless!b(r).buyer = x}

RelayTypes ==
  /\ gaslessClock \in Nat /\ gaslessClock <= RelayMaxClock
  /\ gaslessAt \in [Gasless!Calls -> RelayStages]
  /\ DOMAIN gaslessAnswer = Gasless!Calls /\ gaslessAnswer = [r \in Gasless!Calls |-> gaslessAnswer[r]]
  /\ DOMAIN body = Gasless!Calls /\ body = [r \in Gasless!Calls |-> body[r]]
  /\ \A r \in Gasless!Calls : gaslessAt[r] # "answered" => gaslessAnswer[r] = "none"

\* The counter of a window not begun is zero, that of this window within the limit
CountsSound ==
  /\ counts \in [Gasless!Buyers -> [Gasless!Epochs -> Nat]]
  /\ \A x \in Gasless!Buyers, e \in Gasless!Epochs : e > Gasless!epoch => counts[x][e] = 0
  /\ \A x \in Gasless!Buyers : counts[x][Gasless!epoch] <= MaxPerAddress

\* What a buyer was granted fits the windows past and the counter of this one
AdmittedWithin ==
  \A x \in Gasless!Buyers : Cardinality(Admitted(x)) <= MaxPerAddress * Gasless!epoch + counts[x][Gasless!epoch]

\* A broadcast is that of a request answered ok, which has no other
BroadcastsSound ==
  /\ \A t \in broadcasts : t.req \in Gasless!Calls /\ gaslessAnswer[t.req] = "ok"
  /\ \A s, t \in broadcasts : s.req = t.req => s = t

RelayInv == RelayTypes /\ CountsSound /\ AdmittedWithin /\ BroadcastsSound

(* The window a clock reading falls in is one of the windows.               *)
LEMMA EpochInRange ==
  ASSUME Gasless!RelayConstants, RelayTypes
  PROVE  Gasless!epoch \in Gasless!Epochs /\ Gasless!epoch \in Nat
PROOF
  <1>1. Gasless!epoch \in Nat /\ RelayMaxClock \div HourLength \in Nat
    BY DivBounds DEF Gasless!RelayConstants, RelayTypes, Gasless!epoch
  <1>2. Gasless!epoch <= RelayMaxClock \div HourLength
    BY DivGrows DEF Gasless!RelayConstants, RelayTypes, Gasless!epoch
  <1> QED  BY <1>1, <1>2 DEF Gasless!Epochs

(* What a buyer was granted is a finite set.                                *)
LEMMA AdmittedFinite ==
  ASSUME Gasless!RelayConstants, NEW x
  PROVE  IsFiniteSet(Admitted(x)) /\ Cardinality(Admitted(x)) \in Nat
PROOF
  <1>1. IsFiniteSet(Gasless!Calls)
    BY FS_Interval DEF Gasless!Calls, Gasless!RelayConstants
  <1>2. Admitted(x) \subseteq Gasless!Calls
    BY DEF Admitted
  <1> QED  BY ZenonT(30), <1>1, <1>2, FS_Subset, FS_CardinalityType

(* A request's move leaves its buyer, and those of all others, alone.        *)
LEMMA BuyersStay ==
  ASSUME UNCHANGED body
  PROVE  \A r : Gasless!b(r)' = Gasless!b(r)
BY ZenonT(30) DEF Gasless!b

(* While the clock, the counters and the bodies stay, and no request is      *)
(* admitted, the grants stay within the quota.                              *)
LEMMA WithinStays ==
  ASSUME Gasless!RelayConstants, AdmittedWithin, UNCHANGED <<gaslessClock, counts>>,
         CountsSound, RelayTypes,
         \A x \in Gasless!Buyers : Admitted(x)' \subseteq Admitted(x)
  PROVE  CountsSound' /\ AdmittedWithin'
PROOF
  <1>1. Gasless!epoch' = Gasless!epoch /\ Gasless!Buyers' = Gasless!Buyers /\ Gasless!Epochs' = Gasless!Epochs
    BY DEF Gasless!epoch, Gasless!Buyers, Gasless!Epochs
  <1>2. CountsSound'
    BY ZenonT(30), <1>1 DEF CountsSound
  <1>3. ASSUME NEW x \in Gasless!Buyers
        PROVE  Cardinality(Admitted(x)') <= MaxPerAddress * Gasless!epoch + counts[x][Gasless!epoch]
    <2>1. IsFiniteSet(Admitted(x)) /\ Cardinality(Admitted(x)) \in Nat
      BY ZenonT(30), AdmittedFinite
    <2>2. Admitted(x)' \in SUBSET Admitted(x)
      BY ZenonT(30), <1>3
    <2>3. IsFiniteSet(Admitted(x)') /\ Cardinality(Admitted(x)') <= Cardinality(Admitted(x))
      BY ZenonT(30), <2>1, <2>2, FS_Subset
    <2>4. Cardinality(Admitted(x)') \in Nat
      BY ZenonT(30), <2>3, FS_CardinalityType
    <2>5. Gasless!epoch \in Nat /\ counts[x][Gasless!epoch] \in Nat /\ MaxPerAddress * Gasless!epoch \in Nat
      BY <1>3, EpochInRange DEF CountsSound, Gasless!RelayConstants
    <2>6. Cardinality(Admitted(x)) <= MaxPerAddress * Gasless!epoch + counts[x][Gasless!epoch]
      BY ZenonT(30), <1>3 DEF AdmittedWithin
    <2> QED  BY ZenonT(30), <2>1, <2>3, <2>4, <2>5, <2>6, WithinBelow
  <1> QED  BY ZenonT(30), <1>1, <1>2, <1>3 DEF AdmittedWithin

\* Request r moves to a stage, perhaps with an answer
RelayMoves(r, stage, code) ==
  /\ stage \in RelayStages \ {"idle"}
  /\ gaslessAt' = [gaslessAt EXCEPT ![r] = stage] /\ gaslessAnswer' = [gaslessAnswer EXCEPT ![r] = code]
  /\ stage # "answered" => code = "none"

(* What a move of one request does to the functions of the requests.        *)
LEMMA RelayMoveFacts ==
  ASSUME RelayTypes, NEW r \in Gasless!Calls, NEW stage, NEW code, RelayMoves(r, stage, code),
         UNCHANGED gaslessClock, DOMAIN body' = Gasless!Calls, body' = [q \in Gasless!Calls |-> body'[q]]
  PROVE  /\ RelayTypes'
         /\ gaslessAt'[r] = stage /\ gaslessAnswer'[r] = code
         /\ \A q \in Gasless!Calls \ {r} : gaslessAt'[q] = gaslessAt[q] /\ gaslessAnswer'[q] = gaslessAnswer[q]
PROOF
  <1>1. gaslessAt' \in [Gasless!Calls -> RelayStages] /\ gaslessAt'[r] = stage
    BY ZenonT(30) DEF RelayTypes, RelayMoves
  <1>2. DOMAIN gaslessAnswer' = Gasless!Calls /\ gaslessAnswer' = [q \in Gasless!Calls |-> gaslessAnswer'[q]] /\ gaslessAnswer'[r] = code
    BY DEF RelayTypes, RelayMoves
  <1>3. \A q \in Gasless!Calls \ {r} : gaslessAt'[q] = gaslessAt[q] /\ gaslessAnswer'[q] = gaslessAnswer[q]
    BY ZenonT(30) DEF RelayTypes, RelayMoves
  <1>4. \A q \in Gasless!Calls : gaslessAt'[q] # "answered" => gaslessAnswer'[q] = "none"
    BY ZenonT(30), <1>1, <1>2, <1>3 DEF RelayTypes, RelayMoves
  <1>5. gaslessClock' \in Nat /\ gaslessClock' <= RelayMaxClock
    BY ZenonT(30) DEF RelayTypes
  <1> QED  BY ZenonT(30), <1>1, <1>2, <1>3, <1>4, <1>5 DEF RelayTypes, Gasless!Calls, RelayStages

(* A submission that was admitted moves on, or fails, or is refused.        *)
LEMMA SubmissionMoves ==
  ASSUME Gasless!RelayConstants, RelayInv, NEW r \in Gasless!Calls, NEW stage, NEW code,
         RelayMoves(r, stage, code), gaslessAt[r] \in {"chained", "fees", "send"},
         UNCHANGED <<gaslessClock, body, counts>>,
         code = "ok" \/ UNCHANGED broadcasts,
         code = "ok" => \E t : t.req = r /\ broadcasts' = broadcasts \union {t}
  PROVE  RelayInv'
PROOF
  <1>0. RelayTypes /\ CountsSound /\ AdmittedWithin /\ BroadcastsSound
    BY ZenonT(30) DEF RelayInv
  <1>1. DOMAIN body' = Gasless!Calls /\ body' = [q \in Gasless!Calls |-> body'[q]]
    BY ZenonT(30), <1>0 DEF RelayTypes
  <1>2. /\ RelayTypes'
        /\ gaslessAt'[r] = stage /\ gaslessAnswer'[r] = code
        /\ \A q \in Gasless!Calls \ {r} : gaslessAt'[q] = gaslessAt[q] /\ gaslessAnswer'[q] = gaslessAnswer[q]
    BY ZenonT(30), <1>0, <1>1, RelayMoveFacts
  <1>3. \A q : Gasless!b(q)' = Gasless!b(q)
    BY ZenonT(30), BuyersStay
  <1>4. \A x \in Gasless!Buyers : Admitted(x)' \subseteq Admitted(x)
    BY ZenonT(30), <1>2, <1>3 DEF Admitted, Gasless!Calls
  <1>5. CountsSound' /\ AdmittedWithin'
    BY ZenonT(30), <1>0, <1>4, WithinStays
  <1>6. gaslessAnswer[r] = "none"
    BY ZenonT(30), <1>0 DEF RelayTypes
  <1>7. \A t \in broadcasts : t.req \in Gasless!Calls \ {r}
    BY ZenonT(30), <1>0, <1>6 DEF BroadcastsSound
  <1>8. BroadcastsSound'
    <2>1. CASE UNCHANGED broadcasts
      BY ZenonT(30), <1>0, <1>2, <1>7, <2>1 DEF BroadcastsSound, Gasless!Calls
    <2>2. CASE code = "ok"
      <3>1. PICK t : t.req = r /\ broadcasts' = broadcasts \union {t}
        BY ZenonT(30), <2>2
      <3>2. \A s \in broadcasts' : s.req \in Gasless!Calls /\ gaslessAnswer'[s.req] = "ok"
        BY ZenonT(30), <1>0, <1>2, <1>7, <2>2, <3>1 DEF BroadcastsSound
      <3>3. \A s, u \in broadcasts' : s.req = u.req => s = u
        BY ZenonT(30), <1>0, <1>7, <3>1 DEF BroadcastsSound
      <3> QED  BY ZenonT(30), <3>2, <3>3 DEF BroadcastsSound, Gasless!Calls
    <2> QED  BY ZenonT(30), <2>1, <2>2
  <1> QED  BY ZenonT(30), <1>2, <1>5, <1>8 DEF RelayInv

(* The steps of a submission keep the invariant (Preflight, ReadNonce,      *)
(* Send).                                                                   *)
LEMMA SubmissionKeeps ==
  ASSUME Gasless!RelayConstants, RelayInv, NEW r \in Gasless!Calls, Gasless!Submission(r)
  PROVE  RelayInv'
PROOF
  <1>1. UNCHANGED <<gaslessClock, body, counts>> /\ gaslessAt[r] \in {"chained", "fees", "send"}
    BY DEF Gasless!Submission, Gasless!Preflight, Gasless!ReadNonce, Gasless!Send
  <1>2. gaslessAnswer = [gaslessAnswer EXCEPT ![r] = "none"]
    BY ZenonT(30), <1>1 DEF RelayInv, RelayTypes
  <1>3. CASE Gasless!Preflight(r)
    <2>1. RelayMoves(r, "fees", "none") \/ RelayMoves(r, "answered", "PREFLIGHT_REVERTED")
      BY ZenonT(30), <1>2, <1>3 DEF Gasless!Preflight, Gasless!Answered, RelayMoves, RelayStages
    <2> QED  BY ZenonT(30), <1>1, <1>3, <2>1, SubmissionMoves DEF Gasless!Preflight
  <1>4. CASE Gasless!ReadNonce(r)
    <2>1. RelayMoves(r, "send", "none") \/ RelayMoves(r, "answered", "SUBMIT_FAILED")
      BY ZenonT(30), <1>2, <1>4 DEF Gasless!ReadNonce, Gasless!Answered, RelayMoves, RelayStages
    <2> QED  BY ZenonT(30), <1>1, <1>4, <2>1, SubmissionMoves DEF Gasless!ReadNonce
  <1>5. CASE Gasless!Send(r)
    <2>1. CASE RelayMoves(r, "answered", "SUBMIT_FAILED") /\ UNCHANGED broadcasts
      BY ZenonT(30), <1>1, <2>1, SubmissionMoves
    <2>2. CASE /\ RelayMoves(r, "answered", "ok")
               /\ broadcasts' = broadcasts
                    \union {[req |-> r, nonce |-> nonceRead[r], epoch |-> Gasless!epoch]}
      <3>1. \E t : t.req = r /\ broadcasts' = broadcasts \union {t}
        BY ZenonT(30), <2>2
      <3> QED  BY ZenonT(30), <1>1, <2>2, <3>1, SubmissionMoves
    <2> QED  BY ZenonT(30), <1>5, <2>1, <2>2
             DEF Gasless!Send, Gasless!Answered, RelayMoves, RelayStages
  <1> QED  BY ZenonT(30), <1>3, <1>4, <1>5 DEF Gasless!Submission

(* A request comes: refused at no cost, or counted and then refused or       *)
(* admitted (Request, checkRateLimit).                                      *)
LEMMA RequestKeeps ==
  ASSUME Gasless!RelayConstants, RelayInv, NEW r \in Gasless!Calls, NEW x \in Bodies, Gasless!Request(r, x)
  PROVE  RelayInv'
PROOF
  <1>0. RelayTypes /\ CountsSound /\ AdmittedWithin /\ BroadcastsSound
    BY Zenon DEF RelayInv
  <1>1. /\ gaslessAt[r] = "idle" /\ gaslessAnswer[r] = "none" /\ gaslessAnswer = [gaslessAnswer EXCEPT ![r] = "none"]
        /\ body' = [body EXCEPT ![r] = {x}] /\ UNCHANGED <<gaslessClock, broadcasts>>
        /\ x.buyer \in Gasless!Buyers
    BY <1>0 DEF Gasless!Request, RelayTypes, Gasless!Buyers
  <1>2. DOMAIN body' = Gasless!Calls /\ body' = [q \in Gasless!Calls |-> body'[q]]
    BY ZenonT(30), <1>0, <1>1 DEF RelayTypes
  <1>3. Gasless!b(r)' = x /\ \A q \in Gasless!Calls \ {r} : Gasless!b(q)' = Gasless!b(q)
    BY ZenonT(30), <1>0, <1>1 DEF RelayTypes, Gasless!b
  <1>4. PICK stage, code : /\ RelayMoves(r, stage, code)
                           /\ code # "ok"
                           /\ \/ stage = "answered" /\ UNCHANGED counts
                              \/ Gasless!Counted(x.buyer) /\ Gasless!Allowed(x.buyer)
    <2>1. ASSUME NEW code, Gasless!Answered(r, code) PROVE RelayMoves(r, "answered", code)
      BY ZenonT(30), <2>1 DEF Gasless!Answered, RelayMoves, RelayStages
    <2>2. CASE "buyer" \in x.flaws
      <3>1. RelayMoves(r, "answered", "INVALID_SHAPE") /\ UNCHANGED counts
        BY ZenonT(30), <2>1, <2>2 DEF Gasless!Request
      <3> QED  BY ZenonT(30), <3>1
    <2>3. CASE "buyer" \notin x.flaws /\ ~Gasless!Allowed(x.buyer)
      <3>1. RelayMoves(r, "answered", "RATE_LIMITED") /\ UNCHANGED counts
        BY ZenonT(30), <2>1, <2>3 DEF Gasless!Request
      <3> QED  BY ZenonT(30), <3>1
    <2>4. CASE "buyer" \notin x.flaws /\ Gasless!Allowed(x.buyer)
      <3>1. /\ Gasless!Counted(x.buyer)
            /\ \/ Gasless!Validate(x) # "ok" /\ Gasless!Answered(r, Gasless!Validate(x))
               \/ gaslessAt' = [gaslessAt EXCEPT ![r] = "chained"] /\ UNCHANGED gaslessAnswer
        BY ZenonT(30), <2>4 DEF Gasless!Request
      <3>2. \/ Gasless!Validate(x) # "ok" /\ RelayMoves(r, "answered", Gasless!Validate(x))
            \/ RelayMoves(r, "chained", "none")
        BY ZenonT(30), <1>1, <2>1, <3>1 DEF RelayMoves, RelayStages
      <3> QED  BY ZenonT(30), <2>4, <3>1, <3>2
    <2> QED  BY ZenonT(30), <2>2, <2>3, <2>4
  <1>5. /\ RelayTypes'
        /\ gaslessAt'[r] = stage /\ gaslessAnswer'[r] = code
        /\ \A q \in Gasless!Calls \ {r} : gaslessAt'[q] = gaslessAt[q] /\ gaslessAnswer'[q] = gaslessAnswer[q]
    BY ZenonT(30), <1>0, <1>1, <1>2, <1>4, RelayMoveFacts
  <1>6. \A t \in broadcasts : t.req \in Gasless!Calls \ {r}
    BY ZenonT(30), <1>0, <1>1 DEF BroadcastsSound
  <1>7. BroadcastsSound'
    BY ZenonT(30), <1>0, <1>1, <1>5, <1>6 DEF BroadcastsSound, Gasless!Calls
  <1>8. \A y \in Gasless!Buyers : Admitted(y)' \subseteq Admitted(y) \union {r}
    BY ZenonT(30), <1>3, <1>5 DEF Admitted, Gasless!Calls
  <1>9. \A y \in Gasless!Buyers : y # x.buyer \/ stage = "answered" => Admitted(y)' \subseteq Admitted(y)
    BY ZenonT(30), <1>3, <1>4, <1>5 DEF Admitted, Gasless!Calls
  <1>10. CASE stage = "answered" /\ UNCHANGED counts
    <2>1. CountsSound' /\ AdmittedWithin'
      BY ZenonT(30), <1>0, <1>1, <1>9, <1>10, WithinStays
    <2> QED  BY ZenonT(30), <1>5, <1>7, <2>1 DEF RelayInv
  <1>11. CASE Gasless!Counted(x.buyer) /\ Gasless!Allowed(x.buyer)
    <2>1. Gasless!epoch \in Gasless!Epochs /\ Gasless!epoch \in Nat /\ Gasless!epoch' = Gasless!epoch
      BY ZenonT(30), <1>0, <1>1, EpochInRange DEF Gasless!epoch
    <2>2. /\ counts' \in [Gasless!Buyers -> [Gasless!Epochs -> Nat]]
          /\ \A y \in Gasless!Buyers, e \in Gasless!Epochs : e > Gasless!epoch => counts'[y][e] = counts[y][e]
          /\ \A y \in Gasless!Buyers : counts'[y][Gasless!epoch] =
                 counts[y][Gasless!epoch] + (IF y = x.buyer THEN 1 ELSE 0)
      <3>1. \A e \in Gasless!Epochs : e \in Int
        BY DEF Gasless!Epochs
      <3> QED  BY SMTT(30), <1>0, <1>11, <2>1, <3>1 DEF Gasless!Counted, CountsSound
    <2>3. counts[x.buyer][Gasless!epoch] < MaxPerAddress
      BY ZenonT(30), <1>11 DEF Gasless!Allowed
    <2>4. \A y \in Gasless!Buyers : counts[y][Gasless!epoch] \in Nat
      BY ZenonT(30), <1>0, <2>1 DEF CountsSound
    <2>5. \A y \in Gasless!Buyers : counts'[y][Gasless!epoch] <= MaxPerAddress
      <3> SUFFICES ASSUME NEW y \in Gasless!Buyers PROVE counts'[y][Gasless!epoch] <= MaxPerAddress
        BY ZenonT(30)
      <3>1. /\ counts[y][Gasless!epoch] \in Nat /\ counts[y][Gasless!epoch] <= MaxPerAddress
            /\ MaxPerAddress \in Nat
        BY ZenonT(30), <1>0, <2>4 DEF CountsSound, Gasless!RelayConstants
      <3>2. CASE y = x.buyer
        <4>1. counts'[y][Gasless!epoch] = counts[y][Gasless!epoch] + 1
          BY ZenonT(30), <2>2, <3>2
        <4> QED  BY ZenonT(30), <2>3, <3>1, <3>2, <4>1, RoomForOne
      <3>3. CASE y # x.buyer
        <4>1. counts'[y][Gasless!epoch] = counts[y][Gasless!epoch] + 0
          BY ZenonT(30), <2>2, <3>3
        <4> QED  BY ZenonT(30), <3>1, <4>1, RoomForOne
      <3> QED  BY ZenonT(30), <3>2, <3>3
    <2>6. CountsSound'
      BY SMTT(30), <1>0, <2>1, <2>2, <2>5 DEF CountsSound, Gasless!Buyers, Gasless!Epochs
    <2>7. ASSUME NEW y \in Gasless!Buyers
          PROVE  Cardinality(Admitted(y)') <= MaxPerAddress * Gasless!epoch + counts'[y][Gasless!epoch]
      <3>1. IsFiniteSet(Admitted(y)) /\ Cardinality(Admitted(y)) \in Nat
        BY ZenonT(30), AdmittedFinite
      <3>2. Cardinality(Admitted(y)) <= MaxPerAddress * Gasless!epoch + counts[y][Gasless!epoch]
        BY ZenonT(30), <1>0, <2>7 DEF AdmittedWithin
      <3>3. MaxPerAddress * Gasless!epoch \in Nat /\ counts[y][Gasless!epoch] \in Nat
        BY ZenonT(30), <2>1, <2>4, <2>7, MulNat DEF Gasless!RelayConstants
      <3>4. CASE y = x.buyer
        <4>1. /\ IsFiniteSet(Admitted(y) \union {r})
              /\ Cardinality(Admitted(y) \union {r}) <= Cardinality(Admitted(y)) + 1
              /\ Cardinality(Admitted(y) \union {r}) \in Nat
          <5>1. /\ IsFiniteSet(Admitted(y) \union {r})
                /\ Cardinality(Admitted(y) \union {r}) =
                     IF r \in Admitted(y) THEN Cardinality(Admitted(y)) ELSE Cardinality(Admitted(y)) + 1
            BY ZenonT(30), <3>1, FS_AddElement
          <5> QED  BY ZenonT(30), <3>1, <5>1, SameOrNext
        <4>2. Admitted(y)' \in SUBSET (Admitted(y) \union {r})
          BY ZenonT(30), <1>8, <2>7
        <4>3. /\ IsFiniteSet(Admitted(y)')
              /\ Cardinality(Admitted(y)') <= Cardinality(Admitted(y) \union {r})
          BY ZenonT(30), <4>1, <4>2, FS_Subset
        <4>4. Cardinality(Admitted(y)') \in Nat
          BY ZenonT(30), <4>3, FS_CardinalityType
        <4>5. counts'[y][Gasless!epoch] = counts[y][Gasless!epoch] + 1
          BY ZenonT(30), <2>2, <2>7, <3>4
        <4> QED  BY ZenonT(30), <3>1, <3>2, <3>3, <4>1, <4>3, <4>4, <4>5, WithinOneMore
      <3>5. CASE y # x.buyer
        <4>1. Admitted(y)' \in SUBSET Admitted(y)
          BY ZenonT(30), <1>9, <2>7, <3>5
        <4>2. IsFiniteSet(Admitted(y)') /\ Cardinality(Admitted(y)') <= Cardinality(Admitted(y))
          BY ZenonT(30), <3>1, <4>1, FS_Subset
        <4>3. Cardinality(Admitted(y)') \in Nat
          BY ZenonT(30), <4>2, FS_CardinalityType
        <4>4. counts'[y][Gasless!epoch] = counts[y][Gasless!epoch]
          <5>1. counts'[y][Gasless!epoch] = counts[y][Gasless!epoch] + 0
            BY ZenonT(30), <2>2, <2>7, <3>5
          <5> QED  BY ZenonT(30), <3>3, <5>1, RoomForOne
        <4> QED  BY ZenonT(30), <3>1, <3>2, <3>3, <4>2, <4>3, <4>4, WithinBelow
      <3> QED  BY ZenonT(30), <3>4, <3>5
    <2>8. AdmittedWithin'
      BY ZenonT(30), <2>1, <2>7 DEF AdmittedWithin, Gasless!Buyers
    <2> QED  BY ZenonT(30), <1>5, <1>7, <2>6, <2>8 DEF RelayInv
  <1> QED  BY <1>4, <1>10, <1>11

(* The clock moves: a new window begins with a counter of zero (Tick).      *)
LEMMA RelayTickKeeps ==
  ASSUME Gasless!RelayConstants, RelayInv, Gasless!Tick
  PROVE  RelayInv'
PROOF
  <1>0. RelayTypes /\ CountsSound /\ AdmittedWithin /\ BroadcastsSound
    BY ZenonT(30) DEF RelayInv
  <1>1. /\ gaslessClock < RelayMaxClock /\ gaslessClock' = gaslessClock + 1
        /\ UNCHANGED <<body, gaslessAt, gaslessAnswer, counts, broadcasts>>
    BY ZenonT(30) DEF Gasless!Tick
  <1>2. RelayTypes'
    BY <1>0, <1>1 DEF RelayTypes, Gasless!RelayConstants, Gasless!Calls, RelayStages
  <1>3. BroadcastsSound'
    BY ZenonT(30), <1>0, <1>1 DEF BroadcastsSound, Gasless!Calls
  <1>4. \A y : Admitted(y)' = Admitted(y)
    BY Zenon, <1>1 DEF Admitted, Gasless!Calls, Gasless!b
  <1>5. Gasless!epoch \in Nat /\ Gasless!epoch \in Gasless!Epochs
    BY ZenonT(30), <1>0, EpochInRange
  <1>6. Gasless!epoch' \in Nat /\ (Gasless!epoch' = Gasless!epoch \/ Gasless!epoch' = Gasless!epoch + 1)
    <2>1. gaslessClock \in Nat /\ gaslessClock' \in Nat /\ gaslessClock <= gaslessClock' /\ gaslessClock' = gaslessClock + 1
      BY <1>0, <1>1 DEF RelayTypes
    <2>2. Gasless!epoch' = gaslessClock' \div HourLength
      BY DEF Gasless!epoch
    <2>3. Gasless!epoch' \in Nat
      BY ZenonT(30), <2>1, <2>2, DivBounds DEF Gasless!RelayConstants
    <2>4. Gasless!epoch <= Gasless!epoch' /\ Gasless!epoch' <= Gasless!epoch + 1
      BY ZenonT(30), <2>1, <2>2, DivGrows DEF Gasless!RelayConstants, Gasless!epoch
    <2> QED  BY ZenonT(30), <1>5, <2>3, <2>4, NothingBetween
  <1>7. Gasless!epoch' \in Gasless!Epochs
    <2>1. gaslessClock' \in Nat /\ gaslessClock' <= RelayMaxClock
      BY <1>2 DEF RelayTypes
    <2>2. Gasless!epoch' <= RelayMaxClock \div HourLength /\ RelayMaxClock \div HourLength \in Nat
      BY ZenonT(30), <2>1, DivGrows, DivBounds DEF Gasless!RelayConstants, Gasless!epoch
    <2> QED  BY <1>6, <2>2 DEF Gasless!Epochs
  <1>8. \A y \in Gasless!Buyers, e \in Gasless!Epochs : e > Gasless!epoch' => counts[y][e] = 0
    BY <1>0, <1>5, <1>6 DEF CountsSound, Gasless!Epochs
  <1>9. \A y \in Gasless!Buyers : counts[y][Gasless!epoch'] <= MaxPerAddress
    BY SMTT(30), <1>0, <1>5, <1>6, <1>7 DEF CountsSound, Gasless!RelayConstants
  <1>10. CountsSound'
    BY ZenonT(30), <1>0, <1>1, <1>8, <1>9 DEF CountsSound, Gasless!Buyers, Gasless!Epochs
  <1>11. ASSUME NEW y \in Gasless!Buyers
         PROVE  Cardinality(Admitted(y)) <= MaxPerAddress * Gasless!epoch' + counts[y][Gasless!epoch']
    <2>1. Cardinality(Admitted(y)) \in Nat
      BY ZenonT(30), AdmittedFinite
    <2>2. /\ Cardinality(Admitted(y)) <= MaxPerAddress * Gasless!epoch + counts[y][Gasless!epoch]
          /\ counts[y][Gasless!epoch] <= MaxPerAddress /\ counts[y][Gasless!epoch] \in Nat
      BY ZenonT(30), <1>0, <1>5, <1>11 DEF AdmittedWithin, CountsSound
    <2>3. CASE Gasless!epoch' = Gasless!epoch
      BY ZenonT(30), <2>2, <2>3
    <2>4. CASE Gasless!epoch' = Gasless!epoch + 1
      <3>1. counts[y][Gasless!epoch'] = 0
        BY ZenonT(30), <1>0, <1>5, <1>7, <1>11, <2>4, RoomForOne DEF CountsSound
      <3>2. MaxPerAddress * Gasless!epoch + MaxPerAddress <= MaxPerAddress * Gasless!epoch'
        BY ZenonT(30), <1>5, <2>4, MulNext DEF Gasless!RelayConstants
      <3>3. MaxPerAddress * Gasless!epoch \in Nat /\ MaxPerAddress * Gasless!epoch' \in Nat
        BY ZenonT(30), <1>5, <1>6, MulNat DEF Gasless!RelayConstants
      <3> QED  BY ZenonT(30), <2>1, <2>2, <3>1, <3>2, <3>3, WithinWhole DEF Gasless!RelayConstants
    <2> QED  BY ZenonT(30), <1>6, <2>3, <2>4
  <1>12. AdmittedWithin'
    BY ZenonT(30), <1>1, <1>4, <1>11 DEF AdmittedWithin, Gasless!Buyers
  <1> QED  BY ZenonT(30), <1>2, <1>3, <1>10, <1>12 DEF RelayInv

(* RelayInv holds of every behaviour: one lemma per step of the service.    *)
LEMMA RelayInvHolds == ASSUME Gasless!RelayConstants PROVE Gasless!RelaySpec => []RelayInv
PROOF
  <1>1. ASSUME Gasless!RelayInit PROVE RelayInv
    <2>1. RelayTypes /\ BroadcastsSound
      BY <1>1 DEF Gasless!RelayInit, RelayTypes, BroadcastsSound, RelayStages, Gasless!RelayConstants
    <2>2. Gasless!epoch \in Gasless!Epochs /\ Gasless!epoch \in Nat
      BY ZenonT(30), <2>1, EpochInRange
    <2>3. CountsSound
      BY SMTT(30), <1>1, <2>2 DEF Gasless!RelayInit, CountsSound, Gasless!RelayConstants
    <2>4. \A x \in Gasless!Buyers : Admitted(x) = {}
      BY ZenonT(30), <1>1 DEF Gasless!RelayInit, Admitted
    <2>5. MaxPerAddress * Gasless!epoch \in Nat /\ \A x \in Gasless!Buyers : counts[x][Gasless!epoch] \in Nat
      BY ZenonT(30), <2>2, <2>3, MulNat DEF CountsSound, Gasless!RelayConstants
    <2>6. ASSUME NEW x \in Gasless!Buyers
          PROVE  Cardinality(Admitted(x)) <= MaxPerAddress * Gasless!epoch + counts[x][Gasless!epoch]
      <3>1. Cardinality(Admitted(x)) = 0
        BY ZenonT(30), <2>4, <2>6, FS_EmptySet
      <3> QED  BY ZenonT(30), <2>5, <2>6, <3>1, RoomForOne
    <2> QED  BY ZenonT(30), <2>1, <2>3, <2>6 DEF RelayInv, AdmittedWithin
  <1>2. RelayInv /\ [Gasless!RelayNext]_Gasless!rvars => RelayInv'
    <2> SUFFICES ASSUME RelayInv, [Gasless!RelayNext]_Gasless!rvars PROVE RelayInv'
      OBVIOUS
    <2>1. ASSUME NEW r \in Gasless!Calls, NEW x \in Bodies, Gasless!Request(r, x) PROVE RelayInv'
      BY ZenonT(30), <2>1, RequestKeeps
    <2>2. ASSUME NEW r \in Gasless!Calls, Gasless!Submission(r) PROVE RelayInv'
      BY <2>2, SubmissionKeeps
    <2>3. CASE Gasless!Tick
      BY ZenonT(30), <2>3, RelayTickKeeps
    <2>4. CASE UNCHANGED Gasless!rvars
      <3>1. UNCHANGED <<gaslessClock, body, gaslessAt, gaslessAnswer, counts, broadcasts>>
        BY ZenonT(30), <2>4 DEF Gasless!rvars
      <3>2. RelayTypes' /\ BroadcastsSound'
        BY ZenonT(30), <3>1 DEF RelayInv, RelayTypes, BroadcastsSound, Gasless!Calls, RelayStages
      <3>3. \A y \in Gasless!Buyers : Admitted(y)' \subseteq Admitted(y)
        BY ZenonT(30), <3>1 DEF Admitted, Gasless!Calls, Gasless!b
      <3>4. CountsSound' /\ AdmittedWithin'
        BY ZenonT(30), <3>1, <3>3, WithinStays DEF RelayInv
      <3> QED  BY ZenonT(30), <3>2, <3>4 DEF RelayInv
    <2> QED  BY ZenonT(30), <2>1, <2>2, <2>3, <2>4 DEF Gasless!RelayNext
  <1> QED  BY <1>1, <1>2, PTL DEF Gasless!RelaySpec

(* The relay counts with the same cardinality as the library's theorems.     *)
LEMMA CardinalityOfRelay ==
  ASSUME NEW S
  PROVE  Gasless!Cardinality(S) = Cardinality(S)
BY DEF Cardinality, Gasless!Cardinality

(* What the relay's wallet pays for a buyer fits the quota of the hours      *)
(* begun (relay.service.ts: checkRateLimit, before every pause).            *)
THEOREM BroadcastsWithinQuotaHolds == Gasless!RelaySpec => []BroadcastsWithinQuota
PROOF
  <1>0. Gasless!RelayConstants
    BY ZenonT(30), ServicesAssumption
  <1>1. ASSUME RelayInv PROVE BroadcastsWithinQuota
    <2>1. ASSUME NEW x \in Gasless!Buyers
          PROVE  Cardinality({t \in broadcasts : Gasless!b(t.req).buyer = x}) <= MaxPerAddress * (Gasless!epoch + 1)
      <3> DEFINE paid == {t \in broadcasts : Gasless!b(t.req).buyer = x}
                 reqOf == [t \in paid |-> t.req]
      <3>1. reqOf \in Injection(paid, Admitted(x))
        <4>1. reqOf \in [paid -> Admitted(x)]
          BY ZenonT(30), <1>1 DEF RelayInv, BroadcastsSound, Admitted
        <4>2. \A s, t \in paid : reqOf[s] = reqOf[t] => s = t
          BY ZenonT(30), <1>1 DEF RelayInv, BroadcastsSound
        <4> QED  BY ZenonT(30), <4>1, <4>2, Fun_IsInj DEF Injection, IsInjective
      <3>2. IsFiniteSet(Admitted(x)) /\ Cardinality(Admitted(x)) \in Nat
        BY ZenonT(30), <1>0, AdmittedFinite
      <3> HIDE DEF paid, reqOf
      <3>3. IsFiniteSet(paid) /\ Cardinality(paid) <= Cardinality(Admitted(x))
        BY ZenonT(30), <3>1, <3>2, FS_Injection
      <3>4. Cardinality(paid) \in Nat
        BY ZenonT(30), <3>3, FS_CardinalityType
      <3>5. Gasless!epoch \in Nat /\ counts[x][Gasless!epoch] \in Nat
        BY ZenonT(30), <1>1, <2>1, <1>0, EpochInRange DEF RelayInv, CountsSound
      <3>6. /\ Cardinality(Admitted(x)) <= MaxPerAddress * Gasless!epoch + counts[x][Gasless!epoch]
            /\ counts[x][Gasless!epoch] <= MaxPerAddress
        BY ZenonT(30), <1>1, <2>1 DEF RelayInv, AdmittedWithin, CountsSound
      <3>7. MaxPerAddress * Gasless!epoch + MaxPerAddress <= MaxPerAddress * (Gasless!epoch + 1)
        BY ZenonT(30), <1>0, <3>5, MulNext DEF Gasless!RelayConstants
      <3>8. MaxPerAddress * Gasless!epoch \in Nat /\ MaxPerAddress * (Gasless!epoch + 1) \in Nat
        BY ZenonT(30), <1>0, <3>5, MulNext DEF Gasless!RelayConstants
      <3>9. Cardinality(paid) <= MaxPerAddress * (Gasless!epoch + 1)
        <4>1. Cardinality(paid) <= MaxPerAddress * Gasless!epoch + counts[x][Gasless!epoch]
          BY ZenonT(30), <3>2, <3>3, <3>4, <3>5, <3>6, <3>8, WithinBelow
        <4>2. MaxPerAddress \in Nat
          BY ZenonT(30), <1>0 DEF Gasless!RelayConstants
        <4>3. /\ MaxPerAddress * Gasless!epoch + counts[x][Gasless!epoch] <= MaxPerAddress * Gasless!epoch + MaxPerAddress
              /\ MaxPerAddress * Gasless!epoch + counts[x][Gasless!epoch] \in Nat
              /\ MaxPerAddress * Gasless!epoch + MaxPerAddress \in Nat
          BY ZenonT(30), <3>5, <3>6, <3>8, <4>2, SumGrows
        <4>4. Cardinality(paid) <= MaxPerAddress * Gasless!epoch + MaxPerAddress
          BY ZenonT(30), <3>4, <4>1, <4>3, LeqTrans
        <4> QED  BY ZenonT(30), <3>4, <3>7, <3>8, <4>3, <4>4, LeqTrans
      <3> QED  BY ZenonT(30), <3>9 DEF paid
    <2> QED  BY ZenonT(30), <2>1, CardinalityOfRelay
             DEF BroadcastsWithinQuota, Gasless!BroadcastsWithinQuota
  <1> QED  BY <1>0, <1>1, RelayInvHolds, PTL

-----------------------------------------------------------------------------
(* The liveness keeper.                                                     *)

(* What the confirmation rests on: an attestation the watchdog awaits was  *)
(* made after the block it has sampled, so that if it has landed, it did   *)
(* so at that block or a later one.                                        *)
LivenessInv ==
  /\ head \in 1..MaxHead /\ liveAt \in [1..MaxHead -> Nat] /\ liveAt[head] <= head
  /\ sample \in 0..head
  /\ confirmedAtBlock \in Nat /\ confirmedAtBlock <= liveAt[head]
  /\ calls \in 0..MaxAttests /\ landed \subseteq 1..calls
  /\ status \in [1..MaxAttests -> {"idle", "open", "ok", "failed"}]
  /\ \A n \in 1..MaxAttests : n > calls => status[n] = "idle"
  /\ tickFor = "watchdog" => cycle = "attest"
  /\ tickFor = "watchdog" /\ tick = "attest" /\ calls \in landed => sample <= liveAt[head]

(* Each step of the keeper, of the wallet and of the chain keeps it        *)
(* (watchdogCycle, tick).                                                  *)
LEMMA LivenessStep ==
  ASSUME MaxHead \in Nat \ {0}, MaxAttests \in Nat, LivenessInv, [Next]_vars
  PROVE  LivenessInv'
<1> USE DEF LivenessInv, chain, wallet, dog
<1>1. ASSUME NEW c \in Configs, Boot(c) PROVE LivenessInv'
  BY ZenonT(30), <1>1 DEF Boot
<1>2. CASE Shutdown
  BY ZenonT(30), <1>2 DEF Shutdown
<1>3. CASE CadenceFires
  BY ZenonT(30), <1>3 DEF CadenceFires
<1>4. CASE Deadline
  BY <1>4 DEF Deadline, Fails, CycleEnds
<1>5. CASE Mine
  BY <1>5 DEF Mine
<1>6. CASE WatchdogFires
  BY ZenonT(30), <1>6 DEF WatchdogFires
<1>7. CASE ReadHead
  BY <1>7 DEF ReadHead, CycleEnds
<1>8. CASE ReadState
  BY <1>8 DEF ReadState, Decide, CycleEnds
<1>9. CASE Advise
  BY <1>9 DEF Advise, Succeeds, CycleEnds
<1>10. ASSUME NEW b \in BOOLEAN, TickEnds(b)
       PROVE  /\ tick' = "none" /\ tickFor' = "cadence" /\ sample' = sample
              /\ \/ confirmedAtBlock' = confirmedAtBlock
                 \/ b /\ tickFor = "watchdog" /\ confirmedAtBlock' = sample
  BY Zenon, <1>10 DEF TickEnds, Awaited
<1>11. CASE ReadAnchor
  <2>1. head' = head /\ liveAt' = liveAt
    BY ZenonT(30), <1>11 DEF ReadAnchor
  <2>2. CASE /\ calls < MaxAttests /\ calls' = calls + 1
             /\ Attest!Open(calls + 1) /\ UNCHANGED <<tickFor, dog>>
    BY <2>1, <2>2 DEF Attest!Open
  <2>3. CASE /\ calls < MaxAttests /\ calls' = calls + 1
             /\ Attest!Refuse(calls + 1) /\ TickEnds(FALSE)
    <3>1. /\ tick' = "none" /\ tickFor' = "cadence" /\ sample' = sample
          /\ confirmedAtBlock' = confirmedAtBlock
      BY Zenon, <1>10, <2>3
    <3> QED
      BY <2>1, <2>3, <3>1 DEF Attest!Refuse
  <2>4. CASE TickEnds(FALSE) /\ UNCHANGED <<wallet, calls>>
    <3>1. /\ tick' = "none" /\ tickFor' = "cadence" /\ sample' = sample
          /\ confirmedAtBlock' = confirmedAtBlock
      BY Zenon, <1>10, <2>4
    <3> QED
      BY <2>1, <2>4, <3>1
  <2> QED
    BY Zenon, <1>11, <2>2, <2>3, <2>4 DEF ReadAnchor
<1>12. CASE AttestReturns
  <2>1. tick = "attest" /\ head' = head /\ liveAt' = liveAt /\ calls' = calls
    BY ZenonT(30), <1>12 DEF AttestReturns
  <2>2. CASE Attest!Confirm(calls) /\ TickEnds(TRUE)
    <3>1. /\ tick' = "none" /\ tickFor' = "cadence" /\ sample' = sample
          /\ \/ confirmedAtBlock' = confirmedAtBlock
             \/ tickFor = "watchdog" /\ confirmedAtBlock' = sample
      BY Zenon, <1>10, <2>2
    <3> QED
      BY <2>1, <2>2, <3>1 DEF Attest!Confirm
  <2>3. CASE Attest!Fail(calls) /\ TickEnds(FALSE)
    <3>1. /\ tick' = "none" /\ tickFor' = "cadence" /\ sample' = sample
          /\ confirmedAtBlock' = confirmedAtBlock
      BY Zenon, <1>10, <2>3
    <3> QED
      BY Zenon, <2>1, <2>3, <3>1 DEF Attest!Fail
  <2> QED
    BY Zenon, <1>12, <2>2, <2>3 DEF AttestReturns
<1>13. ASSUME NEW n \in 1..MaxAttests, AttestLands(n) PROVE LivenessInv'
  BY <1>13 DEF AttestLands, Attest!Land
<1>14. CASE UNCHANGED vars
  BY Zenon, <1>14 DEF vars
<1> QED
  BY Zenon, <1>1, <1>2, <1>3, <1>4, <1>5, <1>6, <1>7, <1>8, <1>9, <1>11, <1>12, <1>13, <1>14
     DEF Next, Watchdog, Tick

(* A confirmation the watchdog records is one the chain holds, whatever is *)
(* late, hangs, fails or was made by the cadence (watchdogCycle, tick).    *)
THEOREM ConfirmedIsRealHolds ==
  ASSUME MaxHead \in Nat \ {0}, MaxAttests \in Nat
  PROVE  Spec => []ConfirmedIsReal
<1>1. Init => LivenessInv
  BY DEF Init, LivenessInv, Attest!PromiseInit
<1>2. LivenessInv => ConfirmedIsReal
  BY Zenon DEF LivenessInv, ConfirmedIsReal, lastLive
<1> QED
  BY <1>1, <1>2, LivenessStep, PTL DEF Spec
=================================================================================
