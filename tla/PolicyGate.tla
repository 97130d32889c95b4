------------------------------ MODULE PolicyGate ------------------------------
(***************************************************************************)
(* The node's signing policy (policy.service.ts): the account's call data  *)
(* is decoded into calls, each call reduced to the contract it calls, who  *)
(* receives, which asset and how much; the operator's floor is applied     *)
(* locally and the account's policy is asked on chain, one question per    *)
(* call, all of them at once.  Anything that cannot be decoded or read is  *)
(* refused.                                                                *)
(*                                                                         *)
(* Call data is abstract: the account function, and for each inner call    *)
(* its destination, native value and payload.  A payload is none, another  *)
(* function's, or one of the three token functions with its payee and      *)
(* amount, well formed or not.  The registry's answers are external.       *)
(***************************************************************************)
EXTENDS Naturals, Sequences

CONSTANTS
  Addresses,
  Values, Amounts,    \* native values and token amounts that occur
  Caps,               \* values of perTxMaxWei
  MaxCalls            \* bound on the calls of a batch

VARIABLES
  config,             \* [enabled, cap (a set of at most one), allow, registry]
  op,                 \* the account's call data: [fn, calls, aligned]
  at,
  asked,              \* call -> what checkPolicy is asked for it
  answers,            \* call -> decision, where it has come back
  allowed             \* the decision of evaluate

vars == <<config, op, at, asked, answers, allowed>>

Eth == "ETH"          \* policyEthSentinel
TokenFns == {"transfer", "transferFrom", "approve"}
Payloads ==
  {[fn |-> f, payee |-> CHOOSE a \in Addresses : TRUE, amount |-> 0, ok |-> TRUE] : f \in {"none", "other"}}
    \union [fn : TokenFns, payee : Addresses, amount : Amounts, ok : BOOLEAN]
Calls == [to : Addresses, value : Values, payload : Payloads]
Configs ==
  [enabled : BOOLEAN, cap : {{}} \union {{c} : c \in Caps}, allow : SUBSET Addresses, registry : BOOLEAN]

Decide(yes) == at' = "done" /\ allowed' = yes

(* The constructor: an enabled gate without a single rule does not start.  *)
Start ==
  /\ at = "start"
  /\ at' = IF config.enabled /\ ~config.registry /\ config.cap = {} /\ config.allow = {}
           THEN "refused to start" ELSE "evaluate"
  /\ UNCHANGED <<config, op, asked, answers, allowed>>

(* decodeCalls: execute is one call, executeBatch one per entry of three   *)
(* arrays of one length; anything else throws.                             *)
Decodes ==
  \/ op.fn = "execute"
  \/ op.fn = "executeBatch" /\ op.aligned

(* A mutated form of normalizeForPolicy: a native value is looked at before*)
(* the token functions.                                                    *)
NormalizeValueFirst(c) ==
  IF c.value > 0
  THEN [contract |-> c.to, recipient |-> c.to, asset |-> Eth, amount |-> c.value, fn |-> c.payload.fn]
  ELSE IF c.payload.fn \in TokenFns
  THEN [contract |-> c.to, recipient |-> c.payload.payee, asset |-> c.to,
        amount |-> c.payload.amount, fn |-> c.payload.fn]
  ELSE [contract |-> c.to, recipient |-> c.to, asset |-> c.to, amount |-> 0, fn |-> c.payload.fn]

normalizeForPolicy(c) ==
  IF c.payload.fn \in TokenFns
  THEN [contract |-> c.to, recipient |-> c.payload.payee, asset |-> c.to,
        amount |-> c.payload.amount, fn |-> c.payload.fn]
  ELSE [contract |-> c.to, recipient |-> c.to,
        asset |-> IF c.value > 0 THEN Eth ELSE c.to,
        amount |-> c.value, fn |-> c.payload.fn]

(* The operator's floor: the cap on native value, and the allowlist over   *)
(* both the contract called and the decoded recipient.                     *)
FloorPasses(c) ==
  LET p == normalizeForPolicy(c) IN
  /\ \A cap \in config.cap : c.value <= cap
  /\ config.allow = {} \/ {p.contract, p.recipient} \subseteq config.allow

(* evaluate up to its await.                                               *)
Evaluate ==
  /\ at = "evaluate"
  /\ \/ ~config.enabled /\ Decide(TRUE) /\ UNCHANGED asked
     \/ /\ config.enabled
        /\ ~Decodes \/ op.calls = <<>> \/ \E i \in DOMAIN op.calls :
             ~op.calls[i].payload.ok \/ ~FloorPasses(op.calls[i])
        /\ Decide(FALSE) /\ UNCHANGED asked
     \/ /\ config.enabled /\ Decodes /\ op.calls # <<>>
        /\ \A i \in DOMAIN op.calls : op.calls[i].payload.ok /\ FloorPasses(op.calls[i])
        /\ IF config.registry
           THEN /\ asked' = [i \in DOMAIN op.calls |-> normalizeForPolicy(op.calls[i])]
                /\ at' = "ask" /\ UNCHANGED allowed
           ELSE Decide(TRUE) /\ UNCHANGED asked
  /\ UNCHANGED <<config, op, answers>>

(* checkPolicy answers for one call: ALLOW, REQUIRE_DVT, REJECT or a value *)
(* of a later version; or it reverts, which refuses at once.               *)
checkPolicy(i) ==
  /\ at = "ask" /\ i \in DOMAIN asked \ DOMAIN answers
  /\ \/ \E d \in 0..3 :
          /\ answers' = [j \in DOMAIN answers \union {i} |-> IF j = i THEN d ELSE answers[j]]
          /\ UNCHANGED <<at, allowed>>
     \/ Decide(FALSE) /\ UNCHANGED answers
  /\ UNCHANGED <<config, op, asked>>

Passing == {0, 1}     \* ALLOW, REQUIRE_DVT

(* Every answer is in.                                                     *)
Conclude ==
  /\ at = "ask" /\ DOMAIN answers = DOMAIN asked
  /\ Decide(\A i \in DOMAIN asked : answers[i] \in Passing)
  /\ UNCHANGED <<config, op, asked, answers>>

Init ==
  /\ config \in Configs
  /\ \/ \E c \in Calls : op = [fn |-> "execute", calls |-> <<c>>, aligned |-> TRUE]
     \/ \E n \in 0..MaxCalls, a \in BOOLEAN :
          \E cs \in [1..n -> Calls] : op = [fn |-> "executeBatch", calls |-> cs, aligned |-> a]
     \/ op = [fn |-> "other", calls |-> <<>>, aligned |-> TRUE]
  /\ at = "start" /\ asked = <<>> /\ answers = <<>> /\ allowed = FALSE

Next ==
  \/ Start \/ Evaluate \/ Conclude
  \/ \E i \in 1..MaxCalls : checkPolicy(i)

GateSpec == Init /\ [][Next]_vars

(***************************************************************************)
(* What the account's execution of the call data does, call by call.       *)
(***************************************************************************)
Touched(c) == {c.to} \union (IF c.payload.fn \in TokenFns THEN {c.payload.payee} ELSE {})
TokenMove(c) == IF c.payload.fn \in TokenFns THEN {<<c.to, c.payload.amount>>} ELSE {}
NativeMove(c) ==
  IF c.value > 0 /\ c.payload.fn \notin TokenFns THEN {<<Eth, c.value>>} ELSE {}

(* When an enabled gate lets the node co-sign, each rule that is set       *)
(* covers each call that the account will make: native value within the    *)
(* cap, every address it touches in the allowlist, and a passing answer of *)
(* the registry to a question about the contract called and about the very *)
(* asset and amount that move.  The native value of a token call is        *)
(* covered by the cap alone.                                               *)
AllowedIsCovered ==
  at = "done" /\ allowed /\ config.enabled =>
    /\ op.fn # "other" /\ op.aligned /\ op.calls # <<>>
    /\ \A i \in DOMAIN op.calls :
         LET c == op.calls[i] IN
         /\ \A cap \in config.cap : c.value <= cap
         /\ config.allow = {} \/ Touched(c) \subseteq config.allow
         /\ config.registry =>
              /\ answers[i] \in {0, 1}
              /\ asked[i].contract = c.to /\ asked[i].fn = c.payload.fn
              /\ TokenMove(c) \union NativeMove(c) \subseteq {<<asked[i].asset, asked[i].amount>>}
================================================================================
