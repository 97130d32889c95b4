----------------------------- MODULE MCSigning -----------------------------
(***************************************************************************)
(* What a node puts its signature or its gas to, checked one service at a  *)
(* time: a behaviour picks one of them, which runs under its own           *)
(* specification while the others rest in an initial state.                *)
(***************************************************************************)
EXTENDS Confirmation, NodeIdentity, NodeServices, TLC

CONSTANTS large, small, stranger, t1, t2, r1, r2

MCOps       == {large, small, stranger}
MCTokens    == {t1, t2}
MCRequests  == {r1, r2}
MCValue     == [x \in MCOps |-> IF x = small THEN 1 ELSE 5]
OnlyLarge   == {large}
Symmetry    == Permutations(MCTokens) \cup Permutations(MCRequests)

State(i, ks, priv, pub) ==
  [id |-> i, keystore |-> ks, privateKey |-> priv, publicKey |-> pub, registeredAt |-> FALSE]
IdentityCreated == {State("a", "none", "k1", "k1"), State("b", "none", "k2", "k2")}
IdentityOnDisk == {State("a", "k1", "none", "k1"), State("a", "k2", "none", "k1"),
                   State("a", "none", "none", "k1")}

RelayBodies ==
  {[buyer |-> "u", flaws |-> {}, deadline |-> 1],
   [buyer |-> "u", flaws |-> {}, deadline |-> 3],
   [buyer |-> "v", flaws |-> {}, deadline |-> 3],
   [buyer |-> "v", flaws |-> {"signature"}, deadline |-> 3],
   [buyer |-> "v", flaws |-> {"buyer", "fields"}, deadline |-> 3]}

X402Payments ==
  LET P(flaws, scheme, salt, signs) ==
        [flaws |-> flaws, scheme |-> scheme, from |-> "u", nonce |-> "n", salt |-> salt,
         validBefore |-> 1, signed |-> signs] IN
  {P({}, "direct", "absent", TRUE), P({}, "eip-3009", "absent", TRUE),
   P({}, "eip-3009", "s", FALSE), P({"network"}, "direct", "absent", TRUE)}

VARIABLE focus      \* the component that runs; the others rest in an initial state

gateVars == <<config, op, gateAt, asked, answers, allowed>>
gaslessVars == <<gaslessClock, body, gaslessAt, gaslessAnswer, counts, gaslessSubmitChain,
    nonceRead, broadcasts, gaslessFaults>>
x402Vars == <<x402Clock, pay, x402At, x402Answer, spentBefore, spent, x402SubmitChain,
    txs, x402Faults>>
all == <<focus, vars, identityVars, gateVars, gaslessVars, x402Vars>>
IdentityAlone == focus = "identity" /\ UNCHANGED
  <<focus, vars, gateVars, gaslessVars, x402Vars>>
GateAlone == focus = "policy" /\ UNCHANGED
  <<focus, vars, identityVars, gaslessVars, x402Vars>>
GaslessAlone == focus = "relay" /\ UNCHANGED
  <<focus, vars, identityVars, gateVars, x402Vars>>
X402Alone == focus = "x402" /\ UNCHANGED
  <<focus, vars, identityVars, gateVars, gaslessVars>>
ConfirmationAlone == focus = "confirmation" /\ UNCHANGED
  <<focus, identityVars, gateVars, gaslessVars, x402Vars>>

(* A disabled gate reads none of its rules, and the two addresses are       *)
(* alike: one configuration for each case.                                 *)
RulesDistinct ==
  /\ config.allow # {"b"}
  /\ ~config.enabled => config.cap = {} /\ config.allow = {} /\ ~config.registry

SliceInit ==
  /\ focus \in {"identity", "policy", "relay", "x402", "confirmation"}
  /\ IdentityInit /\ chain[1]["b"] = "none" /\ (focus # "identity" => file = {} /\ chain[1] = [i \in {"a", "b"} |-> "none"])
  /\ Gate!Init /\ RulesDistinct /\ (focus # "policy" => op.fn = "other" /\ ~config.enabled)
  /\ Gasless!RelayInit
  /\ X402!X402Init
  /\ Init

SliceNext ==
  \/ IdentityAlone /\ IdentityNext
  \/ GateAlone /\ Gate!Next
  \/ GaslessAlone /\ Gasless!RelayNext
  \/ X402Alone /\ X402!X402Next
  \/ ConfirmationAlone /\ Next

SliceSpec == SliceInit /\ [][SliceNext]_all

(* The identity's slice alone, with the fairness of NodeIdentity.          *)
IdentitySliceSpec ==
  /\ SliceInit /\ focus = "identity" /\ [][SliceNext]_all
  /\ WF_all(IdentityAlone /\ Attempt) /\ WF_all(IdentityAlone /\ Job) /\ WF_all(IdentityAlone /\ Boot)
============================================================================
