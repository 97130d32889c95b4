---------------------------- MODULE WalletPromise ----------------------------
(***************************************************************************)
(* What a write through the operator's wallet promises its caller, whoever *)
(* else uses the wallet: every call returns; it returns success only when  *)
(* its transaction is on the chain; a call that fails may still land later.*)
(***************************************************************************)
CONSTANT Ops          \* the calls

VARIABLES status,     \* call -> "idle", "open", "ok" or "failed"
          landed      \* the calls whose transaction the chain holds

pvars == <<status, landed>>

PromiseInit == status = [o \in Ops |-> "idle"] /\ landed = {}

Refuse(o) == status[o] = "idle" /\ status' = [status EXCEPT ![o] = "failed"] /\ UNCHANGED landed
Open(o) == status[o] = "idle" /\ status' = [status EXCEPT ![o] = "open"] /\ UNCHANGED landed
Land(o) == status[o] # "idle" /\ o \notin landed /\ landed' = landed \union {o} /\ UNCHANGED status
Confirm(o) == status[o] = "open" /\ o \in landed /\ status' = [status EXCEPT ![o] = "ok"] /\ UNCHANGED landed
Fail(o) == status[o] = "open" /\ status' = [status EXCEPT ![o] = "failed"] /\ UNCHANGED landed

PromiseNext == \E o \in Ops : Refuse(o) \/ Open(o) \/ Land(o) \/ Confirm(o) \/ Fail(o)

(* The wallet keeps the promise when it implements this specification.     *)
PromiseSpec ==
  /\ PromiseInit /\ [][PromiseNext]_pvars
  /\ \A o \in Ops : WF_pvars(Confirm(o) \/ Fail(o))
===============================================================================
