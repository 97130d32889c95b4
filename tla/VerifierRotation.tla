--------------------------- MODULE VerifierRotation ---------------------------
(***************************************************************************)
(* Applying a matured fraud-proof-verifier rotation                        *)
(* (deploy/apply-verifier-rotation.mjs, run daily): read the rotation at   *)
(* one block, decide, apply, read back at the block of the receipt, and    *)
(* write the read-back artifact before asserting anything.                 *)
(*                                                                         *)
(* The aggregator's rotation (propose, wait out the delay, apply by        *)
(* anyone, disarm) is external, modelled from how the script uses it.      *)
(***************************************************************************)
EXTENDS Naturals

CONSTANTS
  Verifiers, Expected,    \* contracts that may be proposed; --expect-verifier
  Delay,                  \* VERIFIER_ROTATION_DELAY
  MaxTime,                \* bound on the chain's time
  MaxFaults               \* bound on failing calls

VARIABLES
  now, active, pending, readyAt,   \* the aggregator; readyAt 0: none pending
  at,                     \* where the script is
  seen,                   \* what it read: [active, pending, readyAt, now]
  broadcast,              \* --broadcast: "no", "yes", or "keyless" without a signing key
  receipt,                \* the mined apply: [ok, active], active at its block
  artifact,               \* rotation-readback.json's status
  exit,                   \* how the last run ended
  faults

aggregator == <<active, pending, readyAt>>
vars == <<now, aggregator, at, seen, broadcast, receipt, artifact, exit, faults>>

None == "none"
Nothing == [active |-> None, pending |-> None, readyAt |-> 0, now |-> 0]
NoReceipt == [ok |-> FALSE, active |-> None]
Fault == faults < MaxFaults /\ faults' = faults + 1
Exit(how) == at' = "idle" /\ exit' = how

(* One run reads everything at one block.                                  *)
Read ==
  /\ at = "idle"
  /\ seen' = [active |-> active, pending |-> pending, readyAt |-> readyAt, now |-> now]
  /\ broadcast' \in {"no", "yes", "keyless"}
  /\ receipt' = NoReceipt /\ artifact' = None
  /\ \/ at' = "decide" /\ exit' = None /\ UNCHANGED faults
     \/ Fault /\ Exit("red")
  /\ UNCHANGED <<now, aggregator>>

(* Already applied and still waiting are successes; anything unexpected is *)
(* red, before a transaction is sent.                                      *)
Decide ==
  /\ at = "decide"
  /\ CASE seen.readyAt = 0 -> Exit(IF seen.active = Expected THEN "green" ELSE "red")
       [] seen.readyAt # 0 /\ seen.pending # Expected -> Exit("red")
       [] seen.readyAt # 0 /\ seen.pending = Expected /\ seen.now < seen.readyAt -> Exit("green")
       [] OTHER -> \/ broadcast = "no" /\ Exit("green")
                   \/ broadcast = "keyless" /\ Exit("red")
                   \/ broadcast = "yes" /\ at' = "sent" /\ UNCHANGED exit
  /\ UNCHANGED <<now, aggregator, seen, broadcast, receipt, artifact, faults>>

(* applyFraudProofVerifier                                                 *)
Matured == readyAt # 0 /\ now >= readyAt
ApplyPending == active' = pending /\ pending' = None /\ readyAt' = 0

(* The transaction is mined some time after it is sent.  wait() hands over *)
(* the receipt of a reverted one, or throws.                               *)
Mined ==
  /\ at = "sent"
  /\ \/ /\ Matured /\ ApplyPending
        /\ receipt' = [ok |-> TRUE, active |-> active']
        /\ at' = "mined" /\ UNCHANGED exit
     \/ /\ ~Matured /\ UNCHANGED aggregator
        /\ \/ receipt' = [ok |-> FALSE, active |-> active] /\ at' = "mined" /\ UNCHANGED exit
           \/ Exit("red") /\ UNCHANGED receipt
  /\ UNCHANGED <<now, seen, broadcast, artifact, faults>>

(* A mutated form of Readback: the artifact is written last, after the     *)
(* assertions that end the run.                                            *)
ReadbackAssertedFirst ==
  /\ at = "mined"
  /\ IF receipt.ok /\ receipt.active = Expected
     THEN artifact' = "ok" /\ Exit("green")
     ELSE Exit("red") /\ UNCHANGED artifact
  /\ UNCHANGED <<now, aggregator, seen, broadcast, receipt, faults>>

(* What was read back is written down, then asserted.                      *)
Readback ==
  /\ at = "mined"
  /\ \/ /\ artifact' = IF ~receipt.ok THEN "reverted"
                       ELSE IF receipt.active = Expected THEN "ok" ELSE "mismatch"
        /\ Exit(IF artifact' = "ok" THEN "green" ELSE "red")
        /\ UNCHANGED faults
     \/ /\ receipt.ok /\ Fault
        /\ artifact' = "readback-failed" /\ Exit("red")
  /\ UNCHANGED <<now, aggregator, seen, broadcast, receipt>>

(* Sending or waiting throws; the transaction may still land, as anyone's. *)
Throws ==
  /\ at = "sent"
  /\ Fault /\ Exit("red")
  /\ UNCHANGED <<now, aggregator, seen, broadcast, receipt, artifact>>

Tick ==
  /\ now < MaxTime
  /\ now' = now + 1
  /\ UNCHANGED <<aggregator, at, seen, broadcast, receipt, artifact, exit, faults>>

(* The owner proposes or disarms; anyone applies.                          *)
Propose ==
  /\ \E v \in Verifiers : pending' = v
  /\ readyAt' = now + Delay
  /\ UNCHANGED <<now, active, at, seen, broadcast, receipt, artifact, exit, faults>>

Disarm ==
  /\ pending' = None /\ readyAt' = 0 /\ active' \in {active, None}
  /\ UNCHANGED <<now, at, seen, broadcast, receipt, artifact, exit, faults>>

AnyoneApplies ==
  /\ Matured /\ ApplyPending
  /\ UNCHANGED <<now, at, seen, broadcast, receipt, artifact, exit, faults>>

Init ==
  /\ now = 1 /\ active \in Verifiers /\ pending = None /\ readyAt = 0
  /\ at = "idle" /\ seen = Nothing /\ broadcast = "no"
  /\ receipt = NoReceipt /\ artifact = None /\ exit = None
  /\ faults = 0

Next ==
  \/ Read \/ Decide \/ Mined \/ Readback \/ Throws
  \/ Tick \/ Propose \/ Disarm \/ AnyoneApplies

RotationSpec == Init /\ [][Next]_vars

(***************************************************************************)
(* "A red job AND a published artifact": a run that got a receipt leaves   *)
(* an artifact that tells what its transaction did, also when the          *)
(* verifier proposed was changed between the read and the block the        *)
(* transaction landed in, and it is green exactly when the artifact is ok. *)
(***************************************************************************)
ArtifactTells ==
  at = "idle" /\ receipt # NoReceipt =>
    /\ artifact \in CASE ~receipt.ok -> {"reverted"}
                      [] receipt.ok /\ receipt.active = Expected -> {"ok", "readback-failed"}
                      [] OTHER -> {"mismatch", "readback-failed"}
    /\ exit = "green" <=> artifact = "ok"
================================================================================
