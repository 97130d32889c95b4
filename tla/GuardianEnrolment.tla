--------------------------- MODULE GuardianEnrolment ---------------------------
(***************************************************************************)
(* Re-registering guardian keys on a new aggregator                        *)
(* (deploy/reregister-guardians.mjs): gates for every node file, a gate    *)
(* over the batch, one transaction per file, then a read-back.  The script *)
(* may die at any call; the operator runs it again.                        *)
(*                                                                         *)
(* The aggregator's registerBLSPublicKey is external, modelled from what   *)
(* the script relies on: it refuses a seat or a key that another validator *)
(* holds, and a validator that has a seat keeps it.  Proofs of possession  *)
(* are modelled by what they prove: the file's private key belongs to its  *)
(* public key.                                                             *)
(***************************************************************************)
EXTENDS Naturals, Sequences, FiniteSets

CONSTANTS
  Validators,      \* operator addresses of the node files
  Stranger,        \* a validator the owner registers by other means
  Slots, Keys,
  BatchSize,       \* the number of node files given with --nodes
  MaxFaults,       \* bound on the calls that fail
  MaxStrangers     \* bound on the registrations made by other means

EnrolConstants ==
  BatchSize \in Nat /\ 0 \notin Slots /\ Stranger \notin Validators

VARIABLES
  batch,           \* --nodes: the sequence of node files
  release,         \* chain, code, version and domain are the expected ones
  owner,           \* the signing key is the aggregator owner's
  seat,            \* aggregator: validator -> slot, 0 for none
  key,             \* getBLSPublicKey: validator -> key
  keyOwner,        \* blsKeyOwner: key -> validator
  mempool,         \* files whose transaction is sent and not yet mined
  at, mode, i,     \* the script, what it was started for, the file it is at
  receipt,         \* status of the transaction being waited for
  bad,             \* read-backs that did not match
  outcome,         \* how the last run ended
  faults, strangers

chain == <<seat, key, keyOwner>>
local == <<at, mode, i, receipt, bad>>
inputs == <<batch, release, owner>>
vars == <<inputs, chain, mempool, local, outcome, faults, strangers>>

None == "none"
Everyone == Validators \union {Stranger}
NodeFiles == [validator : Validators, slot : Slots, key : Keys, matches : BOOLEAN]
Files == 1..Len(batch)

validatorAtSlot(s) == {v \in Everyone : seat[v] = s}

(* registerBLSPublicKey, called by the owner.                              *)
Accepts(v, k, s) ==
  /\ validatorAtSlot(s) \subseteq {v}
  /\ keyOwner[k] \in {None, v}

Register(v, k, s) ==
  IF Accepts(v, k, s)
  THEN /\ seat' = [seat EXCEPT ![v] = IF @ = 0 THEN s ELSE @]
       /\ key' = [key EXCEPT ![v] = k]
       /\ keyOwner' = [keyOwner EXCEPT ![k] = v]
  ELSE UNCHANGED chain

Fault == faults < MaxFaults /\ faults' = faults + 1
End(how) ==
  /\ outcome' = how
  /\ at' = "idle" /\ mode' = None /\ i' = 1 /\ receipt' = None /\ bad' = 0
Goto(there) == at' = there /\ i' = 1 /\ UNCHANGED <<mode, receipt, bad, outcome>>
NextFile == i' = i + 1 /\ UNCHANGED <<at, mode, receipt, bad, outcome>>

(***************************************************************************)
(* The script.                                                             *)
(***************************************************************************)

(* The operator starts it, until a run has verified the batch.             *)
Start(m) ==
  /\ at = "idle" /\ outcome # "verified"
  /\ at' = "preflight" /\ mode' = m /\ outcome' = None
  /\ UNCHANGED <<inputs, chain, mempool, i, receipt, bad, faults, strangers>>

(* Chain id, code, version and domain; a signing run needs the owner's key.*)
Preflight ==
  /\ at = "preflight"
  /\ IF release /\ (mode = "export" \/ owner) THEN Goto("gates") ELSE End("died")
  /\ UNCHANGED <<inputs, chain, mempool, faults, strangers>>

(* A mutated form of Unclaimed: a key the file's own validator already     *)
(* registered counts as taken.                                             *)
UnclaimedByAnyone(f) ==
  validatorAtSlot(f.slot) \subseteq {f.validator} /\ keyOwner[f.key] = None

(* Gates 6 and 7: seat and key are free or this validator's own, and the   *)
(* registration passes a dry run.                                          *)
Unclaimed(f) ==
  /\ validatorAtSlot(f.slot) \subseteq {f.validator}
  /\ keyOwner[f.key] \in {None, f.validator}
  /\ Accepts(f.validator, f.key, f.slot)

(* Every gate of one file; the first that fails ends the run.              *)
GateFile ==
  /\ at = "gates" /\ i \in Files
  /\ IF batch[i].matches /\ Unclaimed(batch[i]) THEN NextFile ELSE End("died")
  /\ UNCHANGED <<inputs, chain, mempool, faults, strangers>>

(* A mutated form of Disjoint: the batch is not compared with itself.      *)
DisjointUnchecked == TRUE

(* Gate 10: no two files claim one seat, validator or key.                 *)
Disjoint ==
  \A j, k \in Files : j # k =>
    /\ batch[j].slot # batch[k].slot
    /\ batch[j].validator # batch[k].validator
    /\ batch[j].key # batch[k].key

(* Only a broadcasting run goes on after the gates.                        *)
GateBatch ==
  /\ at = "gates" /\ i \notin Files
  /\ CASE ~Disjoint -> End("died")
       [] Disjoint /\ mode = "broadcast" -> Goto("send")
       [] OTHER -> End("passed")
  /\ UNCHANGED <<inputs, chain, mempool, faults, strangers>>

Send ==
  /\ at = "send" /\ i \in Files
  /\ mempool' = mempool \union {i}
  /\ at' = "wait" /\ UNCHANGED <<mode, i, receipt, bad, outcome>>
  /\ UNCHANGED <<inputs, chain, faults, strangers>>

(* A reverted transaction ends the run; earlier ones stay.                 *)
Wait ==
  /\ at = "wait" /\ receipt # None
  /\ IF receipt = "ok"
     THEN at' = "send" /\ i' = i + 1 /\ receipt' = None /\ UNCHANGED <<mode, bad, outcome>>
     ELSE End("died")
  /\ UNCHANGED <<inputs, chain, mempool, faults, strangers>>

AllSent ==
  /\ at = "send" /\ i \notin Files
  /\ Goto("verify")
  /\ UNCHANGED <<inputs, chain, mempool, faults, strangers>>

(* The file's validator holds its seat, and holds it with the file's key.  *)
ReadsBack(f) == validatorAtSlot(f.slot) = {f.validator} /\ key[f.validator] = f.key

(* Post-verify, one file at a time; a key that cannot be read is a         *)
(* mismatch.                                                               *)
Verify ==
  /\ at = "verify" /\ i \in Files
  /\ \/ bad' = bad + (IF ReadsBack(batch[i]) THEN 0 ELSE 1) /\ UNCHANGED faults
     \/ Fault /\ bad' = bad + 1
  /\ i' = i + 1
  /\ UNCHANGED <<inputs, chain, mempool, at, mode, receipt, outcome, strangers>>

Verified ==
  /\ at = "verify" /\ i \notin Files
  /\ End(IF bad = 0 THEN "verified" ELSE "died")
  /\ UNCHANGED <<inputs, chain, mempool, faults, strangers>>

(* A call throws: main's catch ends the run.                               *)
Dies ==
  /\ at # "idle"
  /\ Fault /\ End("died")
  /\ UNCHANGED <<inputs, chain, mempool, strangers>>

(***************************************************************************)
(* The chain, and registrations made by other means.                       *)
(***************************************************************************)
Mine(j) ==
  LET f == batch[j] IN
  /\ j \in mempool
  /\ mempool' = mempool \ {j}
  /\ Register(f.validator, f.key, f.slot)
  /\ receipt' = IF at = "wait" /\ i = j
                THEN IF Accepts(f.validator, f.key, f.slot) THEN "ok" ELSE "reverted"
                ELSE receipt
  /\ UNCHANGED <<inputs, at, mode, i, bad, outcome, faults, strangers>>

StrangerRegisters ==
  /\ strangers < MaxStrangers
  /\ strangers' = strangers + 1
  /\ \E k \in Keys, s \in Slots : Accepts(Stranger, k, s) /\ Register(Stranger, k, s)
  /\ UNCHANGED <<inputs, mempool, local, outcome, faults>>

(* The aggregator is empty, or one of the validators is already enrolled,  *)
(* with this seat and key or with others.                                  *)
Init ==
  /\ batch \in [1..BatchSize -> NodeFiles]
  /\ release \in BOOLEAN /\ owner \in BOOLEAN
  /\ \/ /\ seat = [v \in Everyone |-> 0] /\ key = [v \in Everyone |-> None]
        /\ keyOwner = [k \in Keys |-> None]
     \/ \E w \in Validators, k \in Keys, s \in Slots :
          /\ seat = [v \in Everyone |-> IF v = w THEN s ELSE 0]
          /\ key = [v \in Everyone |-> IF v = w THEN k ELSE None]
          /\ keyOwner = [l \in Keys |-> IF l = k THEN w ELSE None]
  /\ mempool = {}
  /\ at = "idle" /\ mode = None /\ i = 1 /\ receipt = None /\ bad = 0
  /\ outcome = None
  /\ faults = 0 /\ strangers = 0

Script ==
  \/ Preflight \/ GateFile \/ GateBatch \/ Send \/ Wait \/ AllSent \/ Verify \/ Verified

Mined == \E j \in Files : Mine(j)

Next ==
  \/ \E m \in {"broadcast", "dry", "export"} : Start(m)
  \/ Script \/ Mined \/ Dies \/ StrangerRegisters

(* The script runs on, what is sent is mined, and the operator goes on     *)
(* trying with --broadcast.                                                *)
EnrolSpec ==
  /\ Init /\ [][Next]_vars
  /\ WF_vars(Script) /\ WF_vars(Mined) /\ SF_vars(Start("broadcast"))

(***************************************************************************)
(* Properties                                                              *)
(***************************************************************************)
Seated ==
  {v \in Validators :
     \E j \in Files : batch[j].validator = v /\ seat[v] = batch[j].slot /\ key[v] = batch[j].key}

(* "All slots verified" means as many guardians as node files, each in its *)
(* own seat with its own key: two copies of a file, or two files with a    *)
(* common seat, key or validator, are never reported as two guardians.     *)
VerifiedAreSeated == outcome = "verified" => Cardinality(Seated) = Len(batch)

(* "PARTIAL FAILURE IS SAFE TO RETRY": a batch that is sound in itself is  *)
(* verified in the end, whatever part of it an earlier run left registered *)
(* or still in the mempool, unless the aggregator holds one of its seats   *)
(* or keys for another validator, or another seat for one of its own.      *)
Sound == release /\ owner /\ Disjoint /\ \A j \in Files : batch[j].matches
Conflict ==
  \E j \in Files :
    \/ ~Accepts(batch[j].validator, batch[j].key, batch[j].slot)
    \/ seat[batch[j].validator] \notin {0, batch[j].slot}
RetryCompletes == []<>(Sound => outcome = "verified" \/ Conflict)
================================================================================
