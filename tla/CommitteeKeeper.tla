---------------------------- MODULE CommitteeKeeper ----------------------------
(***************************************************************************)
(* The scripts that keep committee mode alive: redundant keepers that pin  *)
(* every epoch (deploy/committee-keeper.mjs --watch) and the health check  *)
(* that says why no committee can be formed (deploy/committee-health.mjs). *)
(* The validator they watch is reduced to what they read and call: the     *)
(* epoch schedule, the pins and the version each was made under, and the   *)
(* members a snapshot must list (AAStarCommitteeValidator.sol, modelled in *)
(* full by CommitteeValidator).                                            *)
(*                                                                         *)
(* A tick reads, lists, sends and waits in separate calls, so blocks, the  *)
(* other keepers, reconfigurations and changes of the set come in between. *)
(***************************************************************************)
EXTENDS Integers, Sequences, FiniteSets

CONSTANTS
  Keepers,
  Nodes,           \* the nodes that may hold a slot
  EpochLength,
  PIN_WINDOW,      \* 256, BLOCKHASH_WINDOW
  MinCommittee,
  Founders,        \* the nodes that hold a slot at first
  FirstBlock,      \* the block at which the keepers are started, in epoch 1
  MaxBlock,        \* bound on the chain
  MaxConfig,       \* bound on the reconfigurations
  MaxChanges,      \* bound on the changes of the set
  MaxFaults        \* bound on the calls that fail, the crashes and the timeouts

KeeperConstants ==
  /\ EpochLength \in Nat \ {0}
  /\ FirstBlock \in Nat /\ MaxBlock \in Nat /\ FirstBlock <= MaxBlock
  /\ MinCommittee \in Nat
  /\ IsFiniteSet(Founders)

VARIABLES
  block, armed, version,
  pin,             \* epoch -> [version, count] of its snapshot, version 0 for none
  expired,         \* the epochs whose epochSetValidUntil has passed
  members,         \* the nodes that hold a slot
  leaving,         \* those with an exit notice in flight: not eligible
  mempool,         \* keeper -> its snapshotEpoch calls not mined yet, in nonce order
  at,              \* keeper -> where its tick is
  epoch, bn,       \* keeper -> the epoch and the block number its tick read
  list,            \* keeper -> the set its snapshotEpoch call lists
  reason,          \* keeper -> why the call was refused, as far as the error tells
  misreported,     \* history: a tick returned "ok" though no epoch was usable in it
  seen,            \* history: the chain's epoch was usable at some moment of the tick
  changes, faults

chain   == <<block, armed, version, pin, expired, members, leaving, changes>>
ticking == <<at, epoch, bn, list, reason, misreported>>
vars    == <<chain, ticking, mempool, seen, faults>>

Epochs == 0..(MaxBlock \div EpochLength)
Smaller(a, b) == IF a < b THEN a ELSE b

(***************************************************************************)
(* The validator.                                                          *)
(***************************************************************************)
Epoch == block \div EpochLength
Pinned(e) == pin[e].version # 0
Current(e) == Pinned(e) /\ pin[e].version = version
EpochUsable(e) == Current(e) /\ e \notin expired

(* The reasons snapshotEpoch(activeNodeIds) has to revert, in its order.   *)
Refusal(ids) ==
  CASE ~armed -> "other"
    [] Current(Epoch) -> "pinned"
    [] ~(block > Epoch * EpochLength /\ block <= Epoch * EpochLength + PIN_WINDOW) -> "other"
    [] ids # members -> "set"
    [] members \intersect leaving # {} -> "ineligible"
    [] OTHER -> "none"

(* What validate() and requiredQuorum() need before any payload can pass.  *)
Serves ==
  /\ armed /\ Epoch > 0
  /\ EpochUsable(Epoch) /\ EpochUsable(Epoch - 1)
  /\ pin[Epoch - 1].count >= MinCommittee

(***************************************************************************)
(* One tick of a keeper.                                                   *)
(***************************************************************************)
Fault == faults < MaxFaults /\ faults' = faults + 1
To(k, there) == at' = [at EXCEPT ![k] = there]
Returns(k, what) ==
  /\ To(k, "idle")
  /\ misreported' = (misreported \/ (what = "ok" /\ ~seen[k]))
  /\ epoch' = [epoch EXCEPT ![k] = 0]
  /\ bn' = [bn EXCEPT ![k] = 0]
  /\ list' = [list EXCEPT ![k] = {}]
  /\ reason' = [reason EXCEPT ![k] = "none"]
Throws(k, why) ==
  /\ To(k, "catch")
  /\ reason' = [reason EXCEPT ![k] = why]
  /\ list' = [list EXCEPT ![k] = {}]
  /\ UNCHANGED <<epoch, bn, misreported>>

(* The schedule and the block number; committee mode off leaves the tick   *)
(* idle.                                                                   *)
TickStart(k) ==
  /\ at[k] = "idle"
  /\ IF armed
     THEN /\ To(k, "state")
          /\ epoch' = [epoch EXCEPT ![k] = Epoch]
          /\ bn' = [bn EXCEPT ![k] = block]
          /\ seen' = [seen EXCEPT ![k] = Current(Epoch)]
     ELSE UNCHANGED <<at, epoch, bn, seen>>
  /\ UNCHANGED <<chain, list, reason, misreported, mempool, faults>>

InWindow(e, b) ==
  /\ b > e * EpochLength
  /\ b <= e * EpochLength + Smaller(PIN_WINDOW, EpochLength - 1)

(* A mutated form of ReadState: an epoch is never pinned a second time,    *)
(* under a newer configuration.                                            *)
ReadStatePinned(k) ==
  /\ at[k] = "state"
  /\ CASE Current(epoch[k]) -> Returns(k, "ok")
       [] ~Current(epoch[k]) /\ (Pinned(epoch[k]) \/ ~InWindow(epoch[k], bn[k])) -> Returns(k, "outside-window")
       [] OTHER -> To(k, "list") /\ bn' = [bn EXCEPT ![k] = 0] /\ UNCHANGED <<epoch, list, reason, misreported>>
  /\ UNCHANGED <<chain, mempool, seen, faults>>

(* The pin and its version: a usable epoch needs nothing, and outside the  *)
(* window nothing can be done.                                             *)
ReadState(k) ==
  /\ at[k] = "state"
  /\ CASE Current(epoch[k]) -> Returns(k, "ok")
       [] ~Current(epoch[k]) /\ ~InWindow(epoch[k], bn[k]) -> Returns(k, "outside-window")
       [] OTHER -> To(k, "list") /\ bn' = [bn EXCEPT ![k] = 0] /\ UNCHANGED <<epoch, list, reason, misreported>>
  /\ UNCHANGED <<chain, mempool, seen, faults>>

(* activeSet: the event replay, or the contract's helper when the replay   *)
(* is not available; both give the set at the block they are read at.      *)
ActiveSet(k) ==
  /\ at[k] = "list"
  /\ \/ /\ To(k, "send") /\ list' = [list EXCEPT ![k] = members]
        /\ UNCHANGED <<epoch, bn, reason, misreported, faults>>
     \/ Throws(k, "other") /\ Fault
  /\ UNCHANGED <<chain, mempool, seen>>

(* The call: gas estimation throws when it would revert now, with the      *)
(* reason or without it.                                                   *)
Send(k) ==
  /\ at[k] = "send"
  /\ \/ /\ Refusal(list[k]) = "none"
        /\ To(k, "wait")
        /\ mempool' = [mempool EXCEPT ![k] = Append(@, list[k])]
        /\ list' = [list EXCEPT ![k] = {}]
        /\ UNCHANGED <<epoch, bn, reason, misreported, faults>>
     \/ /\ Refusal(list[k]) # "none"
        /\ Throws(k, Refusal(list[k]))
        /\ UNCHANGED <<mempool, faults>>
     \/ Throws(k, "other") /\ Fault /\ UNCHANGED mempool
  /\ UNCHANGED <<chain, seen>>

(* tx.wait(1, 120000) gives up; the call stays in the mempool.             *)
Timeout(k) ==
  /\ at[k] = "wait"
  /\ Returns(k, "timeout") \/ Throws(k, "other")
  /\ Fault
  /\ UNCHANGED <<chain, mempool, seen>>

(* A mutated form of Catch: any pin of the epoch counts as a lost race.    *)
CatchPinned(k) ==
  /\ at[k] = "catch"
  /\ \/ UNCHANGED faults /\ Pinned(epoch[k]) /\ Returns(k, "ok")
     \/ UNCHANGED faults /\ ~Pinned(epoch[k]) /\ Returns(k, "error")
  /\ UNCHANGED <<chain, mempool, seen>>

(* The error path: the pin and its version read at one block decide        *)
(* whether another keeper was first; the text of the error does only when  *)
(* the chain cannot be read.                                               *)
Catch(k) ==
  /\ at[k] = "catch"
  /\ \E stateKnown \in BOOLEAN :
       /\ IF stateKnown THEN UNCHANGED faults ELSE Fault
       /\ Returns(k,
            CASE stateKnown /\ Current(epoch[k]) -> "ok"
              [] ~stateKnown /\ reason[k] = "pinned" -> "ok"
              [] reason[k] = "set" -> "retry"
              [] reason[k] = "ineligible" -> "ineligible"
              [] OTHER -> "error")
  /\ UNCHANGED <<chain, mempool, seen>>

(* The process is killed and started again.                                *)
Crash(k) ==
  /\ at[k] # "idle"
  /\ Returns(k, "none")
  /\ Fault
  /\ UNCHANGED <<chain, mempool, seen>>

Step(k) == TickStart(k) \/ ReadState(k) \/ ActiveSet(k) \/ Send(k) \/ Catch(k)

(***************************************************************************)
(* The chain and the people around it.                                     *)
(***************************************************************************)

(* snapshotEpoch is executed in the current block.  A revert is reported   *)
(* to the keeper that waits, with its reason or bare.                      *)
Mine(k) ==
  LET ids == Head(mempool[k])
      waits == at[k] = "wait" /\ Len(mempool[k]) = 1
  IN
  /\ mempool[k] # <<>>
  /\ mempool' = [mempool EXCEPT ![k] = Tail(@)]
  /\ IF Refusal(ids) = "none"
     THEN /\ pin' = [pin EXCEPT ![Epoch] = [version |-> version, count |-> Cardinality(members)]]
          /\ expired' = expired \ {Epoch}
          /\ seen' = [j \in Keepers |-> seen[j] \/ at[j] # "idle"]
          /\ IF waits THEN Returns(k, "pinned") ELSE UNCHANGED ticking
     ELSE /\ IF waits THEN Throws(k, Refusal(ids)) \/ Throws(k, "other") ELSE UNCHANGED ticking
          /\ UNCHANGED <<pin, expired, seen>>
  /\ UNCHANGED <<block, armed, version, members, leaving, changes, faults>>

NextBlock ==
  /\ block < MaxBlock
  /\ block' = block + 1
  /\ UNCHANGED <<armed, version, pin, expired, members, leaving, changes, ticking, mempool, seen, faults>>

(* A setter bumps configVersion; setEpochLength also turns the mode on and *)
(* off.                                                                    *)
Reconfigure(on) ==
  /\ version < MaxConfig
  /\ version' = version + 1
  /\ armed' = on
  /\ UNCHANGED <<block, pin, expired, members, leaving, changes, ticking, mempool, seen, faults>>

(* No block for longer than GUARDIAN_EXIT_DELAY after a pin.               *)
Expire ==
  /\ \E e \in Epochs : EpochUsable(e)
  /\ changes < MaxChanges
  /\ expired' = {e \in Epochs : Pinned(e)}
  /\ changes' = changes + 1
  /\ UNCHANGED <<block, armed, version, pin, members, leaving, ticking, mempool, seen, faults>>

(* A slot is assigned, or an exit notice is filed.                         *)
Change(n) ==
  /\ changes < MaxChanges
  /\ changes' = changes + 1
  /\ \/ n \notin members /\ members' = members \union {n} /\ UNCHANGED leaving
     \/ n \in members \ leaving /\ leaving' = leaving \union {n} /\ UNCHANGED members
  /\ UNCHANGED <<block, armed, version, pin, expired, ticking, mempool, seen, faults>>

(* syncNode or syncExitNotice: anyone clears the slot of a node that is no *)
(* longer eligible, as the keeper's report asks.                           *)
Evict(n) ==
  /\ n \in members \intersect leaving
  /\ members' = members \ {n}
  /\ leaving' = leaving \ {n}
  /\ UNCHANGED <<block, armed, version, pin, expired, changes, ticking, mempool, seen, faults>>

Init ==
  /\ block = FirstBlock
  /\ armed = TRUE
  /\ version = 1
  /\ pin = [e \in Epochs |-> IF e = 0 THEN [version |-> 1, count |-> MinCommittee]
                             ELSE [version |-> 0, count |-> 0]]
  /\ expired = {}
  /\ members = Founders
  /\ leaving = {}
  /\ mempool = [k \in Keepers |-> <<>>]
  /\ at = [k \in Keepers |-> "idle"]
  /\ epoch = [k \in Keepers |-> 0]
  /\ bn = [k \in Keepers |-> 0]
  /\ list = [k \in Keepers |-> {}]
  /\ reason = [k \in Keepers |-> "none"]
  /\ misreported = FALSE
  /\ seen = [k \in Keepers |-> FALSE]
  /\ changes = 0 /\ faults = 0

Next ==
  \/ \E k \in Keepers : Step(k) \/ Timeout(k) \/ Crash(k) \/ Mine(k)
  \/ NextBlock
  \/ \E on \in BOOLEAN : Reconfigure(on)
  \/ Expire
  \/ \E n \in Nodes : Change(n) \/ Evict(n)

(* Every keeper's loop goes on, its calls are mined, and a node that is on *)
(* its way out is cleared.  Nothing is assumed of how fast blocks come.    *)
KeeperSpec ==
  /\ Init /\ [][Next]_vars
  /\ \A k \in Keepers : WF_vars(Step(k)) /\ WF_vars(Mine(k))
  /\ \A n \in Nodes : WF_vars(Evict(n))

(***************************************************************************)
(* The health check: every read is made at one block, so it is a function  *)
(* of a state.                                                             *)
(***************************************************************************)

(* "why": the conjuncts of requiredQuorum() that fail.                     *)
FailingConjuncts ==
  {<<"unpinned", e>> : e \in {f \in {Epoch, Epoch - 1} : ~Pinned(f)}} \union
  {<<"version", e>> : e \in {f \in {Epoch, Epoch - 1} : Pinned(f) /\ pin[f].version # version}} \union
  {<<"expired", e>> : e \in {f \in {Epoch, Epoch - 1} : Pinned(f) /\ f \in expired}} \union
  {<<"floor", e>> : e \in {f \in {Epoch - 1} : pin[f].count < MinCommittee}}

PastWindow == block > Epoch * EpochLength + Smaller(PIN_WINDOW, EpochLength - 1)

(* _epochUsable and the floor, rebuilt from the fields that were read.     *)
Usable(e) == Pinned(e) /\ pin[e].version = version /\ e \notin expired
FloorOk == pin[Epoch - 1].count >= MinCommittee

(* isBenignPendingPin                                                      *)
OnlyPendingPin ==
  ~Usable(Epoch) /\ Usable(Epoch - 1) /\ FloorOk /\ ~Pinned(Epoch) /\ ~PastWindow

(* The verdict on requiredQuorum().                                        *)
Verdict == IF Serves THEN "OK" ELSE IF OnlyPendingPin THEN "WARN" ELSE "CRITICAL"

Health == IF ~armed THEN "OFF" ELSE IF Epoch = 0 THEN "UNKNOWN" ELSE Verdict

(***************************************************************************)
(* Properties                                                              *)
(***************************************************************************)

(* A tick returns "ok" only if the chain's epoch was pinned under the      *)
(* version in force at some moment of the tick, whatever the error of a    *)
(* lost race said and however the configuration moved meanwhile.  (When    *)
(* the chain cannot be read and a new epoch began during the tick, "epoch  *)
(* already pinned" is about the new one.)                                  *)
OkMeansUsable == ~misreported

(* An epoch whose window is open is pinned under the configuration in      *)
(* force before it ends, if it lasts: no lost race, stale list, crash or   *)
(* version bump makes the keepers give it up.                              *)
Overdue == armed /\ InWindow(Epoch, block) /\ ~Current(Epoch)
PinnedWhileOpen == []<>~Overdue

(* The health check names a failing conjunct exactly when requiredQuorum() *)
(* is unsatisfiable: "unknown (all conjuncts read as satisfied)" is never  *)
(* reported, and an outage is paged unless only the pin is outstanding.    *)
OutageExplained ==
  Health \in {"OK", "WARN", "CRITICAL"} =>
    /\ Serves <=> FailingConjuncts = {}
    /\ Health = "WARN" => FailingConjuncts = {<<"unpinned", Epoch>>}

(* What lib/quorum-classify.mjs says of the state it calls benign: the     *)
(* epoch before still serves every payload.                                *)
PendingPinServes == Health = "WARN" => Serves

(* What the scripts report of an epoch is what the contract makes of it:   *)
(* a keeper's success, and the cause of an outage.                         *)
ReportsTrue == OkMeansUsable /\ OutageExplained
================================================================================
