---------------------------- MODULE LivenessKeeper ----------------------------
(***************************************************************************)
(* The attest keeper (liveness-keeper.service.ts): a tick of the nominal   *)
(* cadence attests; a watchdog on a timer of its own reads how much of the *)
(* liveness window is spent, and attests ahead of the cadence.             *)
(*                                                                         *)
(* An attestation is a call of the operator's wallet, with the promise of  *)
(* WalletPromise.  Block numbers are small; MinWindow and Divisor are the  *)
(* code's 100 and 3 scaled down.                                           *)
(***************************************************************************)
EXTENDS Integers

CONSTANTS
  Windows,               \* the windows governance may set
  MinWindow, MaxWindow,  \* MIN_ONCHAIN_WINDOW, MAX_ONCHAIN_WINDOW
  Divisor,               \* WINDOW_SAFETY_DIVISOR
  Configs,               \* the environments: [registry, wallet, interval], each good or bad
  AlertAfter,            \* WATCHDOG_FAIL_ALERT_AFTER
  MaxHead,               \* bound on the blocks mined
  MaxAttests,            \* bound on the attestations
  MaxCadence,            \* bound on the cadence's ticks
  MaxFaults              \* bound on the calls that fail, and the reads that fail or lag

VARIABLES
  head, window, liveAt,  \* the chain; block -> lastLive of this operator as of it
  status, landed,        \* the wallet: the attestations 1..MaxAttests
  phase,                 \* "off", "disabled", "running", "stopping"
  armed,                 \* the watchdog's timer is pending
  tick,                  \* the tick in flight: "none", "anchor", or "attest"
  tickFor,               \* "watchdog" while the watchdog awaits it, else "cadence"
  calls,                 \* attestations so far; the last one is the tick's
  cycle,                 \* where the watchdog's cycle is: "none" when not in flight
  sample,                \* the cycle's head
  confirmedAtBlock, watchdogFailures, alerted,
  cadence, faults

chain == <<head, window, liveAt>>
wallet == <<status, landed>>
dog == <<armed, cycle, sample, confirmedAtBlock, watchdogFailures, alerted>>
vars == <<chain, wallet, phase, dog, tick, tickFor, calls, cadence, faults>>

Attest == INSTANCE WalletPromise WITH Ops <- 1..MaxAttests

lastLive == liveAt[head]
Budget(w) == w \div Divisor
Fault == faults < MaxFaults /\ faults' = faults + 1

-----------------------------------------------------------------------------
(* onApplicationBootstrap: no registry or no wallet disables the keeper, a *)
(* bad interval does not.  The first tick and the watchdog start at once.  *)
Boot(c) ==
  /\ phase = "off"
  /\ IF c.registry /\ c.wallet
     THEN phase' = "running" /\ tick' = "anchor" /\ armed' = TRUE
     ELSE phase' = "disabled" /\ UNCHANGED <<tick, armed>>
  /\ UNCHANGED <<chain, wallet, cycle, sample, confirmedAtBlock, watchdogFailures, alerted, tickFor, calls,
                 cadence, faults>>

Shutdown ==
  /\ phase = "running"
  /\ phase' = "stopping" /\ armed' = FALSE
  /\ UNCHANGED <<chain, wallet, cycle, sample, confirmedAtBlock, watchdogFailures, alerted, tick, tickFor, calls,
                 cadence, faults>>

-----------------------------------------------------------------------------
(* The end of the watchdog's cycle: catch and finally of watchdogCycle.    *)
CycleEnds == cycle' = "none" /\ sample' = 0 /\ armed' = (phase = "running")

Succeeds == CycleEnds /\ watchdogFailures' = 0 /\ UNCHANGED alerted

(* A mutated form of Fails: the cycle stays marked as in flight.           *)
FailsHolding ==
  /\ armed' = (phase = "running")
  /\ cycle' = "held"
  /\ watchdogFailures' = watchdogFailures + 1
  /\ UNCHANGED <<sample, alerted>>
Fails ==
  /\ CycleEnds
  /\ watchdogFailures' = IF watchdogFailures < AlertAfter THEN watchdogFailures + 1 ELSE watchdogFailures
  /\ alerted' = (alerted \/ watchdogFailures + 1 = AlertAfter)

(* The tick the watchdog awaits returns: only a confirmed one is recorded. *)
Awaited(confirmed) ==
  IF cycle = "attest" /\ tickFor = "watchdog"
  THEN /\ confirmedAtBlock' = IF confirmed /\ phase = "running" THEN sample ELSE confirmedAtBlock
       /\ cycle' = "advise"
       /\ UNCHANGED <<armed, sample, watchdogFailures, alerted>>
  ELSE UNCHANGED dog

(* tick: skipped when one is in flight; the anchor, then the attestation.  *)
TickEnds(confirmed) == tick' = "none" /\ tickFor' = "cadence" /\ Awaited(confirmed)

CadenceFires ==
  /\ phase = "running" /\ cadence < MaxCadence
  /\ cadence' = cadence + 1
  /\ IF tick = "none" THEN tick' = "anchor" /\ tickFor' = "cadence" ELSE UNCHANGED <<tick, tickFor>>
  /\ UNCHANGED <<chain, wallet, phase, dog, calls, faults>>

ReadAnchor ==
  /\ tick = "anchor"
  /\ \/ /\ phase = "running" /\ calls < MaxAttests
        /\ calls' = calls + 1
        /\ \/ Attest!Open(calls + 1) /\ tick' = "attest" /\ UNCHANGED <<tickFor, dog, faults>>
           \/ Attest!Refuse(calls + 1) /\ Fault /\ TickEnds(FALSE)
     \/ /\ IF phase = "running" THEN Fault ELSE UNCHANGED faults
        /\ TickEnds(FALSE)
        /\ UNCHANGED <<wallet, calls>>
  /\ UNCHANGED <<chain, phase, cadence>>

AttestReturns ==
  /\ tick = "attest"
  /\ \/ Attest!Confirm(calls) /\ TickEnds(TRUE) /\ UNCHANGED faults
     \/ Attest!Fail(calls) /\ Fault /\ TickEnds(FALSE)
  /\ UNCHANGED <<chain, phase, calls, cadence>>

AttestLands(n) ==
  /\ Attest!Land(n)
  /\ liveAt' = [liveAt EXCEPT ![head] = head]
  /\ UNCHANGED <<head, window, phase, dog, tick, tickFor, calls, cadence, faults>>

-----------------------------------------------------------------------------
(* watchdogCycle: it arms its timer again before its first await.          *)
WatchdogFires ==
  /\ armed /\ phase = "running"
  /\ IF cycle = "none" THEN cycle' = "head" ELSE UNCHANGED cycle
  /\ UNCHANGED <<chain, wallet, phase, armed, sample, confirmedAtBlock, watchdogFailures, alerted, tick, tickFor,
                 calls, cadence, faults>>

ReadHead ==
  /\ cycle = "head"
  /\ IF phase # "running" THEN CycleEnds /\ UNCHANGED faults
     ELSE \E h \in 1..head :
       /\ IF h < head THEN Fault ELSE UNCHANGED faults
       /\ sample' = h /\ cycle' = "state" /\ UNCHANGED armed
  /\ UNCHANGED <<chain, wallet, phase, confirmedAtBlock, watchdogFailures, alerted, tick, tickFor, calls, cadence>>

(* The verdict, on the window w and the last attestation l as of sample.   *)
(* lastLive is zero for an operator that never attested.                   *)
Spent(w, l) == IF l = 0 THEN Budget(w) + 1 ELSE sample - l
Progressed(w) == confirmedAtBlock = 0 \/ sample - confirmedAtBlock > Budget(w)

Decide(w, l) ==
  IF w < MinWindow \/ w > MaxWindow \/ l > sample
  THEN CycleEnds /\ UNCHANGED <<tick, tickFor>>
  ELSE IF Spent(w, l) > Budget(w) /\ Progressed(w) /\ tick = "none"
  THEN cycle' = "attest" /\ tick' = "anchor" /\ tickFor' = "watchdog" /\ UNCHANGED <<armed, sample>>
  ELSE cycle' = "advise" /\ UNCHANGED <<armed, sample, tick, tickFor>>

(* A misreading endpoint answers with an older attestation, or another     *)
(* window.                                                                 *)
ReadState ==
  /\ cycle = "state"
  /\ IF phase # "running" THEN CycleEnds /\ UNCHANGED <<tick, tickFor, faults>>
     ELSE \/ Decide(window, liveAt[sample]) /\ UNCHANGED faults
          \/ \E w \in Windows \union {0}, l \in {0} \union {liveAt[b] : b \in 1..sample} :
               /\ w # window \/ l # liveAt[sample]
               /\ Fault
               /\ Decide(w, l)
  /\ UNCHANGED <<chain, wallet, phase, confirmedAtBlock, watchdogFailures, alerted, calls, cadence>>

(* warnIfCadenceTooSlow swallows its own errors.                           *)
Advise ==
  /\ cycle = "advise"
  /\ Succeeds
  /\ UNCHANGED <<chain, wallet, phase, confirmedAtBlock, tick, tickFor, calls, cadence, faults>>

(* withDeadline: a read, or the awaited tick, takes too long or fails; the *)
(* tick itself goes on.                                                    *)
Deadline ==
  /\ cycle \in {"head", "state", "attest"}
  /\ Fault
  /\ Fails
  /\ tickFor' = "cadence"
  /\ UNCHANGED <<chain, wallet, phase, confirmedAtBlock, tick, calls, cadence>>

Mine ==
  /\ head < MaxHead
  /\ head' = head + 1
  /\ liveAt' = [liveAt EXCEPT ![head + 1] = liveAt[head]]
  /\ window' \in Windows
  /\ UNCHANGED <<wallet, phase, dog, tick, tickFor, calls, cadence, faults>>

Init ==
  /\ head = 1 /\ window \in Windows /\ liveAt = [b \in 1..MaxHead |-> 0]
  /\ Attest!PromiseInit
  /\ phase = "off" /\ armed = FALSE /\ tick = "none" /\ tickFor = "cadence" /\ calls = 0
  /\ cycle = "none" /\ sample = 0 /\ confirmedAtBlock = 0 /\ watchdogFailures = 0 /\ alerted = FALSE
  /\ cadence = 0 /\ faults = 0

Watchdog == WatchdogFires \/ ReadHead \/ ReadState \/ Advise
Tick == ReadAnchor \/ AttestReturns

Next ==
  \/ \E c \in Configs : Boot(c)
  \/ Shutdown \/ CadenceFires \/ Deadline \/ Mine
  \/ Watchdog \/ Tick
  \/ \E n \in 1..MaxAttests : AttestLands(n)

Spec == Init /\ [][Next]_vars

(* Timers fire, awaits settle, and an attestation in the wallet lands or   *)
(* fails.  The cadence may be hours: nothing is assumed of it.             *)
FairSpec ==
  /\ Spec
  /\ WF_vars(WatchdogFires) /\ WF_vars(ReadHead \/ ReadState \/ Advise) /\ WF_vars(Tick)
  /\ \A n \in 1..MaxAttests : WF_vars(AttestLands(n))

-----------------------------------------------------------------------------
(* A recorded confirmation is one the chain holds: a failed, skipped or    *)
(* late attempt never silences the next one (watchdogCycle, tick).         *)
ConfirmedIsReal == confirmedAtBlock <= lastLive

(* While the keeper runs, the watchdog alone keeps the operator within its *)
(* budget, whatever reads and attestations fail or hang (watchdogCycle).   *)
WatchdogKeepsLive ==
  []<>(phase = "running" /\ calls < MaxAttests => head - lastLive <= Budget(window))
===============================================================================
