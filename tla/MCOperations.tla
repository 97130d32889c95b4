--------------------------- MODULE MCOperations ---------------------------
(***************************************************************************)
(* The operator's scripts and the committee curve they report on, checked  *)
(* one at a time: a behaviour picks one of them, which runs under its own  *)
(* specification while the others rest.  They do not interact; one run of  *)
(* TLC covers them all.                                                    *)
(***************************************************************************)
EXTENDS Operations

\* Two files; by symmetry the first is v1's, with the first seat and key
MCBatches ==
  {<<[validator |-> "v1", slot |-> 1, key |-> "k1", matches |-> m], f>> :
     m \in BOOLEAN, f \in [validator : {"v1", "v2"}, slot : {1, 2}, key : {"k1", "k2"}, matches : BOOLEAN]}

MCResting ==
  [j \in 1..2 |-> [validator |-> "v1", slot |-> 1, key |-> "k1", matches |-> FALSE]]

\* The constructor's 5/4, the two ends of setOversample's range, and 7/3
MCOversamples == {<<5, 4>>, <<1, 1>>, <<8, 1>>, <<7, 3>>}

CONSTANTS
  Batches, Resting,                                      \* of Enrol
  LogSlots, DeployBlock, CHUNK, LogMaxBlock, MaxMutations, MaxBumps,
                                                         \* SnapshotLog
  CommentCap, MaxFlips, MaxElapsed, AlertsMaxFaults      \* HeartbeatAlerts

VARIABLES
  focus,      \* the component that runs; the others rest in an initial state
  logBlock, logVersion, slots, pins, lapsed, log, versionAt, up, barren,
  failing, issues, recent, records, alertsAt, existing, num, left, flips,
  elapsed, alertsFaults

Log == INSTANCE SnapshotLog WITH
  Slots <- LogSlots, MaxBlock <- LogMaxBlock,
  block <- logBlock, version <- logVersion
Alerts == INSTANCE HeartbeatAlerts WITH
  MaxFaults <- AlertsMaxFaults, at <- alertsAt, faults <- alertsFaults

keeperVars == <<keeperBlock, armed, keeperVersion, pin, expired, members, leaving,
    keeperMempool, keeperAt, epoch, bn, list, reason, misreported, keeperSeen,
    changes, keeperFaults>>
logVars == <<logBlock, logVersion, slots, pins, lapsed, log, versionAt, up, barren>>
alertsVars == <<failing, issues, recent, records, alertsAt, existing, num, left, flips,
    elapsed, alertsFaults>>
enrolVars == <<batch, release, owner, seat, key, keyOwner, enrolMempool, enrolAt, mode, i,
    enrolReceipt, bad, outcome, enrolFaults, strangers>>
rotationVars == <<now, active, pending, readyAt, rotationAt, rotationSeen, broadcast,
    rotationReceipt, artifact, exit, rotationFaults>>
tunnelVars == <<healthy, tunnel, internet, checkOnly, tunnelAt, code, hurt, troubles>>
all == <<focus, mathVars, keeperVars, logVars, alertsVars, enrolVars,
         rotationVars, tunnelVars>>
KeeperAlone == focus = "keeper" /\ UNCHANGED
  <<focus, mathVars, logVars, alertsVars, enrolVars, rotationVars,
    tunnelVars>>
LogAlone == focus = "log" /\ UNCHANGED
  <<focus, mathVars, keeperVars, alertsVars, enrolVars, rotationVars,
    tunnelVars>>
AlertsAlone == focus = "alerts" /\ UNCHANGED
  <<focus, mathVars, keeperVars, logVars, enrolVars, rotationVars,
    tunnelVars>>
EnrolAlone == focus = "enrolment" /\ UNCHANGED
  <<focus, mathVars, keeperVars, logVars, alertsVars, rotationVars,
    tunnelVars>>
RotationAlone == focus = "rotation" /\ UNCHANGED
  <<focus, mathVars, keeperVars, logVars, alertsVars, enrolVars,
    tunnelVars>>
TunnelAlone == focus = "tunnel" /\ UNCHANGED
  <<focus, mathVars, keeperVars, logVars, alertsVars, enrolVars,
    rotationVars>>
CurveAlone == focus = "curve" /\ UNCHANGED
  <<focus, keeperVars, logVars, alertsVars, enrolVars, rotationVars,
    tunnelVars>>

EnrolRests == batch = Resting /\ seat = [v \in Enrol!Everyone |-> 0] /\ ~release /\ ~owner

SliceInit ==
  /\ focus \in {"keeper", "log", "alerts", "enrolment", "rotation",
                 "tunnel", "curve"}
  /\ Keeper!Init
  /\ Log!Init
  /\ Alerts!Init /\ (focus # "alerts" => ~failing /\ issues = <<>>)
  /\ Enrol!Init /\ batch \in Batches /\ (focus # "enrolment" => EnrolRests)
  /\ Rotation!Init /\ (focus # "rotation" => active = Expected)
  /\ Tunnel!Init /\ (focus # "tunnel" => healthy = {} /\ ~tunnel /\ ~internet)
  /\ MathInit /\ (focus # "curve" => oversample = <<5, 4>>)

SliceNext ==
  \/ KeeperAlone /\ Keeper!Next
  \/ LogAlone /\ Log!Next
  \/ AlertsAlone /\ Alerts!Next
  \/ EnrolAlone /\ Enrol!Next
  \/ RotationAlone /\ Rotation!Next
  \/ TunnelAlone /\ Tunnel!Next
  \/ CurveAlone /\ MathNext

(* Each component has the fairness of its own specification.               *)
SliceSpec ==
  /\ SliceInit /\ [][SliceNext]_all
  /\ \A k \in Keepers : WF_keeperVars(focus = "keeper" /\ Keeper!Step(k))
  /\ \A k \in Keepers : WF_keeperVars(focus = "keeper" /\ Keeper!Mine(k))
  /\ \A n \in Nodes : WF_keeperVars(focus = "keeper" /\ Keeper!Evict(n))
  /\ WF_alertsVars(focus = "alerts" /\ Alerts!Step)
  /\ WF_enrolVars(focus = "enrolment" /\ Enrol!Script)
  /\ WF_enrolVars(focus = "enrolment" /\ Enrol!Mined)
  /\ SF_enrolVars(focus = "enrolment" /\ Enrol!Start("broadcast"))

(* Every epoch that can be pinned is pinned while its window is open.      *)
PinnedWhileOpen == []<>(focus = "keeper" => ~Keeper!Overdue)

(* What is computed from the event log is what happened.                   *)
LogTellsTruth == focus = "log" => Log!LogTellsTruth

(* The open issues follow the health of the committee.                     *)
IssuesFollowHealth == Alerts!IssuesFollowHealth

(* A partly failed enrolment completes when it is run again.               *)
RetryCompletes == Enrol!RetryCompletes
============================================================================
