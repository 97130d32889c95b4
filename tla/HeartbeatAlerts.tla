---------------------------- MODULE HeartbeatAlerts ----------------------------
(***************************************************************************)
(* The local heartbeat's alerts (deploy/local-heartbeat.sh): a failing     *)
(* check comments on the open issue of its category or opens one; an issue *)
(* that can take no more comments is continued by a successor; a healthy   *)
(* check closes what it finds.  One category is modelled; a check that     *)
(* ends in another one leaves it alone.  Every gh call may fail, and the   *)
(* outer watchdog may kill the script between any two of them.             *)
(*                                                                         *)
(* The issue tracker is external.  What the tracker's issues say, and the  *)
(* redaction of secrets in it, are left out.                               *)
(***************************************************************************)
EXTENDS Naturals, Sequences, FiniteSets, FiniteSetsExt

CONSTANTS
  CommentCap,      \* COMMENT_CAP, the tracker's limit
  MaxFlips,        \* bound on the changes of the committee's health
  MaxElapsed,      \* bound on the times the comment interval passes
  MaxFaults        \* bound on failed calls, kills and what people do

VARIABLES
  failing,         \* the committee is not serving
  issues,          \* the tracker: [labelled, marked, open, comments], by number
  recent,          \* issues whose last-comment stamp is younger than COMMENT_INTERVAL
  records,         \* the successor-*.txt files: [of, num]
  at,              \* where the script is
  existing,        \* alert: the issue dedup found, 0 for none
  num,             \* alert: the issue just created
  left,            \* the issues of a listing still to be looked at
  flips, elapsed, faults

locals == <<existing, num, left>>
bounds == <<flips, elapsed>>
vars == <<failing, issues, recent, records, at, locals, bounds, faults>>

None == 0
Fault == faults < MaxFaults /\ faults' = faults + 1
Goto(there) == at' = there
Exit == at' = "idle" /\ existing' = None /\ num' = None /\ left' = {}

Numbers == 1..Len(issues)
Listed == {n \in Numbers : issues[n].open /\ issues[n].labelled}
Full(n) == issues[n].comments >= CommentCap
Filed == [labelled |-> FALSE, marked |-> TRUE, open |-> TRUE, comments |-> 0]
Commented(n) == [issues EXCEPT ![n].comments = @ + 1]
Labelled(n) == [issues EXCEPT ![n].labelled = TRUE]
Closed(n) == [issues EXCEPT ![n].open = FALSE]

(* gh issue close --comment: an open issue is commented on first, and is   *)
(* not closed when the comment fails, as it does on a full one.            *)
ClosedWithComment(n) ==
  IF issues[n].open THEN [Commented(n) EXCEPT ![n].open = FALSE] ELSE issues
TakesClose(n) == issues[n].open => ~Full(n)

(***************************************************************************)
(* The run.                                                                *)
(***************************************************************************)

(* run_bounded: the child's exit code as far as this category tells it     *)
(* apart; a check that hangs, or cannot tell, ends in another category.    *)
Outcomes == {IF failing THEN "list" ELSE "resolve list", "idle"}

Health ==
  /\ at = "idle"
  /\ \E outcome \in Outcomes :
       /\ Goto(outcome)
       /\ IF outcome = "idle" THEN Fault ELSE UNCHANGED faults
  /\ UNCHANGED <<failing, issues, recent, records, locals, bounds>>

(* The outer watchdog ends a run that hangs in a call.                     *)
Killed ==
  /\ at # "idle"
  /\ Fault
  /\ Exit
  /\ UNCHANGED <<failing, issues, recent, records, bounds>>

(***************************************************************************)
(* alert                                                                   *)
(***************************************************************************)

(* The query by label; a failed query ends the run.                        *)
List ==
  /\ at = "list"
  /\ \/ left' = Listed /\ Goto("view") /\ UNCHANGED <<existing, num, faults>>
     \/ Fault /\ Exit
  /\ UNCHANGED <<failing, issues, recent, records, bounds>>

(* The newest listed issue that carries the marker; one that cannot be     *)
(* viewed counts as one without it.                                        *)
View ==
  /\ at = "view"
  /\ \E unseen \in SUBSET left :
       LET marked == {n \in left \ unseen : issues[n].marked} IN
       /\ existing' = IF marked = {} THEN None ELSE Max(marked)
       /\ IF unseen = {} THEN UNCHANGED faults ELSE Fault
  /\ left' = {}
  /\ Goto(IF existing' = None THEN "create" ELSE "comment")
  /\ UNCHANGED <<failing, issues, recent, records, num, bounds>>

(* A comment at most once per interval; the tracker refuses one on a full  *)
(* issue.                                                                  *)
Comment ==
  /\ at = "comment"
  /\ \/ existing \in recent /\ Exit /\ UNCHANGED <<issues, recent, faults>>
     \/ /\ existing \notin recent /\ ~Full(existing)
        /\ issues' = Commented(existing)
        /\ recent' = recent \union {existing}
        /\ Exit /\ UNCHANGED faults
     \/ /\ existing \notin recent
        /\ IF Full(existing) THEN UNCHANGED faults ELSE Fault
        /\ Goto("count") /\ UNCHANGED <<issues, recent, locals>>
  /\ UNCHANGED <<failing, records, bounds>>

(* Only an issue known to be full is continued by another.                 *)
ReadCount ==
  /\ at = "count"
  /\ \/ Full(existing) /\ Goto("successor") /\ UNCHANGED <<locals, faults>>
     \/ ~Full(existing) /\ Exit /\ UNCHANGED faults
     \/ Fault /\ Exit
  /\ UNCHANGED <<failing, issues, recent, records, bounds>>

Recorded(n) == {r \in records : r.of = n}

(* A successor recorded by an earlier run is taken up if it is open, and   *)
(* forgotten if it is closed.                                              *)
Successor ==
  /\ at = "successor"
  /\ \/ /\ Recorded(existing) = {}
        /\ Goto("create") /\ UNCHANGED <<records, locals, faults>>
     \/ \E r \in Recorded(existing) :
          /\ UNCHANGED faults
          /\ IF issues[r.num].open
             THEN num' = r.num /\ Goto("relabel") /\ UNCHANGED <<records, existing, left>>
             ELSE records' = records \ {r} /\ Goto("create") /\ UNCHANGED locals
     \/ Recorded(existing) # {} /\ Fault /\ Exit /\ UNCHANGED records
  /\ UNCHANGED <<failing, issues, recent, bounds>>

(* The successor gets its labels, and this run's comment if that succeeds. *)
Relabel ==
  /\ at = "relabel"
  /\ \/ /\ \/ issues' = Labelled(num) /\ (IF Full(num) THEN UNCHANGED faults ELSE Fault)
           \/ ~Full(num) /\ issues' = [Labelled(num) EXCEPT ![num].comments = @ + 1] /\ UNCHANGED faults
        /\ records' = records \ Recorded(existing)
        /\ Goto("close") /\ UNCHANGED locals
     \/ Fault /\ Exit /\ UNCHANGED <<issues, records>>
  /\ UNCHANGED <<failing, recent, bounds>>

(* The issue is created first and labelled after.                          *)
Create ==
  /\ at = "create"
  /\ \/ /\ issues' = Append(issues, Filed)
        /\ num' = Len(issues) + 1
        /\ Goto("label") /\ UNCHANGED <<existing, left, faults>>
     \/ Fault /\ Exit /\ UNCHANGED issues
  /\ UNCHANGED <<failing, recent, records, bounds>>

(* A successor that cannot be labelled is recorded for the next run.       *)
Label ==
  /\ at = "label"
  /\ \/ /\ issues' = Labelled(num)
        /\ (IF existing = None THEN Exit ELSE Goto("close") /\ UNCHANGED locals)
        /\ UNCHANGED <<records, faults>>
     \/ /\ Fault /\ Exit
        /\ records' = IF existing = None THEN records
                      ELSE (records \ Recorded(existing)) \union {[of |-> existing, num |-> num]}
        /\ UNCHANGED issues
  /\ UNCHANGED <<failing, recent, bounds>>

(* The full issue is closed once its successor exists.                     *)
ClosePredecessor ==
  /\ at = "close"
  /\ \/ issues' = Closed(existing) /\ UNCHANGED faults
     \/ Fault /\ UNCHANGED issues
  /\ Exit
  /\ UNCHANGED <<failing, recent, records, bounds>>

(***************************************************************************)
(* resolve                                                                 *)
(***************************************************************************)

(* A failed query reads as an empty one.                                   *)
ResolveList ==
  /\ at = "resolve list"
  /\ \/ left' = Listed /\ UNCHANGED faults
     \/ Fault /\ left' = {}
  /\ Goto("resolve")
  /\ UNCHANGED <<failing, issues, recent, records, existing, num, bounds>>

(* A close with a comment.  A call that fails, before or after the comment *)
(* is there, leaves the issue to the next run; so does a full issue, which *)
(* no run can close.                                                       *)
Close(n) ==
  \/ TakesClose(n) /\ issues' = ClosedWithComment(n) /\ UNCHANGED faults
  \/ ~TakesClose(n) /\ UNCHANGED <<issues, faults>>
  \/ issues[n].open /\ ~Full(n) /\ issues' = Commented(n) /\ Fault
  \/ UNCHANGED issues /\ Fault

(* Each listed issue with the marker is closed.                            *)
ResolveIssue ==
  /\ at = "resolve"
  /\ \E n \in left :
       /\ left' = left \ {n}
       /\ IF issues[n].marked THEN Close(n) ELSE UNCHANGED <<issues, faults>>
  /\ UNCHANGED <<failing, recent, records, at, existing, num, bounds>>

(* A mutated form of ResolveRecords: the recorded successors are left.     *)
ResolveRecordsNot ==
  /\ at = "resolve" /\ left = {}
  /\ Exit
  /\ UNCHANGED <<failing, issues, recent, records, bounds, faults>>

(* Then the successors without labels, from their records.                 *)
ResolveRecords ==
  /\ at = "resolve" /\ left = {}
  /\ left' = {r.num : r \in records}
  /\ Goto("records")
  /\ UNCHANGED <<failing, issues, recent, records, existing, num, bounds, faults>>

(* The record of a successor that is seen to be closed now is removed.     *)
ResolveRecord ==
  /\ at = "records"
  /\ \E n \in left :
       /\ left' = left \ {n}
       /\ Close(n)
       /\ \/ ~issues'[n].open /\ records' = {r \in records : r.num # n}
          \/ (issues'[n].open \/ faults' # faults) /\ UNCHANGED records
  /\ UNCHANGED <<failing, recent, at, existing, num, bounds>>

ResolveEnds ==
  /\ at = "records" /\ left = {}
  /\ Exit
  /\ UNCHANGED <<failing, issues, recent, records, bounds, faults>>

(***************************************************************************)
(* The committee, the clock and people.                                    *)
(***************************************************************************)
Flip ==
  /\ flips < MaxFlips
  /\ flips' = flips + 1
  /\ failing' = ~failing
  /\ UNCHANGED <<issues, recent, records, at, locals, elapsed, faults>>

(* COMMENT_INTERVAL passes.                                                *)
Elapse ==
  /\ elapsed < MaxElapsed /\ recent # {}
  /\ elapsed' = elapsed + 1
  /\ recent' = {}
  /\ UNCHANGED <<failing, issues, records, at, locals, flips, faults>>

(* Somebody closes an issue by hand.                                       *)
HumanCloses ==
  /\ Fault
  /\ \E n \in Numbers : issues[n].open /\ issues' = Closed(n)
  /\ UNCHANGED <<failing, recent, records, at, locals, bounds>>

(* A person may have filed an issue under the same labels.                 *)
HumanIssue == [labelled |-> TRUE, marked |-> FALSE, open |-> TRUE, comments |-> 0]

Init ==
  /\ failing \in BOOLEAN
  /\ issues \in {<<>>, <<HumanIssue>>}
  /\ recent = {} /\ records = {}
  /\ at = "idle" /\ existing = None /\ num = None /\ left = {}
  /\ flips = 0 /\ elapsed = 0 /\ faults = 0

Step ==
  \/ Health
  \/ List \/ View \/ Comment \/ ReadCount \/ Successor \/ Relabel \/ Create \/ Label
  \/ ClosePredecessor
  \/ ResolveList \/ ResolveIssue \/ ResolveRecords \/ ResolveRecord \/ ResolveEnds

Next == Step \/ Killed \/ Flip \/ Elapse \/ HumanCloses

(* launchd starts the next run, and a run goes on until it ends or is      *)
(* killed.                                                                 *)
AlertSpec == Init /\ [][Next]_vars /\ WF_vars(Step)

(***************************************************************************)
(* Properties                                                              *)
(***************************************************************************)

(* The issues the script can find again: by label, or by its own record.   *)
Tracked(n) ==
  /\ issues[n].open /\ issues[n].marked
  /\ issues[n].labelled \/ \E r \in records : r.num = n

(* A committee that stays healthy ends with every issue closed that the    *)
(* heartbeat can find, the successors that never got their labels          *)
(* included, so far as it can take the closing comment: a full issue can   *)
(* not, and stays open (resolve: gh issue close --comment).                *)
RecoveryCloses == <>[]~failing => <>[](\A n \in Numbers : Tracked(n) => Full(n))

(* A committee that stays failing is heard: whenever the comment interval  *)
(* has passed, some open issue that the label query finds gets a fresh     *)
(* comment.  A full issue, a failed call or a successor without labels     *)
(* delays it and does not silence it.                                      *)
Heard == \E n \in Listed : issues[n].marked /\ n \in recent
FailureHeard == <>[]failing => []<>Heard

(* alert: "One open issue per category".  Full predecessors apart, the     *)
(* label query never finds two.                                            *)
OneOpenIssue ==
  Cardinality({n \in Listed : issues[n].marked /\ ~Full(n)}) <= 1

(* The open issues follow the health of the committee in both directions.  *)
IssuesFollowHealth == RecoveryCloses /\ FailureHeard
================================================================================
