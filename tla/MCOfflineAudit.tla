----------------------------- MODULE MCOfflineAudit -----------------------------
(***************************************************************************)
(* What the audit knows of the operators, checked one at a time: who is    *)
(* heard (OfflineAudit: one operator that rotates between two keys, a      *)
(* clock that lags and one that is ahead), and who is watched (RoleWatch). *)
(* A behaviour picks one of them, which runs under its own specification   *)
(* while the other rests in an initial state.                              *)
(***************************************************************************)
EXTENDS OfflineAudit, RoleWatch, TLC

CONSTANTS o1, o2, n1, n2

MCClockOf == (n1 :> -1) @@ (n2 :> 1)
MCKeys == (o1 :> {n1, NoNode}) @@ (o2 :> {n2})
MCOffsets == {-2, 1}

VARIABLE focus      \* the component that runs

all == <<focus, vars, roleVars>>

SliceInit ==
  /\ focus \in {"offline", "roles"}
  /\ Init /\ (focus # "offline" => offset = 1 /\ nodeOf = (o1 :> n1) @@ (o2 :> n2))
  /\ RoleInit /\ (focus # "roles" => ~useGetter)

SliceNext ==
  \/ focus = "offline" /\ Next /\ UNCHANGED <<focus, roleVars>>
  \/ focus = "roles" /\ RoleNext /\ UNCHANGED <<focus, vars>>

(* The offline audit has the fairness of its own specification.            *)
SliceSpec ==
  /\ SliceInit /\ [][SliceNext]_all
  /\ SF_vars(focus = "offline" /\ BeginTick(now - FinalityLag))
  /\ \A op \in Operators : WF_vars(focus = "offline" /\ (ResolveNodeId(op) \/ ResolveFails(op)))
  /\ WF_vars(focus = "offline" /\ PushRelevant)
  /\ \A op \in Operators :
       WF_vars(focus = "offline" /\ \E node \in NodeIds \cup {NoNode} : ReadLastSeen(op, node))
  /\ WF_vars(focus = "offline" /\ (DecideOffline \/ OperatorSkipped))
  /\ \A op \in Operators :
       SF_vars(focus = "offline" /\ DecideOffline /\ reading.op = op /\ pinnedBlock = now - FinalityLag)
  /\ WF_vars(focus = "offline" /\ EndTick)
================================================================================
