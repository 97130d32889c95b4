---------------------------- MODULE MCWatchers ----------------------------
(***************************************************************************)
(* What nodes learn from the chain and from one another, checked one at a  *)
(* time: the slash that the audit drives, its co-signing, the data that    *)
(* nodes gossip, and the watcher that records the slashes of guardians.  A *)
(* behaviour picks one of them, which runs under its own specification     *)
(* while the others rest.                                                  *)
(***************************************************************************)
EXTENDS GuardianWatcher, CoSign, SlashDrive

(* Three slashes of two blocks under two slot tables: one direct call, one *)
(* through an intermediary, one direct call without a commitment.          *)
MCLogs == {1, 2, 3}

MCLogBlock == <<1, 1, 2>>

MCLogProposal == <<11, 12, 13>>

Args(p, mask, token) ==
  [proposal |-> p, operator |-> 5, level |-> 1, epoch |-> 7, token |-> token,
   evidence |-> OverIssueEvidence(token, 5, 7), repUsers |-> <<>>, newScores |-> <<>>, mask |-> mask]

MCLogTx ==
  <<[found |-> TRUE, direct |-> TRUE, committed |-> TRUE, args |-> Args(11, {1, 2}, 9)],
    [found |-> TRUE, direct |-> FALSE, committed |-> TRUE, args |-> Args(12, {1}, 9)],
    [found |-> TRUE, direct |-> TRUE, committed |-> FALSE, args |-> Args(13, {2}, 10)]>>

MCSlotTables == {<<4, 3>>, <<6, 4>>}

MCAggregator == [chainId |-> 1, aggregator |-> 2, registry |-> 8]

Good == [aggregatorSet |-> TRUE, registry |-> 8, rpcUrl |-> TRUE, intervalInRange |-> TRUE,
         hasCode |-> TRUE, probeOk |-> TRUE, expectedChainId |-> 1, chainId |-> 1, fromEnv |-> TRUE]

MCConfigs == {Good, [Good EXCEPT !.registry = 7], [Good EXCEPT !.fromEnv = FALSE]}

CoSignSlots == [n \in {"self", "p1", "p2"} |-> IF n = "self" THEN 1 ELSE IF n = "p1" THEN 2 ELSE 3]

\* three nodes in a line: a datum crosses the network in two hops
Line(n) == {m \in 1..3 : m = n + 1 \/ n = m + 1}

VARIABLES
  focus,      \* the component that runs; the others rest in an initial state
  data, history, net, written

Data == INSTANCE GossipData WITH
  Nodes <- 1..3, Connected <- Line, Joiners <- {1}, Writers <- {1, 3}, MaxTtl <- 1,
  MaxWrites <- 2, Versions <- {1, 2}

dataVars == <<data, history, net, written>>
all == <<focus, vars, driveVars, coSignVars, dataVars>>
DriveAlone == focus = "drive" /\ UNCHANGED
  <<focus, vars, coSignVars, dataVars>>
CoSigningAlone == focus = "cosign" /\ UNCHANGED
  <<focus, vars, driveVars, dataVars>>
DataAlone == focus = "data" /\ UNCHANGED
  <<focus, vars, driveVars, coSignVars>>
GuardianAlone == focus = "guardian" /\ UNCHANGED
  <<focus, driveVars, coSignVars, dataVars>>

\* bound: failed calls, restarts, steps of peers and recoveries that a slash
\* meets, taken together
MaxDriveTroubles == 2
DriveTroubles == failures + crashes + peer + recoveries

SliceInit ==
  /\ focus \in {"drive", "cosign", "data", "guardian"}
  /\ DriveInit /\ (focus # "drive" => mode = "file")
  /\ CoSignInit
  /\ Data!DataInit
  /\ Init /\ (focus # "guardian" => slotAt = [b \in DOMAIN slotAt |-> <<4, 3>>])

SliceNext ==
  \/ DriveAlone /\ DriveNext /\ DriveTroubles' <= MaxDriveTroubles
  \/ CoSigningAlone /\ CoSignNext
  \/ DataAlone /\ Data!DataNext
  \/ GuardianAlone /\ Next

(* Each component has the fairness of its own specification.               *)
SliceSpec ==
  /\ SliceInit /\ [][SliceNext]_all
  /\ WF_driveVars(focus = "drive" /\ Step)
  /\ WF_driveVars(focus = "drive" /\ CooldownEnds)
  /\ WF_coSignVars(focus = "cosign" /\ Timeout(1))
  /\ WF_coSignVars(focus = "cosign" /\ \E resp \in call[1].toCheck, ok \in BOOLEAN : Recheck(1, resp, ok))
  /\ WF_coSignVars(focus = "cosign" /\ Aggregate(1))
  /\ \A n \in 1..3 : WF_dataVars(focus = "data" /\ Data!CleanupMessageHistory(n))
  /\ \A n \in 1..3 : \A m \in Line(n) : WF_dataVars(focus = "data" /\ Data!GossipRound(n, m))
  /\ \A n \in 1..3 : \A m \in Line(n) : WF_dataVars(focus = "data" /\ \E msg \in net : msg.id = <<n, m>> /\ Data!HandleGossipMessage(msg))
  /\ WF_vars(focus = "guardian" /\ Mine)
  /\ WF_vars(focus = "guardian" /\ \E c \in Configs : BootstrapOk(c) /\ Boot(c))
  /\ WF_vars(focus = "guardian" /\ (stopping \/ pc = "disabled") /\ Crash)
  /\ WF_vars(focus = "guardian" /\ Tick)

(* Gossiped data are eventually consistent.                                *)
EventuallyConsistent == Data!EventuallyConsistent
============================================================================
