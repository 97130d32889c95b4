---------------------------- MODULE TunnelKeepalive ----------------------------
(***************************************************************************)
(* Keeping the public endpoints reachable (deploy/tunnel-keepalive.sh):    *)
(* probe every public hostname; when one does not answer, and this host    *)
(* has internet and every node container is healthy, recreate the tunnel   *)
(* container with a run token fetched for it, and probe again.             *)
(*                                                                         *)
(* Docker and Cloudflare are external.  As the script records of them:     *)
(* compose destroys the old tunnel container before it looks whether every *)
(* node is healthy, and a tunnel started with another token does not come  *)
(* up.                                                                     *)
(***************************************************************************)
EXTENDS Naturals

CONSTANTS
  Nodes,
  MaxTroubles      \* bound on what breaks, and on calls that fail

VARIABLES
  healthy,         \* the node containers that report healthy
  tunnel,          \* the tunnel container is up and connected
  internet,        \* this host reaches Cloudflare
  checkOnly,       \* --check
  at, code,        \* where the script is, the exit code of the last run
  hurt,            \* a node was lost since the script saw them all healthy
  troubles

world == <<healthy, tunnel, internet>>
vars == <<world, checkOnly, at, code, hurt, troubles>>

Trouble == troubles < MaxTroubles /\ troubles' = troubles + 1
Exit(c) == at' = "idle" /\ code' = c

(* probe_all: a hostname answers 200 through the tunnel from a healthy     *)
(* node; every host is asked several times.                                *)
Serving == IF tunnel /\ internet THEN healthy ELSE {}

Probe(check) ==
  /\ at = "idle"
  /\ checkOnly' = check
  /\ IF Serving = Nodes THEN Exit(0) ELSE at' = "down" /\ UNCHANGED code
  /\ UNCHANGED <<world, hurt, troubles>>

(* internet_up: a tunnel this host cannot see is left alone.               *)
InternetUp ==
  /\ at = "down"
  /\ IF internet THEN at' = "online" /\ UNCHANGED code ELSE Exit(2)
  /\ UNCHANGED <<world, checkOnly, hurt, troubles>>

(* A mutated form of NodesHealthy: a running container is enough.          *)
NodesRunning == TRUE

(* nodes_healthy: the condition compose itself puts on the tunnel.         *)
NodesHealthy == healthy = Nodes

Gate ==
  /\ at = "online"
  /\ CASE ~NodesHealthy -> Exit(3)
       [] NodesHealthy /\ checkOnly -> Exit(1)
       [] OTHER -> at' = "token" /\ UNCHANGED code
  /\ hurt' = FALSE
  /\ UNCHANGED <<world, checkOnly, troubles>>

(* fetch_run_token: without the token the old tunnel stays; the API may    *)
(* refuse it or time out although the host is online.                      *)
FetchRunToken ==
  /\ at = "token"
  /\ \/ internet /\ at' = "compose" /\ UNCHANGED <<code, troubles>>
     \/ ~internet /\ Exit(2) /\ UNCHANGED troubles
     \/ internet /\ Exit(2) /\ Trouble
  /\ UNCHANGED <<world, checkOnly, hurt>>

(* docker compose up --force-recreate; its exit code is only logged.       *)
Compose ==
  /\ at = "compose"
  /\ tunnel' = (healthy = Nodes)
  /\ at' = "verify"
  /\ UNCHANGED <<healthy, internet, checkOnly, code, hurt, troubles>>

(* It fails for a reason of its own, before or after it removes the tunnel.*)
ComposeFails ==
  /\ at = "compose"
  /\ Trouble
  /\ tunnel' \in {tunnel, FALSE}
  /\ at' = "verify"
  /\ UNCHANGED <<healthy, internet, checkOnly, code, hurt>>

Verify ==
  /\ at = "verify"
  /\ Exit(IF Serving = Nodes THEN 0 ELSE 1)
  /\ UNCHANGED <<world, checkOnly, hurt, troubles>>

(* Nodes, tunnel and internet break, and nodes and internet come back; so  *)
(* does the host the script runs on.                                       *)
Breaks ==
  /\ Trouble
  /\ \/ \E n \in healthy : healthy' = healthy \ {n} /\ hurt' = TRUE /\ UNCHANGED <<tunnel, internet, at>>
     \/ tunnel /\ tunnel' = FALSE /\ UNCHANGED <<healthy, internet, hurt, at>>
     \/ internet /\ internet' = FALSE /\ UNCHANGED <<healthy, tunnel, hurt, at>>
     \/ at # "idle" /\ at' = "idle" /\ UNCHANGED <<healthy, tunnel, internet, hurt>>
  /\ UNCHANGED <<checkOnly, code>>

Recovers ==
  /\ \/ \E n \in Nodes \ healthy : healthy' = healthy \union {n} /\ UNCHANGED internet
     \/ ~internet /\ internet' = TRUE /\ UNCHANGED healthy
  /\ UNCHANGED <<tunnel, checkOnly, at, code, hurt, troubles>>

Init ==
  /\ healthy \in SUBSET Nodes /\ tunnel \in BOOLEAN /\ internet \in BOOLEAN
  /\ checkOnly = FALSE /\ at = "idle" /\ code = 0 /\ hurt = FALSE
  /\ troubles = 0

Run == InternetUp \/ Gate \/ FetchRunToken \/ Compose \/ ComposeFails \/ Verify

Next == (\E check \in BOOLEAN : Probe(check)) \/ Run \/ Breaks \/ Recovers

(* A run goes on to its end, and launchd starts one every 300 seconds.     *)
KeepaliveSpec == Init /\ [][Next]_vars /\ WF_vars(Run) /\ SF_vars(Probe(FALSE))

(***************************************************************************)
(* Properties                                                              *)
(***************************************************************************)

(* The script never makes "a 2-of-3 degradation ... a 3-of-3 outage": it   *)
(* takes a working tunnel down only when a node is lost after the script   *)
(* saw all of them healthy, or when docker itself fails.                   *)
KeepsTunnel == tunnel /\ ~tunnel' => hurt \/ troubles' > troubles
NeverWorsens == [][KeepsTunnel]_vars

(* Once the nodes stay healthy and the host online, the tunnel comes back  *)
(* and the endpoints serve again, whatever state a broken-off restart left.*)
TunnelRestored == <>[](healthy = Nodes /\ internet) => <>[](Serving = Nodes)
================================================================================
