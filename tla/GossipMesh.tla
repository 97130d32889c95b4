------------------------------ MODULE GossipMesh ------------------------------
(***************************************************************************)
(* The roster of the gossip service (gossip.service.ts): dialling the       *)
(* bootstrap and the known peers, the join / discovery / announcement       *)
(* messages that spread the peer map, leave, heartbeats and suspicion, the  *)
(* clean-up of silent peers, reconnection, and the peer file a restart is   *)
(* loaded from.                                                             *)
(*                                                                         *)
(* Two nodes are connected or not: the several sockets a pair may open, and *)
(* which of them each end has mapped, are one connection here.  Delays are  *)
(* not timed: the heartbeat interval is shorter than the suspicion timeout, *)
(* so a peer is suspected only while its heartbeats cannot arrive, and the  *)
(* outages here are shorter than the clean-up timeout, so only a node that  *)
(* left is cleaned up.                                                      *)
(***************************************************************************)
EXTENDS Naturals, FiniteSets

CONSTANTS
  Nodes,
  Seeds,        \* GOSSIP_BOOTSTRAP_PEERS, one list for all nodes
  Joined,       \* the nodes that form a mesh already; the others start later
  Faulty,       \* the nodes that may crash or lose their network
  Leavers,      \* the nodes that may be shut down for good
  MaxFaults

VARIABLES
  up,       \* the nodes that run
  left,     \* the nodes that were shut down for good
  cut,      \* the nodes whose network is out
  peers,    \* peers[n][m]: status of m in the peer map of n, "none" if absent
  conn,     \* the connected pairs
  net,      \* messages sent and not yet received: [kind, to, about]
  dials,    \* dials[n]: the bootstrap peers n has yet to dial since it started
  saved,    \* saved[n]: the peer file of n
  seen,     \* seen[n]: the leave messages in the message history of n
  faults

vars == <<up, left, cut, peers, conn, net, dials, saved, seen, faults>>

Forgotten == [m \in Nodes |-> "none"]
Known(n) == {m \in Nodes : peers[n][m] # "none"}
Active(n) == {m \in Nodes : peers[n][m] = "active"}
Connections(n) == {m \in Nodes : {n, m} \in conn} \ {n}
Linked(n, m) == {n, m} \subseteq up /\ {n, m} \cap cut = {}

\* broadcastMessage, and the propagation of a message to the other connections
Broadcast(kind, n, about, except) ==
  {[kind |-> kind, to |-> m, about |-> about] : m \in Connections(n) \ except}

\* m's heartbeats arrive at n: directly, or passed on by one peer (ttl 1)
Reaches(m, n) == m \in Connections(n) \/ Connections(m) \cap Connections(n) # {}

\* connectToBootstrapPeers
BootstrapDials(n) == Seeds \ {n}

Init ==
  /\ up = Joined
  /\ left = {}
  /\ cut = {}
  /\ peers = [n \in Nodes |-> [m \in Nodes |->
               IF n # m /\ {n, m} \subseteq Joined THEN "active" ELSE "none"]]
  /\ conn = {c \in SUBSET Joined : Cardinality(c) = 2}
  /\ net = {}
  /\ dials = [n \in Nodes |-> {}]
  /\ saved = [n \in Nodes |-> IF n \in Joined THEN Joined \ {n} ELSE {}]
  /\ seen = [n \in Nodes |-> {}]
  /\ faults = 0

\* loadKnownPeers: every peer of the file is inactive at first
LoadedPeers(n) == [m \in Nodes |-> IF m \in saved[n] THEN "inactive" ELSE "none"]

\* saveKnownPeers: the file holds the peers that are active in the map p
SavedPeers(p) == {m \in Nodes : p[m] = "active"}

\* onModuleInit in one step: no peer dials in before it is complete, so the join it
\* broadcasts at its end reaches nobody
Boot(n) ==
  /\ n \notin up \cup left
  /\ up' = up \cup {n}
  /\ peers' = [peers EXCEPT ![n] = LoadedPeers(n)]
  /\ dials' = [dials EXCEPT ![n] = BootstrapDials(n)]
  /\ UNCHANGED <<left, cut, conn, net, saved, seen, faults>>

\* connectToKnownPeers: the peers of the map without a connection
KnownDials(n) == Known(n) \ Connections(n)

\* the endpoints n dials: the bootstrap peers at its start and the peers it has just learnt
\* of; then (attemptReconnections) the peers not active or not connected, and with no
\* connection at all the bootstrap peers again
Dialled(n) ==
  (dials[n] \cup KnownDials(n) \cup (Known(n) \ Active(n))
            \cup (IF Connections(n) = {} THEN BootstrapDials(n) ELSE {})) \ {n}

\* sendKnownPeersToNewPeer: the active peers of m, for the new peer n
KnownPeersMessage(m, n) ==
  LET others == Active(m) \ {n}
  IN {msg \in {[kind |-> "peers", to |-> n, about |-> others]} : others # {}}

\* announceNewPeerToOthers
Announcement(m, n) == Broadcast("announce", m, {n}, {n})

\* handleJoinMessage at m: n is (re)entered as active; only a peer that was not in the map
\* is told of the active peers, announced to the others, dialled back and saved
HandleJoin(m, n) ==
  /\ peers' = [peers EXCEPT ![m][n] = "active"]
  /\ IF peers[m][n] = "none"
     THEN /\ net' = net \cup Announcement(m, n) \cup KnownPeersMessage(m, n)
          /\ dials' = [dials EXCEPT ![n] = @ \ {m}, ![m] = @ \cup {n}]
          /\ saved' = [saved EXCEPT ![m] = SavedPeers(peers'[m])]
     ELSE /\ dials' = [dials EXCEPT ![n] = @ \ {m}]
          /\ UNCHANGED <<net, saved>>

\* connectToPeer: the connection opens and carries the join of n
Connect(n, m) ==
  /\ n \in up /\ m \in Dialled(n)
  /\ Linked(n, m)
  /\ conn' = conn \cup {{n, m}}
  /\ HandleJoin(m, n)
  /\ UNCHANGED <<up, left, cut, seen, faults>>

\* connectToPeer: the dial fails; a peer of the map is dialled again by the next reconnection
ConnectFails(n, m) ==
  /\ n \in up /\ m \in dials[n]
  /\ ~Linked(n, m)
  /\ dials' = [dials EXCEPT ![n] = @ \ {m}]
  /\ UNCHANGED <<up, left, cut, peers, conn, net, saved, seen, faults>>

\* handlePeerDiscoveryMessage: the peers not in the map are entered as active and dialled
HandleDiscovery(n, about) ==
  LET new == {p \in about : p # n /\ peers[n][p] = "none"}
  IN /\ peers' = [peers EXCEPT ![n] = [m \in Nodes |-> IF m \in new THEN "active" ELSE @[m]]]
     /\ dials' = [dials EXCEPT ![n] = @ \cup new]

\* handlePeerAnnouncementMessage: the same for one peer; the message goes one hop further
HandleAnnouncement(n, msg) ==
  /\ HandleDiscovery(n, msg.about)
  /\ net' = (net \ {msg}) \cup Broadcast("peers", n, msg.about, msg.about)

\* handleLeaveMessage, once per message (messageHistory): a peer of the map becomes inactive
\* and its connection is closed; the message is passed on
HandleLeave(n, msg) ==
  LET p == CHOOSE p \in msg.about : TRUE
  IN /\ msg.kind = "leave"
     /\ IF p \in seen[n]
        THEN net' = net \ {msg} /\ UNCHANGED <<peers, conn, seen>>
        ELSE /\ seen' = [seen EXCEPT ![n] = @ \cup {p}]
             /\ peers' = IF p \in Known(n) THEN [peers EXCEPT ![n][p] = "inactive"] ELSE peers
             /\ conn' = IF p \in Known(n) THEN conn \ {{n, p}} ELSE conn
             /\ net' = (net \ {msg}) \cup Broadcast("leave", n, {p}, {p})
     /\ UNCHANGED dials

\* handleGossipMessage, the kinds of message that change the peer map
Receive(n) ==
  /\ n \in up
  /\ \E msg \in net :
       /\ msg.to = n
       /\ \/ /\ msg.kind = "peers" /\ HandleDiscovery(n, msg.about)
             /\ net' = net \ {msg} /\ UNCHANGED <<conn, seen>>
          \/ msg.kind = "announce" /\ HandleAnnouncement(n, msg) /\ UNCHANGED <<conn, seen>>
          \/ HandleLeave(n, msg)
  /\ UNCHANGED <<up, left, cut, saved, faults>>

\* handleHeartbeatMessage: a heartbeat refreshes a peer of the map, and only such a peer
Heartbeat(n, p) ==
  /\ n \in up /\ p \in Known(n) \ Active(n)
  /\ Reaches(p, n)
  /\ peers' = [peers EXCEPT ![n][p] = "active"]
  /\ UNCHANGED <<up, left, cut, conn, net, dials, saved, seen, faults>>

\* mutant: only a peer with an open connection is examined
SuspectConnected(n, p) ==
  /\ n \in up /\ p \in Active(n) \cap Connections(n)
  /\ ~Reaches(p, n)
  /\ peers' = [peers EXCEPT ![n][p] = "suspected"]
  /\ UNCHANGED <<up, left, cut, conn, net, dials, saved, seen, faults>>

\* checkPeerHealth: no heartbeat for longer than suspicionTimeout
Suspect(n, p) ==
  /\ n \in up /\ p \in Active(n)
  /\ ~Reaches(p, n)
  /\ peers' = [peers EXCEPT ![n][p] = "suspected"]
  /\ UNCHANGED <<up, left, cut, conn, net, dials, saved, seen, faults>>

\* cleanupInactivePeers: a peer not active, silent for longer than cleanupTimeout (no outage
\* lasts so long, a departure does), is deleted
Cleanup(n, p) ==
  /\ n \in up /\ p \in Known(n) \ Active(n)
  /\ ~Reaches(p, n)
  /\ p \in left
  /\ peers' = [peers EXCEPT ![n][p] = "none"]
  /\ UNCHANGED <<up, left, cut, conn, net, dials, saved, seen, faults>>

\* cleanupConnection, at both ends of each connection of n
CleanupConnections(n) == conn' = {c \in conn : n \notin c}

\* the connections of n break (the "close" handlers); what they carried is lost
Break(n) ==
  /\ CleanupConnections(n)
  /\ net' = {msg \in net : msg.to # n}

Outage(n) ==
  /\ faults < MaxFaults
  /\ faults' = faults + 1
  /\ n \in up \ cut
  /\ cut' = cut \cup {n}
  /\ Break(n)
  /\ UNCHANGED <<up, left, peers, dials, saved, seen>>

Heal(n) ==
  /\ n \in cut
  /\ cut' = cut \ {n}
  /\ UNCHANGED <<up, left, peers, conn, net, dials, saved, seen, faults>>

\* what a process forgets when it ends
Halt(n) ==
  /\ up' = up \ {n}
  /\ peers' = [peers EXCEPT ![n] = Forgotten]
  /\ dials' = [dials EXCEPT ![n] = {}]
  /\ seen' = [seen EXCEPT ![n] = {}]

Crash(n) ==
  /\ faults < MaxFaults
  /\ faults' = faults + 1
  /\ n \in up
  /\ Halt(n)
  /\ Break(n)
  /\ UNCHANGED <<left, cut, saved>>

\* leaveNetwork
LeaveMessages(n) == Broadcast("leave", n, {n}, {})

\* onModuleDestroy: save the active peers, announce the leave, close every connection
Shutdown(n) ==
  /\ faults < MaxFaults
  /\ faults' = faults + 1
  /\ n \in up
  /\ left' = left \cup {n}
  /\ saved' = [saved EXCEPT ![n] = SavedPeers(peers[n])]
  /\ Halt(n)
  /\ CleanupConnections(n)
  /\ net' = {msg \in net : msg.to # n} \cup LeaveMessages(n)
  /\ UNCHANGED cut

Fault ==
  \/ \E n \in Faulty : Outage(n) \/ Crash(n)
  \/ \E n \in Leavers : Shutdown(n)

Work ==
  \/ \E n \in Nodes : Boot(n) \/ Receive(n) \/ Heal(n)
  \/ \E n, m \in Nodes :
       \/ Connect(n, m) \/ ConnectFails(n, m)
       \/ Heartbeat(n, m) \/ Suspect(n, m) \/ Cleanup(n, m)

Next == Fault \/ Work

\* timers and events are served as long as there are any; an outage ends and a node that
\* crashed is started again
Fairness == WF_vars(Work)

MeshSpec == Init /\ [][Next]_vars /\ Fairness

-----------------------------------------------------------------------------
\* What deploy/COMMUNITY_OPERATORS.md says of the roster: every node converges on all of it.
RosterConverges ==
  <>[](\A n \in Nodes \ left, m \in Nodes \ left : n # m => peers[n][m] = "active")

\* The rosters settle: every node that stays in the network ends up active in the peer map
\* of its seeds, whatever the order of the starts and whatever outage, crash and restart
\* happened before, and a node that left for good ends up listed by nobody, although its
\* leave message may be lost and a peer that has not heard it may still pass it on.
Settled ==
  /\ \A n \in Nodes \ left : \A s \in Seeds \ {n} : peers[s][n] = "active"
  /\ \A p \in left, n \in Nodes : peers[n][p] # "active"

RosterSettles == <>[]Settled
===============================================================================
