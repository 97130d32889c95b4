------------------------------ MODULE GossipData ------------------------------
(***************************************************************************)
(* The key/value state of the gossip service (gossip.service.ts): a write   *)
(* through the API, the periodic gossip round, the state a joining peer is  *)
(* sent, the handling, deduplication and propagation of a gossip message,   *)
(* and the clean-up of the message history, after which a message still     *)
(* under way is handled again.                                              *)
(*                                                                         *)
(* One key: the keys do not interact.  A datum is the pair of its version   *)
(* (Date.now() of the writer: the clocks of two nodes differ) and its       *)
(* value, which is the writer.  A connection may duplicate nothing and      *)
(* reorder nothing, but messages take different paths.                      *)
(***************************************************************************)
EXTENDS Naturals, FiniteSets

CONSTANTS
  Nodes,
  Connected(_),   \* the nodes a node has an open connection to
  Joiners,        \* the peers that a node may clean up and meet anew
  Writers, MaxTtl, MaxWrites,
  Versions        \* the timestamps writes may take

VARIABLES
  data,      \* data[n]: [version, value]; version 0 when the key is absent
  history,   \* history[n]: the message ids n remembers
  net,       \* messages under way: [id, from, to, ttl, d]
  written    \* the writes so far

dvars == <<data, history, net, written>>

Absent == [version |-> 0, value |-> "none"]

DataInit ==
  /\ data = [n \in Nodes |-> Absent]
  /\ history = [n \in Nodes |-> {}]
  /\ net = {}
  /\ written = {}

\* setData: the version is the local clock, whatever version the key has (no clock goes
\* back, no two writes take the same version)
SetData(n) ==
  /\ Cardinality(written) < MaxWrites
  /\ \E v \in Versions :
       /\ \A w \in written : w.version # v /\ (w.value = n => w.version < v)
       /\ data' = [data EXCEPT ![n] = [version |-> v, value |-> n]]
       /\ written' = written \cup {[version |-> v, value |-> n]}
  /\ UNCHANGED <<history, net>>

\* a round's message id is fresh: one that no node remembers and no message carries
Free(id) == \A n \in Nodes : id \notin history[n] /\ \A msg \in net : msg.id # id

\* performGossipRound and gossipRandomData: one entry to a connected peer, as a message of
\* its own (the id is fresh)
GossipRound(n, m) ==
  /\ m \in Connected(n)
  /\ data[n] # Absent
  /\ Free(<<n, m>>)
  /\ net' = net \cup {[id |-> <<n, m>>, from |-> n, to |-> m, ttl |-> MaxTtl, d |-> data[n]]}
  /\ history' = [history EXCEPT ![n] = @ \cup {<<n, m>>}]
  /\ UNCHANGED <<data, written>>

\* sendSyncMessage: a peer that joins anew, after n had cleaned it up, is sent what n holds;
\* the message is not passed on, and n does not remember it
SendSync(n, m) ==
  /\ m \in Connected(n) \cap Joiners
  /\ data[n] # Absent
  /\ Free(<<n, m>>)
  /\ net' = net \cup {[id |-> <<n, m>>, from |-> n, to |-> m, ttl |-> 0, d |-> data[n]]}
  /\ UNCHANGED <<data, history, written>>

\* mutant: a key that is present is never updated
AppliedIfAbsent(old, new) == IF old = Absent THEN new ELSE old

\* handleGossipDataMessage and handleSyncMessage: only a newer version is stored
Applied(old, new) == IF new.version > old.version THEN new ELSE old

\* propagateMessage: with a ttl left, to the other connections (the fanout covers them)
Propagated(n, msg) ==
  IF msg.ttl = 0 THEN {}
  ELSE {[msg EXCEPT !.from = n, !.to = m, !.ttl = @ - 1] : m \in Connected(n) \ {msg.from}}

\* handleGossipMessage: an id in the history is dropped; otherwise it is remembered, the
\* datum applied and the message propagated
HandleGossipMessage(msg) ==
  LET n == msg.to
  IN /\ msg \in net
     /\ IF msg.id \in history[n]
        THEN net' = net \ {msg} /\ UNCHANGED <<data, history>>
        ELSE /\ history' = [history EXCEPT ![n] = @ \cup {msg.id}]
             /\ data' = [data EXCEPT ![n] = Applied(@, msg.d)]
             /\ net' = (net \ {msg}) \cup Propagated(n, msg)
     /\ UNCHANGED written

\* cleanupMessageHistory: an entry older than cleanupTimeout is deleted, also when copies
\* of the message are still under way (here the whole history has grown old)
CleanupMessageHistory(n) ==
  /\ history[n] # {}
  /\ history' = [history EXCEPT ![n] = {}]
  /\ UNCHANGED <<data, net, written>>

DataNext ==
  \/ \E n \in Writers : SetData(n)
  \/ \E n \in Nodes : CleanupMessageHistory(n) \/ \E m \in Nodes : GossipRound(n, m) \/ SendSync(n, m)
  \/ \E msg \in net : HandleGossipMessage(msg)

\* the history is cleaned up and rounds are held by timers; a message on an open connection
\* arrives; in a round every connection is served again and again (random choice)
DataFairness ==
  /\ \A n \in Nodes : WF_dvars(CleanupMessageHistory(n))
  /\ \A n, m \in Nodes :
       /\ WF_dvars(GossipRound(n, m))
       /\ WF_dvars(\E msg \in net : msg.id = <<n, m>> /\ HandleGossipMessage(msg))

DataSpec == DataInit /\ [][DataNext]_dvars /\ DataFairness

-----------------------------------------------------------------------------
Newest(d) == \A w \in written : w.version <= d.version

\* A datum never gives way to an older one, except to a write of the node itself: not when
\* messages overtake one another, nor when a message is handled a second time after the
\* history entry that would have stopped it was cleaned up.
NoStaleOverwrite ==
  [][\A n \in Nodes : data'[n].version < data[n].version => written' # written]_dvars

\* Eventual consistency: once the writes end, all nodes come to hold the newest datum, also
\* when a writer whose clock is behind overwrote a newer datum at home.  Writes carry
\* different versions here.
DataConverges == <>[](\A n \in Nodes : written # {} => data[n] \in written /\ Newest(data[n]))

\* Gossiped data are eventually consistent, and never go back on the way.
EventuallyConsistent == NoStaleOverwrite /\ DataConverges
===============================================================================
