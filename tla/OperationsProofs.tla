---------------------------- MODULE OperationsProofs ----------------------------
(***************************************************************************)
(* The invariants of the scripts around the committee, each a component of *)
(* its own, for every value of its constants: a component is an instance   *)
(* over its own variables, and its theorems assume nothing of the others.  *)
(***************************************************************************)
EXTENDS Operations, Sequences, FiniteSets, FunctionTheorems, FiniteSetTheorems, TLAPS

-----------------------------------------------------------------------------
(* deploy/apply-verifier-rotation.mjs                                      *)

(* Only the read-back ends a run that has a rotationReceipt.               *)
RotationInv ==
  /\ rotationAt \in {"idle", "decide", "sent", "mined"}
  /\ rotationAt \in {"decide", "sent"} => rotationReceipt = Rotation!NoReceipt
  /\ rotationReceipt.ok \in BOOLEAN
  /\ Rotation!ArtifactTells

(* No run has begun: there is no artifact and no receipt.                 *)
LEMMA InitRotation == Rotation!Init => RotationInv
BY DEF Rotation!Init, RotationInv, Rotation!ArtifactTells, Rotation!NoReceipt

(* Every step of a run, of the contract and of others keeps it.            *)
LEMMA NextRotation == RotationInv /\ [Rotation!Next]_(Rotation!vars) => RotationInv'
<1> SUFFICES ASSUME RotationInv, [Rotation!Next]_(Rotation!vars)
             PROVE  RotationInv'
  BY Zenon
<1> USE DEF RotationInv, Rotation!ArtifactTells, Rotation!NoReceipt, Rotation!Exit
<1>1. CASE Rotation!Read
  BY ZenonT(30), <1>1 DEF Rotation!Read
<1>2. CASE Rotation!Decide
  BY Zenon, <1>2 DEF Rotation!Decide
<1>3. CASE Rotation!Mined
  <2>1. rotationReceipt = Rotation!NoReceipt
    BY ZenonT(30), <1>3 DEF Rotation!Mined
  <2>2. rotationAt' \in {"mined", "idle"} /\ (rotationAt' = "idle" => rotationReceipt' = rotationReceipt)
    BY <1>3 DEF Rotation!Mined
  <2>3. rotationReceipt'.ok \in BOOLEAN
    <3>1. \/ rotationReceipt' = [ok |-> TRUE, active |-> active']
          \/ rotationReceipt' = [ok |-> FALSE, active |-> active]
          \/ rotationReceipt' = rotationReceipt
      BY ZenonT(30), <1>3 DEF Rotation!Mined
    <3>2. \A a : [ok |-> TRUE, active |-> a].ok \in BOOLEAN
      BY Zenon
    <3>3. \A a : [ok |-> FALSE, active |-> a].ok \in BOOLEAN
      BY Zenon
    <3>4. rotationReceipt.ok \in BOOLEAN
      BY ZenonT(30)
    <3> QED
      BY <3>1, <3>2, <3>3, <3>4, Zenon
  <2>4. Rotation!ArtifactTells'
    BY ZenonT(30), <2>1, <2>2
  <2> QED
    BY ZenonT(30), <2>2, <2>3, <2>4
<1>4. CASE Rotation!Readback
  BY ZenonT(30), <1>4 DEF Rotation!Readback
<1>5. CASE Rotation!Throws
  BY ZenonT(30), <1>5 DEF Rotation!Throws
<1>6. CASE \/ Rotation!Tick \/ Rotation!Propose \/ Rotation!Disarm
           \/ Rotation!AnyoneApplies \/ UNCHANGED Rotation!vars
  BY ZenonT(30), <1>6 DEF Rotation!Tick, Rotation!Propose, Rotation!Disarm, Rotation!AnyoneApplies, Rotation!vars
<1> QED
  BY ZenonT(30), <1>1, <1>2, <1>3, <1>4, <1>5, <1>6 DEF Rotation!Next

(* However the rotation is proposed, disarmed and applied around it, a run *)
(* that got a receipt leaves an artifact that tells what its transaction   *)
(* did, and is green exactly when the artifact is ok.                      *)
THEOREM ArtifactTellsHolds == Rotation!RotationSpec => []ArtifactTells
<1>1. RotationInv => ArtifactTells
  BY DEF RotationInv, ArtifactTells
<1> QED
  BY <1>1, InitRotation, NextRotation, PTL DEF Rotation!RotationSpec

-----------------------------------------------------------------------------
(* deploy/tunnel-keepalive.sh                                              *)

(* From the gate on, the nodes are all healthy or one was lost since.      *)
TunnelInv ==
  /\ healthy \subseteq Machines
  /\ tunnelAt \in {"token", "compose"} => healthy = Machines \/ hurt
  /\ troubles \in Nat

(* Every step of the keepalive and of its surroundings keeps it.           *)
LEMMA NextTunnel == TunnelInv /\ [Tunnel!Next]_(Tunnel!vars) => TunnelInv'
<1> SUFFICES ASSUME TunnelInv, [Tunnel!Next]_(Tunnel!vars)
             PROVE  TunnelInv'
  BY Zenon
<1>0. troubles' \in Nat
  <2>1. troubles' = troubles \/ Tunnel!Trouble
    BY ZenonT(30)
    DEF Tunnel!Next, Tunnel!Run, Tunnel!Probe, Tunnel!InternetUp, Tunnel!Gate, Tunnel!FetchRunToken,
        Tunnel!Compose, Tunnel!ComposeFails, Tunnel!Verify, Tunnel!Breaks, Tunnel!Recovers, Tunnel!vars
  <2> QED
    BY <2>1 DEF TunnelInv, Tunnel!Trouble
<1> USE <1>0 DEF TunnelInv, Tunnel!Exit, Tunnel!world
<1>1. CASE \E check \in BOOLEAN : Tunnel!Probe(check)
  BY ZenonT(30), <1>1 DEF Tunnel!Probe
<1>2. CASE Tunnel!InternetUp
  BY Zenon, <1>2 DEF Tunnel!InternetUp
<1>3. CASE Tunnel!Gate
  BY ZenonT(30), <1>3 DEF Tunnel!Gate, Tunnel!NodesHealthy
<1>4. CASE Tunnel!FetchRunToken
  BY Zenon, <1>4 DEF Tunnel!FetchRunToken
<1>5. CASE Tunnel!Compose \/ Tunnel!ComposeFails \/ Tunnel!Verify
  BY Zenon, <1>5 DEF Tunnel!Compose, Tunnel!ComposeFails, Tunnel!Verify
<1>6. CASE Tunnel!Breaks
  BY <1>6 DEF Tunnel!Breaks
<1>7. CASE Tunnel!Recovers
  BY ZenonT(30), <1>7 DEF Tunnel!Recovers
<1>8. CASE UNCHANGED Tunnel!vars
  BY <1>8 DEF Tunnel!vars
<1> QED
  BY ZenonT(30), <1>1, <1>2, <1>3, <1>4, <1>5, <1>6, <1>7, <1>8 DEF Tunnel!Next, Tunnel!Run

(* The keepalive takes a working tunnel down only when a node is lost      *)
(* after it saw all of them healthy or docker itself fails, for any number *)
(* of nodes, breakdowns and recoveries.                                    *)
THEOREM NeverWorsensHolds == Tunnel!KeepaliveSpec => NeverWorsens
<1>1. Tunnel!Init => TunnelInv
  BY DEF Tunnel!Init, TunnelInv
<1>2. TunnelInv /\ [Tunnel!Next]_(Tunnel!vars) => [Tunnel!KeepsTunnel]_(Tunnel!vars)
  <2> SUFFICES ASSUME TunnelInv, Tunnel!Next, tunnel, ~tunnel', ~hurt
               PROVE  troubles' > troubles
    BY Zenon DEF Tunnel!KeepsTunnel
  <2>1. Tunnel!Trouble
    BY ZenonT(30)
    DEF TunnelInv, Tunnel!Next, Tunnel!Run, Tunnel!Probe, Tunnel!InternetUp, Tunnel!Gate,
        Tunnel!FetchRunToken, Tunnel!Compose, Tunnel!ComposeFails, Tunnel!Verify, Tunnel!Breaks,
        Tunnel!Recovers, Tunnel!world
  <2> QED
    BY <2>1 DEF TunnelInv, Tunnel!Trouble
<1> QED
  BY <1>1, <1>2, NextTunnel, PTL DEF Tunnel!KeepaliveSpec, NeverWorsens, Tunnel!NeverWorsens

-----------------------------------------------------------------------------
(* deploy/committee-keeper.mjs and deploy/committee-health.mjs             *)

(* Division by the length of an epoch is monotone.                         *)
LEMMA DivMonotone ==
  ASSUME NEW a \in Nat, NEW b \in Nat, NEW l \in Nat, l > 0, a <= b
  PROVE  a \div l \in Nat /\ a \div l <= b \div l
<1> DEFINE p == a \div l  q == b \div l
<1>1. p \in Int /\ q \in Int
  OBVIOUS
<1>2. p * l <= a /\ a < (p + 1) * l
  OBVIOUS
<1>3. q * l <= b /\ b < (q + 1) * l
  OBVIOUS
<1> HIDE DEF p, q
<1>4. p >= 0
  BY <1>1, <1>2
<1>5. p <= q
  BY <1>1, <1>2, <1>3
<1> QED
  BY <1>1, <1>4, <1>5 DEF p, q

(* Finite sets and cardinalities are the same inside an instance.          *)
LEMMA KeeperFinite ==
  ASSUME NEW S
  PROVE  (Keeper!IsFiniteSet(S) <=> IsFiniteSet(S)) /\ Keeper!Cardinality(S) = Cardinality(S)
BY ZenonT(30) DEF IsFiniteSet, Keeper!IsFiniteSet, Cardinality, Keeper!Cardinality

(* Nothing is pinned ahead of the chain, and no pin is of a version to     *)
(* come.                                                                   *)
PinsPast ==
  /\ keeperBlock \in Nat /\ keeperBlock <= KeeperMaxBlock
  /\ keeperVersion \in Nat \ {0}
  /\ IsFiniteSet(members)
  /\ pin \in [Keeper!Epochs -> [version : Nat, count : Nat]]
  /\ \A e \in Keeper!Epochs :
       pin[e].version <= keeperVersion /\ (e > Keeper!Epoch => pin[e].version = 0)

(* An epoch a tick may report on has been seen usable by it: the one it    *)
(* read, a later one that is pinned now, and the one of which an error     *)
(* said that it was pinned.                                                *)
TickSaw(k) ==
  keeperAt[k] # "idle" =>
    /\ epoch[k] <= Keeper!Epoch
    /\ \A e \in Keeper!Epochs : e >= epoch[k] /\ Keeper!Current(e) => keeperSeen[k]
    /\ reason[k] = "pinned" => keeperSeen[k]

(* No tick has said "ok" of an epoch it had not seen usable; between ticks *)
(* there is no error.                                                      *)
KeeperInv ==
  /\ PinsPast
  /\ epoch \in [Keepers -> Nat]
  /\ keeperAt \in [Keepers -> {"idle", "state", "list", "send", "wait", "catch"}]
  /\ keeperSeen \in [Keepers -> BOOLEAN]
  /\ reason \in [Keepers -> {"none", "other", "pinned", "set", "ineligible"}]
  /\ \A k \in Keepers : TickSaw(k) /\ (keeperAt[k] = "idle" => reason[k] = "none")
  /\ ~misreported

(* The epoch of a block on the chain.                                      *)
LEMMA EpochBounds ==
  ASSUME Keeper!KeeperConstants, PinsPast
  PROVE  Keeper!Epoch \in Nat /\ Keeper!Epoch \in Keeper!Epochs
<1>1. Keeper!Epoch \in Nat /\ Keeper!Epoch <= KeeperMaxBlock \div EpochLength
  BY DivMonotone DEF Keeper!KeeperConstants, PinsPast, Keeper!Epoch
<1>2. KeeperMaxBlock \div EpochLength \in Int
  BY DEF Keeper!KeeperConstants
<1> QED
  BY <1>1, <1>2 DEF Keeper!Epochs

(* A step of one keeper that leaves the chain alone keeps the invariant if *)
(* it ends the tick, or goes on with it and blames a pin it has seen.      *)
LEMMA TickKeeps ==
  ASSUME KeeperInv, NEW k \in Keepers, UNCHANGED Keeper!chain, UNCHANGED keeperSeen,
         epoch' \in [Keepers -> Nat],
         keeperAt' \in [Keepers -> {"idle", "state", "list", "send", "wait", "catch"}],
         reason' \in [Keepers -> {"none", "other", "pinned", "set", "ineligible"}],
         \A j \in Keepers \ {k} :
           keeperAt'[j] = keeperAt[j] /\ epoch'[j] = epoch[j] /\ reason'[j] = reason[j],
         \/ keeperAt'[k] = "idle" /\ reason'[k] = "none"
         \/ /\ keeperAt[k] # "idle" /\ epoch'[k] = epoch[k]
            /\ reason'[k] = "pinned" => keeperSeen[k]
            /\ keeperAt'[k] # "idle",
         ~misreported'
  PROVE  KeeperInv'
<1>1. PinsPast'
  BY Zenon DEF KeeperInv, PinsPast, Keeper!chain, Keeper!Epoch
<1>2. ASSUME NEW j \in Keepers
      PROVE  TickSaw(j)'
  <2>1. Keeper!Epoch' = Keeper!Epoch /\ \A e : Keeper!Current(e)' = Keeper!Current(e)
    BY Zenon DEF Keeper!chain, Keeper!Epoch, Keeper!Current, Keeper!Pinned
  <2>2. TickSaw(j)
    BY ZenonT(30) DEF KeeperInv
  <2> QED
    BY ZenonT(30), <2>1, <2>2 DEF TickSaw
<1> QED
  BY Zenon, <1>1, <1>2 DEF KeeperInv

(* What a tick that ends leaves behind.                                    *)
LEMMA ReturnsKeeps ==
  ASSUME KeeperInv, NEW k \in Keepers, NEW what, Keeper!Returns(k, what),
         what = "ok" => keeperSeen[k],
         UNCHANGED Keeper!chain, UNCHANGED keeperSeen
  PROVE  KeeperInv'
<1>1. /\ epoch' = [epoch EXCEPT ![k] = 0]
      /\ keeperAt' = [keeperAt EXCEPT ![k] = "idle"]
      /\ reason' = [reason EXCEPT ![k] = "none"]
  BY Zenon DEF Keeper!Returns, Keeper!To
<1>2. ~misreported'
  BY ZenonT(30) DEF Keeper!Returns, KeeperInv
<1> QED
  BY ZenonT(30), <1>1, <1>2, TickKeeps DEF KeeperInv

(* What a tick that throws hands to its error path.                        *)
LEMMA ThrowsKeeps ==
  ASSUME KeeperInv, NEW k \in Keepers, keeperAt[k] # "idle",
         NEW why \in {"none", "other", "pinned", "set", "ineligible"},
         Keeper!Throws(k, why), why = "pinned" => keeperSeen[k],
         UNCHANGED Keeper!chain, UNCHANGED keeperSeen
  PROVE  KeeperInv'
<1>1. /\ epoch' = epoch
      /\ keeperAt' = [keeperAt EXCEPT ![k] = "catch"]
      /\ reason' = [reason EXCEPT ![k] = why]
      /\ misreported' = misreported
  BY Zenon DEF Keeper!Throws, Keeper!To
<1> QED
  BY ZenonT(30), <1>1, TickKeeps DEF KeeperInv

(* snapshotEpoch says that the epoch is pinned only when it is.            *)
LEMMA RefusalTrue ==
  ASSUME NEW ids
  PROVE  /\ Keeper!Refusal(ids) \in {"none", "other", "pinned", "set", "ineligible"}
         /\ Keeper!Refusal(ids) = "pinned" => Keeper!Current(Keeper!Epoch)
BY Zenon DEF Keeper!Refusal

(* A tick starts with the epoch it reads, and has seen it if it is usable; *)
(* no later one can be.                                                    *)
LEMMA TickStartKeeps ==
  ASSUME Keeper!KeeperConstants, KeeperInv, NEW k \in Keepers, Keeper!TickStart(k)
  PROVE  KeeperInv'
<1>1. UNCHANGED Keeper!chain /\ UNCHANGED <<reason, misreported>>
  BY Zenon DEF Keeper!TickStart
<1>2. PinsPast'
  BY Zenon, <1>1 DEF KeeperInv, PinsPast, Keeper!chain, Keeper!Epoch
<1>3. Keeper!Epoch \in Nat
  BY ZenonT(30), EpochBounds DEF KeeperInv
<1>4. Keeper!Epoch' = Keeper!Epoch /\ \A e : Keeper!Current(e)' = Keeper!Current(e)
  BY ZenonT(30), <1>1 DEF Keeper!chain, Keeper!Epoch, Keeper!Current, Keeper!Pinned
<1>5. CASE ~armed
  BY SMTT(30), <1>1, <1>2, <1>4, <1>5 DEF Keeper!TickStart, KeeperInv, TickSaw
<1>6. CASE armed
  <2>1. /\ keeperAt' = [keeperAt EXCEPT ![k] = "state"]
        /\ epoch' = [epoch EXCEPT ![k] = Keeper!Epoch]
        /\ keeperSeen' = [keeperSeen EXCEPT ![k] = Keeper!Current(Keeper!Epoch)]
    BY Zenon, <1>6 DEF Keeper!TickStart, Keeper!To
  <2>2. Keeper!Current(Keeper!Epoch) \in BOOLEAN
    BY Zenon DEF Keeper!Current
  <2>3. ASSUME NEW e \in Keeper!Epochs, e >= Keeper!Epoch, Keeper!Current(e)
        PROVE  Keeper!Current(Keeper!Epoch)
    BY <1>3, <2>3 DEF KeeperInv, PinsPast, Keeper!Current, Keeper!Pinned, Keeper!Epochs
  <2>4. ASSUME NEW j \in Keepers
        PROVE  TickSaw(j)'
    <3>1. CASE j = k
      <4>1. keeperAt[k] = "idle"
        BY Zenon DEF Keeper!TickStart
      <4>2. epoch'[k] = Keeper!Epoch /\ keeperSeen'[k] = Keeper!Current(Keeper!Epoch)
        BY <2>1 DEF KeeperInv
      <4>3. reason'[k] # "pinned"
        BY ZenonT(30), <1>1, <4>1 DEF KeeperInv
      <4> QED
        BY SMTT(30), <1>1, <1>3, <1>4, <2>3, <3>1, <4>2, <4>3 DEF TickSaw
    <3>2. CASE j # k
      <4>1. keeperAt'[j] = keeperAt[j] /\ epoch'[j] = epoch[j] /\ keeperSeen'[j] = keeperSeen[j]
        BY ZenonT(30), <2>1, <3>2 DEF KeeperInv
      <4> QED
        BY ZenonT(30), <1>1, <1>4, <4>1 DEF TickSaw, KeeperInv
    <3> QED
      BY ZenonT(30), <3>1, <3>2
  <2> QED
    BY ZenonT(30), <1>1, <1>2, <1>3, <2>1, <2>2, <2>4 DEF KeeperInv
<1> QED
  BY ZenonT(30), <1>5, <1>6

(* The steps of a tick that leave the chain alone.                         *)
LEMMA TickStepKeeps ==
  ASSUME Keeper!KeeperConstants, KeeperInv, NEW k \in Keepers,
         \/ Keeper!ReadState(k) \/ Keeper!ActiveSet(k) \/ Keeper!Send(k)
         \/ Keeper!Timeout(k) \/ Keeper!Catch(k) \/ Keeper!Crash(k)
  PROVE  KeeperInv'
<1>1. UNCHANGED Keeper!chain /\ UNCHANGED keeperSeen
  BY Zenon DEF Keeper!ReadState, Keeper!ActiveSet, Keeper!Send, Keeper!Timeout, Keeper!Catch, Keeper!Crash
<1>2. keeperAt[k] # "idle"
  BY ZenonT(30) DEF Keeper!ReadState, Keeper!ActiveSet, Keeper!Send, Keeper!Timeout, Keeper!Catch, Keeper!Crash
<1>3. TickSaw(k) /\ Keeper!Epoch \in Nat /\ Keeper!Epoch \in Keeper!Epochs /\ epoch[k] \in Nat
  BY ZenonT(30), EpochBounds DEF KeeperInv
<1>4. epoch[k] \in Keeper!Epochs
  BY SMTT(30), <1>2, <1>3 DEF TickSaw, Keeper!Epochs, Keeper!KeeperConstants
<1>5. Keeper!Current(epoch[k]) => keeperSeen[k]
  BY SMTT(30), <1>2, <1>3, <1>4 DEF TickSaw
<1>6. Keeper!Current(Keeper!Epoch) => keeperSeen[k]
  BY ZenonT(30), <1>2, <1>3 DEF TickSaw
<1>7. ASSUME NEW there \in {"list", "send", "wait"}, Keeper!To(k, there),
             UNCHANGED <<epoch, reason, misreported>>
      PROVE  KeeperInv'
  <2>1. keeperAt' = [keeperAt EXCEPT ![k] = there]
    BY <1>7 DEF Keeper!To
  <2> QED
    BY ZenonT(30), <1>1, <1>2, <1>3, <1>7, <2>1, TickKeeps DEF KeeperInv, TickSaw
<1>8. CASE Keeper!ReadState(k)
  BY ZenonT(30), <1>1, <1>5, <1>7, <1>8, ReturnsKeeps DEF Keeper!ReadState
<1>9. CASE Keeper!ActiveSet(k)
  BY ZenonT(30), <1>1, <1>2, <1>7, <1>9, ThrowsKeeps DEF Keeper!ActiveSet
<1>10. CASE Keeper!Send(k)
  BY ZenonT(30), <1>1, <1>2, <1>6, <1>7, <1>10, ThrowsKeeps, RefusalTrue DEF Keeper!Send
<1>11. CASE Keeper!Timeout(k)
  BY ZenonT(30), <1>1, <1>2, <1>11, ReturnsKeeps, ThrowsKeeps DEF Keeper!Timeout
<1>12. CASE Keeper!Catch(k)
  <2>1. reason[k] = "pinned" => keeperSeen[k]
    BY ZenonT(30), <1>2, <1>3 DEF TickSaw
  <2>2. PICK known \in BOOLEAN :
          Keeper!Returns(k,
            CASE known /\ Keeper!Current(epoch[k]) -> "ok"
              [] ~known /\ reason[k] = "pinned" -> "ok"
              [] reason[k] = "set" -> "retry"
              [] reason[k] = "ineligible" -> "ineligible"
              [] OTHER -> "error")
    BY ZenonT(30), <1>12 DEF Keeper!Catch
  <2> QED
    BY ZenonT(30), <1>1, <1>5, <2>1, <2>2, ReturnsKeeps
<1>13. CASE Keeper!Crash(k)
  BY ZenonT(30), <1>1, <1>13, ReturnsKeeps DEF Keeper!Crash
<1> QED
  BY ZenonT(30), <1>8, <1>9, <1>10, <1>11, <1>12, <1>13

(* The other steps of the chain: blocks, reconfigurations, expiries and    *)
(* changes of the set make no epoch usable.                                *)
LEMMA ChainKeeps ==
  ASSUME Keeper!KeeperConstants, KeeperInv,
         \/ Keeper!NextBlock \/ Keeper!Expire
         \/ \E on \in BOOLEAN : Keeper!Reconfigure(on)
         \/ \E n \in Nodes : Keeper!Change(n) \/ Keeper!Evict(n)
  PROVE  KeeperInv'
<1>1. UNCHANGED <<keeperAt, epoch, keeperSeen, reason, misreported, pin>>
  BY ZenonT(30)
  DEF Keeper!NextBlock, Keeper!Expire, Keeper!Reconfigure, Keeper!Change, Keeper!Evict, Keeper!ticking
<1>2. /\ keeperBlock' \in Nat /\ keeperBlock <= keeperBlock' /\ keeperBlock' <= KeeperMaxBlock
      /\ keeperVersion' \in Nat \ {0} /\ keeperVersion <= keeperVersion'
  BY DEF KeeperInv, PinsPast, Keeper!KeeperConstants, Keeper!NextBlock, Keeper!Expire,
         Keeper!Reconfigure, Keeper!Change, Keeper!Evict
<1>3. IsFiniteSet(members')
  <2>1. IsFiniteSet(members)
    BY ZenonT(30) DEF KeeperInv, PinsPast
  <2>2. members' = members \/ (\E n \in Nodes : members' = members \union {n})
                           \/ (\E n \in Nodes : members' = members \ {n})
    BY ZenonT(30) DEF Keeper!NextBlock, Keeper!Expire, Keeper!Reconfigure, Keeper!Change, Keeper!Evict
  <2> QED
    BY SMTT(30), <2>1, <2>2, FS_AddElement, FS_RemoveElement
<1>4. Keeper!Epoch \in Nat /\ Keeper!Epoch' \in Nat /\ Keeper!Epoch <= Keeper!Epoch'
  <2>1. keeperBlock \in Nat /\ EpochLength \in Nat /\ EpochLength > 0
    BY DEF KeeperInv, PinsPast, Keeper!KeeperConstants
  <2>2. keeperBlock \div EpochLength \in Nat /\ keeperBlock \div EpochLength <= keeperBlock' \div EpochLength
    BY ZenonT(30), <1>2, <2>1, DivMonotone
  <2>3. \A b \in Nat : b \div EpochLength \in Nat
    BY <2>1, DivMonotone
  <2> QED
    BY ZenonT(30), <1>2, <2>2, <2>3 DEF Keeper!Epoch
<1>5. PinsPast'
  <2>1. ASSUME NEW e \in Keeper!Epochs
        PROVE  pin'[e].version <= keeperVersion' /\ (e > Keeper!Epoch' => pin'[e].version = 0)
    <3>1. e \in Int
      BY DEF Keeper!Epochs
    <3> QED
      BY SMTT(30), <1>1, <1>2, <1>4, <3>1 DEF KeeperInv, PinsPast
  <2> QED
    BY ZenonT(30), <1>1, <1>2, <1>3, <2>1 DEF KeeperInv, PinsPast, Keeper!Epochs
<1>6. \A e \in Keeper!Epochs : Keeper!Current(e)' => Keeper!Current(e)
  BY SMTT(30), <1>1, <1>2 DEF KeeperInv, PinsPast, Keeper!Current, Keeper!Pinned
<1>7. ASSUME NEW k \in Keepers
      PROVE  TickSaw(k)'
  <2>1. TickSaw(k) /\ epoch[k] \in Nat
    BY Zenon DEF KeeperInv
  <2> QED
    BY SMTT(30), <1>1, <1>4, <1>6, <2>1 DEF TickSaw
<1> QED
  BY ZenonT(30), <1>1, <1>5, <1>7 DEF KeeperInv

(* A call is mined: its pin is of the current epoch and version, and every *)
(* tick that is under way sees it.                                         *)
LEMMA MineKeeps ==
  ASSUME Keeper!KeeperConstants, KeeperInv, NEW k \in Keepers, Keeper!Mine(k)
  PROVE  KeeperInv'
<1> DEFINE ids == Head(keeperMempool[k])
           waits == keeperAt[k] = "wait" /\ Len(keeperMempool[k]) = 1
<1>1. UNCHANGED <<keeperBlock, armed, keeperVersion, members, leaving, changes>>
  BY ZenonT(30) DEF Keeper!Mine
<1>2. Keeper!Epoch \in Nat /\ Keeper!Epoch \in Keeper!Epochs
  BY EpochBounds DEF KeeperInv
<1>3. CASE Keeper!Refusal(ids) # "none"
  <2>1. UNCHANGED <<pin, expired, keeperSeen>>
    BY ZenonT(30), <1>3 DEF Keeper!Mine
  <2>2. UNCHANGED Keeper!chain
    BY ZenonT(30), <1>1, <2>1 DEF Keeper!chain
  <2>3. CASE waits
    <3>1. Keeper!Throws(k, Keeper!Refusal(ids)) \/ Keeper!Throws(k, "other")
      BY ZenonT(30), <1>3, <2>3 DEF Keeper!Mine
    <3>2. keeperAt[k] # "idle" /\ TickSaw(k) /\ epoch[k] \in Nat
      BY SMTT(30), <2>3 DEF KeeperInv
    <3>3. Keeper!Current(Keeper!Epoch) => keeperSeen[k]
      BY ZenonT(30), <1>2, <3>2 DEF TickSaw
    <3> HIDE DEF ids
    <3> QED
      BY ZenonT(30), <2>1, <2>2, <3>1, <3>2, <3>3, ThrowsKeeps, RefusalTrue
  <2>4. CASE ~waits
    <3>1. UNCHANGED Keeper!ticking
      BY ZenonT(30), <1>3, <2>4 DEF Keeper!Mine
    <3> QED
      BY ZenonT(30), <2>1, <2>2, <3>1, TickKeeps
      DEF KeeperInv, TickSaw, Keeper!ticking, Keeper!chain, PinsPast,
         Keeper!Epoch, Keeper!Current, Keeper!Pinned
  <2> QED
    BY ZenonT(30), <2>3, <2>4
<1>4. CASE Keeper!Refusal(ids) = "none"
  <2>1. /\ pin' = [pin EXCEPT ![Keeper!Epoch] = [version |-> keeperVersion, count |-> Cardinality(members)]]
        /\ keeperSeen' = [j \in Keepers |-> keeperSeen[j] \/ keeperAt[j] # "idle"]
        /\ waits => Keeper!Returns(k, "pinned")
        /\ ~waits => UNCHANGED Keeper!ticking
    BY <1>4, KeeperFinite, Zenon DEF Keeper!Mine
  <2>2. Cardinality(members) \in Nat
    BY FS_CardinalityType DEF KeeperInv, PinsPast
  <2>3. Keeper!Epoch' = Keeper!Epoch
    BY ZenonT(30), <1>1 DEF Keeper!Epoch
  <2>4. PinsPast'
    <3>1. pin' \in [Keeper!Epochs -> [version : Nat, count : Nat]]
      BY ZenonT(30), <1>2, <2>1, <2>2 DEF KeeperInv, PinsPast
    <3>2. ASSUME NEW e \in Keeper!Epochs
          PROVE  pin'[e].version <= keeperVersion /\ (e > Keeper!Epoch => pin'[e].version = 0)
      BY SMTT(30), <1>2, <2>1 DEF KeeperInv, PinsPast
    <3> QED
      BY ZenonT(30), <1>1, <2>3, <3>1, <3>2 DEF KeeperInv, PinsPast, Keeper!Epochs
  <2>5. keeperSeen' \in [Keepers -> BOOLEAN]
    BY ZenonT(30), <2>1 DEF KeeperInv
  <2>6. /\ epoch' \in [Keepers -> Nat]
        /\ keeperAt' \in [Keepers -> {"idle", "state", "list", "send", "wait", "catch"}]
        /\ reason' \in [Keepers -> {"none", "other", "pinned", "set", "ineligible"}]
        /\ ~misreported'
        /\ \A j \in Keepers :
             \/ keeperAt'[j] = "idle" /\ reason'[j] = "none"
             \/ keeperAt'[j] = keeperAt[j] /\ epoch'[j] = epoch[j] /\ reason'[j] = reason[j]
    <3>1. CASE waits
      <4>1. /\ epoch' = [epoch EXCEPT ![k] = 0]
            /\ keeperAt' = [keeperAt EXCEPT ![k] = "idle"]
            /\ reason' = [reason EXCEPT ![k] = "none"]
        BY ZenonT(30), <2>1, <3>1 DEF Keeper!Returns, Keeper!To
      <4>2. ~misreported'
        BY ZenonT(30), <2>1, <3>1 DEF Keeper!Returns, KeeperInv
      <4> QED
        BY ZenonT(30), <4>1, <4>2 DEF KeeperInv
    <3>2. CASE ~waits
      BY <2>1, <3>2 DEF Keeper!ticking, KeeperInv
    <3> QED
      BY ZenonT(30), <3>1, <3>2
  <2>7. ASSUME NEW j \in Keepers
        PROVE  TickSaw(j)' /\ (keeperAt'[j] = "idle" => reason'[j] = "none")
    BY ZenonT(30), <2>1, <2>3, <2>6 DEF KeeperInv, TickSaw
  <2> QED
    BY ZenonT(30), <2>4, <2>5, <2>6, <2>7 DEF KeeperInv
<1> QED
  BY ZenonT(30), <1>3, <1>4

(* Every step of a keeper, of the chain and of the operators keeps it.     *)
LEMMA NextKeeper ==
  ASSUME Keeper!KeeperConstants
  PROVE  KeeperInv /\ [Keeper!Next]_(Keeper!vars) => KeeperInv'
<1> SUFFICES ASSUME KeeperInv, [Keeper!Next]_(Keeper!vars)
             PROVE  KeeperInv'
  BY ZenonT(30)
<1>1. ASSUME NEW k \in Keepers,
             Keeper!Step(k) \/ Keeper!Timeout(k) \/ Keeper!Crash(k) \/ Keeper!Mine(k)
      PROVE  KeeperInv'
  BY ZenonT(30), <1>1, TickStartKeeps, TickStepKeeps, MineKeeps DEF Keeper!Step
<1>2. CASE UNCHANGED Keeper!vars
  BY ZenonT(30), <1>2 DEF Keeper!vars, Keeper!chain, Keeper!ticking, KeeperInv, PinsPast, TickSaw,
              Keeper!Epoch, Keeper!Current, Keeper!Pinned
<1> QED
  BY ZenonT(30), <1>1, <1>2, ChainKeeps DEF Keeper!Next

(* It holds of the contract as deployed, with no keeper running.           *)
LEMMA InitKeeper ==
  ASSUME Keeper!KeeperConstants
  PROVE  Keeper!Init => KeeperInv
<1> SUFFICES ASSUME Keeper!Init
             PROVE  KeeperInv
  BY ZenonT(30)
<1>1. /\ keeperBlock = FirstBlock /\ keeperVersion = 1 /\ members = Founders
      /\ pin = [e \in Keeper!Epochs |-> IF e = 0 THEN [version |-> 1, count |-> MinCommittee]
                                       ELSE [version |-> 0, count |-> 0]]
      /\ keeperAt = [k \in Keepers |-> "idle"] /\ epoch = [k \in Keepers |-> 0]
      /\ reason = [k \in Keepers |-> "none"] /\ keeperSeen = [k \in Keepers |-> FALSE]
      /\ misreported = FALSE
  BY ZenonT(30) DEF Keeper!Init
<1>2. Keeper!Epoch \in Nat
  BY <1>1, DivMonotone DEF Keeper!KeeperConstants, Keeper!Epoch
<1>3. PinsPast
  <2>1. keeperBlock \in Nat /\ keeperBlock <= KeeperMaxBlock /\ keeperVersion \in Nat \ {0} /\ IsFiniteSet(members)
    BY <1>1, KeeperFinite DEF Keeper!KeeperConstants
  <2>2. pin \in [Keeper!Epochs -> [version : Nat, count : Nat]]
    BY ZenonT(30), <1>1 DEF Keeper!KeeperConstants
  <2>3. \A e \in Keeper!Epochs :
          pin[e].version <= keeperVersion /\ (e > Keeper!Epoch => pin[e].version = 0)
    BY <1>1, <1>2 DEF Keeper!Epochs
  <2> QED
    BY ZenonT(30), <2>1, <2>2, <2>3 DEF PinsPast
<1>4. keeperSeen \in [Keepers -> BOOLEAN] /\ ~misreported
  BY ZenonT(30), <1>1
<1>5. \A k \in Keepers : TickSaw(k)
  BY ZenonT(30), <1>1 DEF TickSaw
<1> QED
  BY ZenonT(30), <1>1, <1>3, <1>4, <1>5 DEF KeeperInv

(* The health check names the conjuncts of requiredQuorum() that fail, and *)
(* only those.                                                             *)
LEMMA HealthExplains ==
  ASSUME Keeper!KeeperConstants, PinsPast
  PROVE  Keeper!OutageExplained
<1> DEFINE now0 == Keeper!Epoch
           last == now0 - 1
<1> SUFFICES ASSUME Keeper!Health \in {"OK", "WARN", "CRITICAL"}
             PROVE  /\ Keeper!Serves <=> Keeper!FailingConjuncts = {}
                    /\ Keeper!Health = "WARN" => Keeper!FailingConjuncts = {<<"unpinned", now0>>}
  BY Zenon DEF Keeper!OutageExplained
<1>1. now0 \in Nat /\ now0 \in Keeper!Epochs
  BY Zenon, EpochBounds
<1>2. armed /\ now0 # 0
  BY Zenon DEF Keeper!Health
<1>3. last \in Nat /\ last \in Keeper!Epochs /\ last # now0
  BY <1>1, <1>2 DEF Keeper!Epochs, Keeper!KeeperConstants
<1>4. pin[last].count \in Nat /\ MinCommittee \in Nat
  BY ZenonT(30), <1>3 DEF PinsPast, Keeper!KeeperConstants
<1> HIDE DEF now0, last
<1>5. Keeper!FailingConjuncts =
        {<<"unpinned", e>> : e \in {f \in {now0, last} : ~Keeper!Pinned(f)}} \union
        {<<"version", e>> : e \in {f \in {now0, last} : Keeper!Pinned(f) /\ pin[f].version # keeperVersion}} \union
        {<<"expired", e>> : e \in {f \in {now0, last} : Keeper!Pinned(f) /\ f \in expired}} \union
        {<<"floor", e>> : e \in {f \in {last} : pin[f].count < MinCommittee}}
  BY Zenon DEF Keeper!FailingConjuncts, now0, last
<1>6. Keeper!Serves <=> /\ Keeper!EpochUsable(now0) /\ Keeper!EpochUsable(last)
                        /\ pin[last].count >= MinCommittee
  BY SMTT(30), <1>1, <1>2 DEF Keeper!Serves, now0, last
<1>7. Keeper!Serves <=> Keeper!FailingConjuncts = {}
  <2>1. Keeper!FailingConjuncts = {} <=>
          /\ \A f \in {now0, last} :
               Keeper!Pinned(f) /\ pin[f].version = keeperVersion /\ f \notin expired
          /\ ~(pin[last].count < MinCommittee)
    BY ZenonT(30), <1>5
  <2> QED
    BY SMTT(30), <1>4, <1>6, <2>1 DEF Keeper!EpochUsable, Keeper!Current
<1>8. ASSUME Keeper!Health = "WARN"
      PROVE  Keeper!FailingConjuncts = {<<"unpinned", now0>>}
  <2>1. Keeper!OnlyPendingPin
    BY ZenonT(30), <1>8 DEF Keeper!Health, Keeper!Verdict
  <2>2. /\ ~Keeper!Pinned(now0)
        /\ Keeper!Pinned(last) /\ pin[last].version = keeperVersion /\ last \notin expired
        /\ ~(pin[last].count < MinCommittee)
    BY <1>4, <2>1 DEF Keeper!OnlyPendingPin, Keeper!Usable, Keeper!FloorOk, now0, last
  <2> QED
    BY ZenonT(30), <1>5, <2>2
<1> QED
  BY ZenonT(30), <1>7, <1>8

(* Whatever races, failed calls, crashes and reconfigurations come between *)
(* the calls of a tick, and for any number of keepers and nodes and any    *)
(* schedule: a keeper says "ok" only of an epoch that was usable while it  *)
(* looked, and the health check explains every outage.                     *)
THEOREM ReportsTrueHolds == Keeper!KeeperSpec => []ReportsTrue
<1>0. Keeper!KeeperConstants
  BY ZenonT(30), OperationsAssumption
<1>1. KeeperInv => ReportsTrue
  BY ZenonT(30), <1>0, HealthExplains DEF KeeperInv, ReportsTrue, Keeper!ReportsTrue, Keeper!OkMeansUsable
<1>2. Keeper!Init => KeeperInv
  BY ZenonT(30), <1>0, InitKeeper
<1>3. KeeperInv /\ [Keeper!Next]_(Keeper!vars) => KeeperInv'
  BY ZenonT(30), <1>0, NextKeeper
<1> QED
  BY <1>1, <1>2, <1>3, PTL DEF Keeper!KeeperSpec

-----------------------------------------------------------------------------
(* deploy/reregister-guardians.mjs                                         *)

(* The file's validator sits in the file's seat with the file's key.       *)
Holds(j) ==
  seat[batch[j].validator] = batch[j].slot /\ key[batch[j].validator] = batch[j].key

(* A batch that got past the gates is disjoint, so a registration of one   *)
(* file undoes no other; the read-back has found every file it passed,     *)
(* unless it counted a mismatch.                                           *)
EnrolInv ==
  /\ batch \in [1..BatchSize -> Enrol!NodeFiles]
  /\ seat \in [Enrol!Everyone -> Seats \union {0}]
  /\ key \in [Enrol!Everyone -> Keys \union {Enrol!None}]
  /\ i \in Nat \ {0} /\ bad \in Nat
  /\ enrolAt \in {"send", "wait", "verify"} \/ outcome = "verified" => Enrol!Disjoint
  /\ enrolAt = "verify" /\ bad = 0 => \A j \in 1..BatchSize : j < i => Holds(j)
  /\ outcome = "verified" => \A j \in 1..BatchSize : Holds(j)

(* A batch is as long as the list of files that was given.                 *)
LEMMA BatchLength ==
  ASSUME Enrol!EnrolConstants, batch \in [1..BatchSize -> Enrol!NodeFiles]
  PROVE  Len(batch) = BatchSize /\ Enrol!Files = 1..BatchSize
BY SMTT(30) DEF Enrol!Files, Enrol!EnrolConstants

(* registerBLSPublicKey takes neither its seat nor its key from a file     *)
(* that holds them, when it is of that file, or of another validator.      *)
LEMMA RegisterKeeps ==
  ASSUME Enrol!EnrolConstants, EnrolInv, UNCHANGED batch,
         NEW v \in Enrol!Everyone, NEW k \in Keys, NEW s \in Seats, Enrol!Register(v, k, s)
  PROVE  /\ seat' \in [Enrol!Everyone -> Seats \union {0}]
         /\ key' \in [Enrol!Everyone -> Keys \union {Enrol!None}]
         /\ \A j \in 1..BatchSize :
              /\ Holds(j)
              /\ v # batch[j].validator \/ k = batch[j].key
              => Holds(j)'
<1>1. \/ seat' = seat /\ key' = key
      \/ /\ seat' = [seat EXCEPT ![v] = IF @ = 0 THEN s ELSE @]
         /\ key' = [key EXCEPT ![v] = k]
  BY ZenonT(30) DEF Enrol!Register, Enrol!chain
<1>2. \A j \in 1..BatchSize : /\ batch[j].validator \in Enrol!Everyone
                             /\ batch[j].slot \in Seats
  BY ZenonT(30) DEF EnrolInv, Enrol!NodeFiles, Enrol!Everyone
<1>3. 0 \notin Seats
  BY ZenonT(30) DEF Enrol!EnrolConstants
<1> QED
  BY SMTT(30), <1>1, <1>2, <1>3 DEF EnrolInv, Holds

(* A transaction of the batch, or of a stranger, is mined.                 *)
LEMMA RegisteredKeeps ==
  ASSUME Enrol!EnrolConstants, EnrolInv, Enrol!Mined \/ Enrol!StrangerRegisters
  PROVE  EnrolInv'
<1>1. UNCHANGED <<batch, enrolAt, i, bad, outcome>>
  BY ZenonT(30) DEF Enrol!Mined, Enrol!Mine, Enrol!StrangerRegisters, Enrol!inputs, Enrol!local
<1>2. PICK v \in Enrol!Everyone, k \in Keys, s \in Seats :
        /\ Enrol!Register(v, k, s)
        /\ Enrol!Disjoint => \A j \in 1..BatchSize : v # batch[j].validator \/ k = batch[j].key
  <2>1. CASE Enrol!Mined
    <3>1. PICK m \in 1..BatchSize :
            Enrol!Register(batch[m].validator, batch[m].key, batch[m].slot)
      BY ZenonT(30), <2>1, BatchLength DEF Enrol!Mined, Enrol!Mine, EnrolInv
    <3>2. /\ batch[m].validator \in Enrol!Everyone
          /\ batch[m].key \in Keys /\ batch[m].slot \in Seats
      BY ZenonT(30) DEF EnrolInv, Enrol!NodeFiles, Enrol!Everyone
    <3>3. ASSUME Enrol!Disjoint, NEW j \in 1..BatchSize
          PROVE  batch[m].validator # batch[j].validator \/ batch[m].key = batch[j].key
      BY ZenonT(30), <3>3, BatchLength DEF Enrol!Disjoint, EnrolInv
    <3> QED
      BY ZenonT(30), <3>1, <3>2, <3>3
  <2>2. CASE Enrol!StrangerRegisters
    <3>1. PICK k \in Keys, s \in Seats : Enrol!Register(Stranger, k, s)
      BY ZenonT(30), <2>2 DEF Enrol!StrangerRegisters
    <3>2. \A j \in 1..BatchSize : Stranger # batch[j].validator
      BY ZenonT(30) DEF EnrolInv, Enrol!NodeFiles, Enrol!EnrolConstants
    <3>3. Stranger \in Enrol!Everyone
      BY ZenonT(30) DEF Enrol!Everyone
    <3> QED
      BY SMTT(30), <3>1, <3>2, <3>3
  <2> QED
    BY ZenonT(30), <2>1, <2>2
<1>3. /\ seat' \in [Enrol!Everyone -> Seats \union {0}]
      /\ key' \in [Enrol!Everyone -> Keys \union {Enrol!None}]
      /\ Enrol!Disjoint => \A j \in 1..BatchSize : Holds(j) => Holds(j)'
  BY ZenonT(30), <1>1, <1>2, RegisterKeeps
<1>4. Enrol!Disjoint' <=> Enrol!Disjoint
  BY <1>1 DEF Enrol!Disjoint, Enrol!Files
<1> QED
  BY ZenonT(30), <1>1, <1>3, <1>4 DEF EnrolInv

(* Every step of the script, of the chain and of a stranger keeps it.      *)
LEMMA NextEnrol ==
  ASSUME Enrol!EnrolConstants
  PROVE  EnrolInv /\ [Enrol!Next]_(Enrol!vars) => EnrolInv'
<1> SUFFICES ASSUME EnrolInv, [Enrol!Next]_(Enrol!vars)
             PROVE  EnrolInv'
  BY Zenon
<1>1. CASE Enrol!Mined \/ Enrol!StrangerRegisters
  BY ZenonT(30), <1>1, RegisteredKeeps
<1>2. CASE \/ \E m \in {"broadcast", "dry", "export"} : Enrol!Start(m)
           \/ Enrol!Script \/ Enrol!Dies \/ UNCHANGED Enrol!vars
  <2>1. UNCHANGED <<batch, seat, key>>
    BY ZenonT(30), <1>2
    DEF Enrol!Start, Enrol!Script, Enrol!Dies, Enrol!vars, Enrol!Preflight, Enrol!GateFile,
         Enrol!GateBatch, Enrol!Send, Enrol!Wait, Enrol!AllSent, Enrol!Verify, Enrol!Verified,
         Enrol!inputs, Enrol!chain
  <2>2. (Enrol!Disjoint' <=> Enrol!Disjoint) /\ \A j : Holds(j)' <=> Holds(j)
    BY ZenonT(30), <2>1 DEF Enrol!Disjoint, Enrol!Files, Holds
  <2>3. /\ batch' \in [1..BatchSize -> Enrol!NodeFiles]
        /\ seat' \in [Enrol!Everyone -> Seats \union {0}]
        /\ key' \in [Enrol!Everyone -> Keys \union {Enrol!None}]
    BY Zenon, <2>1 DEF EnrolInv
  <2>4. Enrol!Files = 1..BatchSize
    BY ZenonT(30), BatchLength DEF EnrolInv
  <2> USE <2>2, <2>3 DEF EnrolInv, Enrol!End, Enrol!Goto, Enrol!NextFile
  <2>5. CASE \E m \in {"broadcast", "dry", "export"} : Enrol!Start(m)
    BY ZenonT(30), <2>5 DEF Enrol!Start, Enrol!None
  <2>6. CASE Enrol!Preflight \/ Enrol!GateFile \/ Enrol!Send \/ Enrol!Wait
    BY <2>6 DEF Enrol!Preflight, Enrol!GateFile, Enrol!Send, Enrol!Wait, Enrol!None
  <2>7. CASE Enrol!GateBatch
    BY SMTT(30), <2>7 DEF Enrol!GateBatch
  <2>8. CASE Enrol!AllSent
    BY SMTT(30), <2>8 DEF Enrol!AllSent
  <2>9. CASE Enrol!Verify
    <3>1. ASSUME bad' = 0, NEW j \in 1..BatchSize, j < i'
          PROVE  Holds(j)
      <4>1. bad = 0 /\ Enrol!ReadsBack(batch[i])
        BY SMTT(30), <2>9, <3>1 DEF Enrol!Verify
      <4>2. batch[i].validator \in Enrol!validatorAtSlot(batch[i].slot) /\ Holds(i)
        BY ZenonT(30), <4>1 DEF Enrol!ReadsBack, Enrol!validatorAtSlot, Holds
      <4>3. j < i \/ j = i
        BY SMTT(30), <2>9, <3>1 DEF Enrol!Verify
      <4> QED
        BY ZenonT(30), <2>9, <4>1, <4>2, <4>3 DEF Enrol!Verify
    <3> QED
      BY SMTT(30), <2>9, <3>1 DEF Enrol!Verify
  <2>10. CASE Enrol!Verified
    <3>1. bad = 0 => \A j \in 1..BatchSize : Holds(j)
      BY SMTT(30), <2>4, <2>10 DEF Enrol!Verified, Enrol!EnrolConstants
    <3> QED
      BY SMTT(30), <2>10, <3>1 DEF Enrol!Verified
  <2>11. CASE Enrol!Dies
    BY SMTT(30), <2>11 DEF Enrol!Dies
  <2>12. CASE UNCHANGED Enrol!vars
    BY ZenonT(30), <2>12 DEF Enrol!vars, Enrol!local
  <2> QED
    BY ZenonT(30), <1>2, <2>5, <2>6, <2>7, <2>8, <2>9, <2>10, <2>11, <2>12 DEF Enrol!Script
<1> QED
  BY ZenonT(30), <1>1, <1>2 DEF Enrol!Next

(* Cardinalities are the same inside the instance.                         *)
LEMMA EnrolFinite ==
  ASSUME NEW S
  PROVE  Enrol!Cardinality(S) = Cardinality(S)
BY ZenonT(30) DEF Cardinality, Enrol!Cardinality

(* A disjoint batch whose files are all held seats as many guardians as it *)
(* has files.                                                              *)
LEMMA HeldAreSeated ==
  ASSUME Enrol!EnrolConstants, batch \in [1..BatchSize -> Enrol!NodeFiles], Enrol!Disjoint,
         \A j \in 1..BatchSize : Holds(j)
  PROVE  Enrol!Cardinality(Enrol!Seated) = Len(batch)
<1> DEFINE f == [j \in 1..BatchSize |-> batch[j].validator]
<1>1. Len(batch) = BatchSize /\ Enrol!Files = 1..BatchSize /\ BatchSize \in Nat
  BY ZenonT(30), BatchLength DEF Enrol!EnrolConstants
<1>2. f \in [1..BatchSize -> Enrol!Seated]
  BY ZenonT(30), <1>1 DEF Enrol!Seated, Holds, Enrol!NodeFiles
<1>3. \A j, k \in 1..BatchSize : f[j] = f[k] => j = k
  BY ZenonT(30), <1>1 DEF Enrol!Disjoint
<1>4. \A v \in Enrol!Seated : \E j \in 1..BatchSize : f[j] = v
  BY <1>1 DEF Enrol!Seated
<1>5. f \in Bijection(1..BatchSize, Enrol!Seated)
  <2> HIDE DEF f
  <2> QED
    BY ZenonT(30), <1>2, <1>3, <1>4, Fun_IsBij
<1>6. Cardinality(Enrol!Seated) = Cardinality(1..BatchSize)
  BY <1>1, <1>5, FS_Interval, FS_Bijection DEF ExistsBijection
<1> QED
  BY SMTT(30), <1>1, <1>6, FS_Interval, EnrolFinite

(* It holds before the first run, whoever sits where.                      *)
LEMMA InitEnrol == Enrol!Init => EnrolInv
<1> SUFFICES ASSUME Enrol!Init
             PROVE  EnrolInv
  BY ZenonT(30)
<1>1. seat \in [Enrol!Everyone -> Seats \union {0}] /\ key \in [Enrol!Everyone -> Keys \union {Enrol!None}]
  BY DEF Enrol!Init
<1> QED
  BY <1>1 DEF Enrol!Init, EnrolInv, Enrol!None

(* "All slots verified" is true for every batch, every set of validators,  *)
(* seats and keys, and every interleaving with a stranger's registrations, *)
(* late transactions of an earlier run and failed calls.                   *)
THEOREM VerifiedAreSeatedHolds == Enrol!EnrolSpec => []VerifiedAreSeated
<1>0. Enrol!EnrolConstants
  BY ZenonT(30), OperationsAssumption
<1>1. EnrolInv => VerifiedAreSeated
  BY ZenonT(30), <1>0, HeldAreSeated DEF EnrolInv, VerifiedAreSeated, Enrol!VerifiedAreSeated
<1>2. EnrolInv /\ [Enrol!Next]_(Enrol!vars) => EnrolInv'
  BY Zenon, <1>0, NextEnrol
<1> QED
  BY <1>1, <1>2, InitEnrol, PTL DEF Enrol!EnrolSpec

-----------------------------------------------------------------------------
(* AAStarCommitteeValidator's committee arithmetic, for every pool size    *)
(* and every oversampling that setOversample accepts                       *)

CurveTypeOK == pool \in 0..MaxPool /\ oversample \in Oversamples

(* Pool size and oversampling ratio stay within the ranges considered.     *)
LEMMA CurveTypes == MathSpec => []CurveTypeOK
<1>1. MathInit => CurveTypeOK
  BY CurveAssumption DEF MathInit, CurveTypeOK
<1>2. CurveTypeOK /\ [MathNext]_mathVars => CurveTypeOK'
  BY SMTT(30), CurveAssumption, MathAssumption
     DEF CurveTypeOK, MathNext, mathVars, Grow, ChangeOversample
<1> QED
  BY <1>1, <1>2, PTL DEF MathSpec

(* The expected committee is part of the pool, and never empties it.       *)
LEMMA CommitteeWithinPool ==
  ASSUME NEW n \in Nat
  PROVE  /\ expectedCommittee(n) \in Nat
         /\ expectedCommittee(n) <= n
         /\ expectedCommittee(n) <= 86
         /\ n >= 1 => expectedCommittee(n) >= 1
BY DEF expectedCommittee

(* _quorumOf never asks for more than the committee it is computed from.   *)
LEMMA QuorumWithinCommittee ==
  ASSUME NEW m \in Nat
  PROVE  /\ quorumOf(m) \in Nat
         /\ quorumOf(m) <= m
         /\ m <= 86 => quorumOf(m) <= 58
         /\ m >= 1 => quorumOf(m) >= 1
BY DEF quorumOf

(* Rounding up num * m / den gives at least m when num >= den.             *)
LEMMA TargetAtLeast ==
  ASSUME NEW m \in Nat, NEW over \in Nat \X (Nat \ {0}), over[2] <= over[1]
  PROVE  drawTarget(m, over) \in Nat /\ m <= drawTarget(m, over)
<1> DEFINE num == over[1]
           den == over[2]
           b   == num * m + den - 1
<1>1. num \in Nat /\ den \in Nat \ {0} /\ den <= num
  BY ZenonT(30)
<1>2. drawTarget(m, over) = b \div den
  BY Zenon DEF drawTarget
<1> HIDE DEF num, den
<1>3. num * m \in Nat /\ den * m <= num * m
  BY <1>1
<1>4. b \in Nat /\ den * m <= b
  BY <1>1, <1>3
<1> HIDE DEF b
<1>5. b \div den \in Nat /\ b < (b \div den) * den + den
  BY <1>1, <1>4
<1>6. m < (b \div den) + 1
  BY <1>1, <1>4, <1>5
<1> QED
  BY SMTT(30), <1>2, <1>5, <1>6

(* The quorum of any non-empty pool is between one signer and the smaller of*)
(* the pool and the number of signers one validate() parses.               *)
THEOREM QuorumReachableHolds == MathSpec => []QuorumReachable
<1>1. CurveTypeOK => QuorumReachable
  <2> SUFFICES ASSUME CurveTypeOK, pool >= 1
               PROVE  /\ 1 <= Quorum(pool)
                      /\ Quorum(pool) <= pool
                      /\ Quorum(pool) <= MAX_SIGNERS
    BY ZenonT(30) DEF QuorumReachable
  <2> DEFINE m == expectedCommittee(pool)
  <2>1. pool \in Nat
    BY CurveAssumption, MathAssumption DEF CurveTypeOK
  <2>2. m \in Nat /\ m <= pool /\ m <= 86 /\ m >= 1
    BY ZenonT(30), <2>1, CommitteeWithinPool
  <2> HIDE DEF m
  <2>3. /\ quorumOf(m) \in Nat /\ quorumOf(m) <= m
        /\ quorumOf(m) <= 58 /\ quorumOf(m) >= 1
    BY ZenonT(30), <2>2, QuorumWithinCommittee
  <2>4. Quorum(pool) = quorumOf(m)
    BY ZenonT(30) DEF Quorum, m
  <2> QED
    BY SMTT(30), <2>1, <2>2, <2>3, <2>4, CurveAssumption
<1> QED
  BY <1>1, CurveTypes, PTL

(* A growing pool never lowers the quorum.                                 *)
THEOREM QuorumMonotoneHolds == MathSpec => []QuorumMonotone
<1>1. CurveTypeOK => QuorumMonotone
  <2> SUFFICES ASSUME CurveTypeOK
               PROVE  Quorum(pool) <= Quorum(pool + 1)
    BY ZenonT(30) DEF QuorumMonotone
  <2>1. pool \in Nat
    BY SMTT(30), CurveAssumption, MathAssumption DEF CurveTypeOK
  <2>2. expectedCommittee(pool) <= expectedCommittee(pool + 1)
    BY <2>1 DEF expectedCommittee
  <2>3. /\ expectedCommittee(pool) \in Nat
        /\ expectedCommittee(pool + 1) \in Nat
    BY SMTT(30), <2>1, CommitteeWithinPool
  <2> QED
    BY <2>2, <2>3 DEF Quorum, quorumOf
<1> QED
  BY <1>1, CurveTypes, PTL

(* The draw aims at a quorum at least, and its threshold neither overflows nor*)
(* collides with the sentinel for the whole pool.                          *)
THEOREM DrawCoversQuorumHolds == MathSpec => []DrawCoversQuorum
<1>1. CurveTypeOK => DrawCoversQuorum
  <2> DEFINE m == expectedCommittee(pool)
             g == drawTarget(m, oversample)
             t == thresholdOf(pool, m, oversample)
  <2> SUFFICES ASSUME CurveTypeOK, pool >= 1
               PROVE  /\ Quorum(pool) <= g
                      /\ 0 < t /\ t <= MAX_UINT
                      /\ t = MAX_UINT <=> g >= pool
    BY Zenon DEF DrawCoversQuorum
  <2>1. pool \in Nat /\ pool >= 1 /\ pool <= MAX_UINT /\ MAX_UINT \in Nat
    BY CurveAssumption, MathAssumption DEF CurveTypeOK
  <2>2. m \in Nat /\ m >= 1
    BY ZenonT(30), <2>1, CommitteeWithinPool
  <2>3. Quorum(pool) = quorumOf(m) /\ quorumOf(m) \in Nat /\ quorumOf(m) <= m
    BY ZenonT(30), <2>2, QuorumWithinCommittee DEF Quorum
  <2>4. t = IF g >= pool THEN MAX_UINT ELSE (MAX_UINT \div pool) * g
    BY <2>1 DEF thresholdOf
  <2> HIDE DEF m, t
  <2>5. g \in Nat /\ m <= g
    BY ZenonT(30), <2>2, TargetAtLeast, CurveAssumption DEF CurveTypeOK
  <2> HIDE DEF g
  <2>6. CASE g >= pool
    BY SMTT(30), <2>1, <2>2, <2>3, <2>4, <2>5, <2>6
  <2>7. CASE g < pool
    <3> DEFINE q == MAX_UINT \div pool
    <3>1. q \in Nat /\ q >= 1 /\ q * pool <= MAX_UINT
      BY <2>1
    <3> HIDE DEF q
    <3>2. 1 <= q * g /\ q * g < q * pool
      BY SMTT(30), <2>1, <2>2, <2>5, <2>7, <3>1
    <3>3. t = q * g
      BY SMTT(30), <2>1, <2>4, <2>5, <2>7 DEF q
    <3>4. q * g \in Nat /\ q * pool \in Nat
      BY <2>1, <2>5, <3>1
    <3> QED
      BY SMTT(30), <2>1, <2>2, <2>3, <2>5, <2>7, <3>1, <3>2, <3>3, <3>4
  <2> QED
    BY SMTT(30), <2>1, <2>5, <2>6, <2>7
<1> QED
  BY <1>1, CurveTypes, PTL

(* The committee curve is sound at every pool size and oversampling: the three*)
(* facts together, as the runs check them.                                 *)
THEOREM CurveSoundHolds == MathSpec => []CurveSound
<1>1. QuorumReachable /\ QuorumMonotone /\ DrawCoversQuorum => CurveSound
  BY Zenon DEF CurveSound
<1> QED
  BY <1>1, QuorumReachableHolds, QuorumMonotoneHolds, DrawCoversQuorumHolds, PTL
================================================================================
