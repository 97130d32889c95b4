----------------------------- MODULE NodeIdentity -----------------------------
(***************************************************************************)
(* One node's identity: node_state.json and its in-memory copy             *)
(* (node.service.ts), the dashboard calls that create, import, delete and  *)
(* register it (dashboard.service.ts), and the self-check that compares the *)
(* signing key, the stated key and the registered key                      *)
(* (node-key-consistency.service.ts).                                      *)
(*                                                                         *)
(* Every await is a point where the other calls, the self-check's loop and *)
(* the chain may take steps; a call in flight is a record of `jobs`, an    *)
(* attempt of the self-check one of `attempts`.                            *)
(***************************************************************************)
EXTENDS Integers, Sequences, FiniteSets

CONSTANTS
  NoKey,              \* no key
  Ids, Keys,          \* node ids and keys
  Created,            \* the states createNode and importNode may write
  OnDisk,             \* the files the node may be started over
  SignerModes,        \* of "none", "optional", "required": RUST_SIGNER_URL and _REQUIRED
  Passphrase,         \* NODE_KEY_PASSPHRASE is set, and right
  MaxBlocks,          \* bound on the blocks mined
  MaxJobs,            \* bound on the dashboard calls
  MaxBoots,           \* bound on the starts of the process
  MaxFaults           \* bound on the reads that fail, lag or throw

(* NodeState (node.interface.ts): what createNode and importNode write.     *)
IsState(s) ==
  s = [id |-> s.id, keystore |-> s.keystore, privateKey |-> s.privateKey,
       publicKey |-> s.publicKey, registeredAt |-> s.registeredAt]
ASSUME IdentityAssumption == \A s \in Created \union OnDisk : IsState(s)

VARIABLES
  chain,        \* block -> node id -> the registered key (registeredKeys, isRegistered)
  mempool,      \* registrations broadcast: pending, mined or reverted
  file,         \* node_state.json: a set of at most one state
  nodeState,    \* NodeService.nodeState, likewise
  up,           \* the process runs
  mode,         \* the signer mode it was started with
  jobs,         \* dashboard calls in flight
  calls,        \* dashboard calls made
  generation,   \* the self-check's generation token
  stopped,      \* the self-check is stopped
  timer,        \* the armed timer, as a set of at most one loop
  attempts,     \* the attempts in flight
  lastResult,   \* the held result, as a set of at most one
  boots, faults

world == <<chain, mempool>>
check == <<generation, stopped, timer, attempts, lastResult>>
identityVars  == <<world, file, nodeState, up, mode, jobs, calls, check, boots, faults>>

head == Len(chain)

(* checkNodeRegistration and getNodePublicKey, at the block b.             *)
Registered(id, b) == chain[b][id] # NoKey
NodePublicKey(id, b) == chain[b][id]

-----------------------------------------------------------------------------
(* resolvePrivateKey: a keystore is decrypted, a state without a key is    *)
(* only good for a required remote signer; anything else refuses to load.  *)
Loadable(s, m) ==
  \/ s.keystore # NoKey /\ Passphrase
  \/ s.keystore = NoKey /\ s.privateKey # NoKey
  \/ s.keystore = NoKey /\ s.privateKey = NoKey /\ m = "required" /\ s.publicKey # NoKey
Resolved(s) == IF s.keystore = NoKey THEN s ELSE [s EXCEPT !.privateKey = s.keystore]

(* saveNodeState: a decrypted key is never written back.                   *)
Saved(s) == IF s.keystore = NoKey THEN s ELSE [s EXCEPT !.privateKey = NoKey]

(* resolveSigningPublicKey: which key will sign.                           *)
SigningSource(s) ==
  IF mode = "none"
  THEN IF s.privateKey = NoKey THEN "no_signer" ELSE "local"
  ELSE IF mode = "optional" /\ s.privateKey # NoKey THEN "local_fallback" ELSE "remote"

(* parsePublicKeyPoint: a point of the curve other than infinity.          *)
ParsesToPoint(k) == k \in Keys

(* checkLocal: a key held here, against the key the state declares.        *)
CheckLocal(s) ==
  CASE SigningSource(s) = "no_signer" -> "skipped_no_private_key"
    [] SigningSource(s) = "remote" -> "skipped_remote_signer"
    [] OTHER -> IF ParsesToPoint(s.publicKey) /\ s.privateKey = s.publicKey THEN "ok" ELSE "mismatch"

Combine(local, onchain) ==
  CASE local = "mismatch" -> "mismatch_local"
    [] local # "mismatch" /\ onchain = "mismatch" -> "mismatch_onchain"
    [] local # "mismatch" /\ onchain \in {"not_registered", "unknown"} -> onchain
    [] OTHER -> local

-----------------------------------------------------------------------------
(* start and stop of the self-check.  start stops the old loop, and both   *)
(* move the generation on.                                                 *)
Start(s) ==
  /\ generation' = generation + 2
  /\ stopped' = FALSE
  /\ timer' = {}
  /\ lastResult' = {}
  /\ attempts' = attempts \union {[state |-> s, gen |-> generation + 2, at |-> "head", block |-> 0]}

(* A mutated form of StopAndClear that leaves the generation alone.        *)
StopKeepsGeneration ==
  /\ stopped' = TRUE
  /\ timer' = {}
  /\ lastResult' = {}
  /\ UNCHANGED <<attempts, generation>>

StopAndClear ==
  /\ generation' = generation + 1
  /\ stopped' = TRUE
  /\ timer' = {}
  /\ lastResult' = {}
  /\ UNCHANGED attempts

(* reloadNodeState over the new content f of the file; a file that does    *)
(* not load throws, and leaves the memory as it was.                       *)
Reload(f) ==
  IF f = {} THEN nodeState' = {} /\ StopAndClear
  ELSE \E s \in f :
    IF Loadable(s, mode) THEN nodeState' = {Resolved(s)} /\ Start(Resolved(s))
    ELSE UNCHANGED <<nodeState, check>>

IsStaleOrStopped(a) == stopped \/ a.gen # generation

(* loop, once an attempt ends: the timer is armed unless it is stale.      *)
Schedule(a) ==
  /\ attempts' = attempts \ {a}
  /\ timer' = IF IsStaleOrStopped(a) THEN timer ELSE {[state |-> a.state, gen |-> a.gen]}

(* check: merging the attempt's on-chain outcome into the held result.     *)
Publish(a, onchain) ==
  LET status == Combine(CheckLocal(a.state), onchain) IN
  /\ lastResult' =
       IF a.gen # generation THEN lastResult
       ELSE IF status = "unknown" /\ \E r \in lastResult : r.status # "unknown"
       THEN {[r EXCEPT !.checkerError = FALSE] : r \in lastResult}
       ELSE {[status |-> status, id |-> a.state.id, key |-> a.state.publicKey, checkerError |-> FALSE]}
  /\ Schedule(a)
  /\ UNCHANGED <<generation, stopped>>

(* An attempt: the head, isRegistered and registeredKeys pinned to it.     *)
(* A lagging endpoint may answer with an older head.                       *)
ReadHead(a) ==
  /\ a.at = "head"
  /\ \E b \in 1..head :
       /\ b < head => faults < MaxFaults
       /\ faults' = IF b < head THEN faults + 1 ELSE faults
       /\ attempts' = (attempts \ {a}) \union
            {[state |-> a.state, gen |-> a.gen, at |-> "registered", block |-> b]}
  /\ UNCHANGED <<generation, stopped, timer, lastResult>>

ReadRegistered(a) ==
  /\ a.at = "registered"
  /\ IF ~Registered(a.state.id, a.block) THEN Publish(a, "not_registered")
     ELSE IF ~ParsesToPoint(a.state.publicKey) THEN Publish(a, "unknown")
     ELSE /\ attempts' = (attempts \ {a}) \union {[a EXCEPT !.at = "key"]}
          /\ UNCHANGED <<generation, stopped, timer, lastResult>>
  /\ UNCHANGED faults

ReadKey(a) ==
  LET k == NodePublicKey(a.state.id, a.block) IN
  /\ a.at = "key"
  /\ Publish(a, IF k = NoKey THEN "not_registered" ELSE IF k = a.state.publicKey THEN "ok" ELSE "mismatch")
  /\ UNCHANGED faults

(* Any read of checkOnchain throws.                                        *)
ReadFails(a) ==
  /\ faults < MaxFaults
  /\ faults' = faults + 1
  /\ Publish(a, "unknown")

(* check itself throws: recordCheckerError, unless the attempt is stale.   *)
CheckThrows(a) ==
  /\ faults < MaxFaults
  /\ faults' = faults + 1
  /\ lastResult' =
       IF IsStaleOrStopped(a) THEN lastResult
       ELSE IF lastResult = {}
       THEN {[status |-> "unknown", id |-> a.state.id, key |-> a.state.publicKey, checkerError |-> TRUE]}
       ELSE {[r EXCEPT !.checkerError = TRUE] : r \in lastResult}
  /\ Schedule(a)
  /\ UNCHANGED <<generation, stopped>>

TimerFires ==
  /\ timer' = {}
  /\ \E t \in timer :
       attempts' = attempts \union {[state |-> t.state, gen |-> t.gen, at |-> "head", block |-> 0]}
  /\ UNCHANGED <<generation, stopped, lastResult, faults>>

Attempt ==
  /\ \/ \E a \in attempts : ReadHead(a) \/ ReadRegistered(a) \/ ReadKey(a)
     \/ TimerFires
  /\ UNCHANGED <<world, file, nodeState, up, mode, jobs, calls, boots>>
AttemptFails ==
  /\ \E a \in attempts : ReadFails(a) \/ CheckThrows(a)
  /\ UNCHANGED <<world, file, nodeState, up, mode, jobs, calls, boots>>

-----------------------------------------------------------------------------
(* The dashboard's calls.  createNode and importNode refuse while a file   *)
(* exists; createNode then awaits an import before it writes.              *)
Call(op, s) ==
  /\ up /\ calls < MaxJobs
  /\ calls' = calls + 1
  /\ jobs' = jobs \union {[op |-> op, state |-> s, call |-> calls]}

CreateNode(s) ==
  /\ file = {}
  /\ Call("create", s)
  /\ UNCHANGED <<world, file, nodeState, up, mode, check, boots, faults>>

WriteCreated(j) ==
  /\ j.op = "create"
  /\ file' = {j.state}
  /\ Reload(file')
  /\ jobs' = jobs \ {j}
  /\ UNCHANGED <<world, up, mode, calls, boots, faults>>

ImportNode(s) ==
  /\ file = {} /\ up /\ calls < MaxJobs
  /\ calls' = calls + 1
  /\ file' = {s}
  /\ Reload(file')
  /\ UNCHANGED <<world, up, mode, jobs, boots, faults>>

(* deleteCurrentNode: a node that is not registered, as read before the    *)
(* awaits, has its file removed, whatever the file holds by then.          *)
DeleteCurrentNode ==
  /\ \E s \in nodeState : ~Registered(s.id, head) /\ Call("delete", s)
  /\ UNCHANGED <<world, file, nodeState, up, mode, check, boots, faults>>

RemoveFile(j) ==
  /\ j.op = "delete"
  /\ jobs' = jobs \ {j}
  /\ IF file = {} THEN UNCHANGED <<file, nodeState, check>>
     ELSE file' = {} /\ Reload({})
  /\ UNCHANGED <<world, up, mode, calls, boots, faults>>

(* The end of registerOnChain: the registration time is stamped on, and    *)
(* saved with, whatever state is loaded by then; with none it throws.      *)
Stamp ==
  IF nodeState = {} THEN UNCHANGED <<file, nodeState>>
  ELSE /\ nodeState' = {[s EXCEPT !.registeredAt = TRUE] : s \in nodeState}
       /\ file' = {Saved(s) : s \in nodeState'}

(* registerOnChain: the first answer; then registerNodeOnChain, for the    *)
(* node loaded at that moment, asks again and broadcasts; then the receipt.*)
RegisterOnChain ==
  /\ \E s \in nodeState : Call("register", s)
  /\ UNCHANGED <<world, file, nodeState, up, mode, check, boots, faults>>

SigningKey(s) == IF s.privateKey # NoKey THEN s.privateKey ELSE s.publicKey

AnswerRegistered(j) ==
  /\ j.op = "register"
  /\ IF Registered(j.state.id, head) THEN Stamp /\ jobs' = jobs \ {j}
     ELSE /\ UNCHANGED <<file, nodeState>>
          /\ jobs' = (jobs \ {j}) \union
               {[op |-> "send", state |-> s, call |-> j.call] : s \in {t \in nodeState : SigningKey(t) \in Keys}}
  /\ UNCHANGED <<world, up, mode, calls, check, boots, faults>>

RegisterNodeOnChain(j) ==
  /\ j.op = "send"
  /\ IF Registered(j.state.id, head) THEN Stamp /\ jobs' = jobs \ {j} /\ UNCHANGED mempool
     ELSE /\ jobs' = (jobs \ {j}) \union {[j EXCEPT !.op = "wait"]}
          /\ mempool' = mempool \union {[call |-> j.call, id |-> j.state.id, key |-> SigningKey(j.state),
                                        status |-> "pending"]}
          /\ UNCHANGED <<file, nodeState>>
  /\ UNCHANGED <<chain, up, mode, calls, check, boots, faults>>

Receipt(j) ==
  /\ j.op = "wait"
  /\ \E t \in mempool :
       /\ t.call = j.call /\ t.status # "pending"
       /\ IF t.status = "mined" THEN Stamp ELSE UNCHANGED <<file, nodeState>>
  /\ jobs' = jobs \ {j}
  /\ UNCHANGED <<world, up, mode, calls, check, boots, faults>>

RegistrationFails(j) ==
  /\ j.op \in {"register", "send", "wait"} /\ faults < MaxFaults
  /\ faults' = faults + 1
  /\ jobs' = jobs \ {j}
  /\ UNCHANGED <<world, file, nodeState, up, mode, calls, check, boots>>

Job == \E j \in jobs :
  \/ WriteCreated(j) \/ RemoveFile(j)
  \/ AnswerRegistered(j) \/ RegisterNodeOnChain(j) \/ Receipt(j)

-----------------------------------------------------------------------------
(* initializeNode over the file; a file that does not load stops the start.*)
Boot ==
  /\ ~up /\ boots < MaxBoots
  /\ boots' = boots + 1
  /\ mode' \in SignerModes
  /\ \A s \in file : Loadable(s, mode')
  /\ up' = TRUE
  /\ nodeState' = {Resolved(s) : s \in file}
  /\ IF file = {} THEN UNCHANGED check ELSE \E s \in nodeState' : Start(s)
  /\ UNCHANGED <<world, file, jobs, calls, faults>>

(* The process ends, with everything it held in memory.                    *)
Crash ==
  /\ up /\ boots < MaxBoots
  /\ up' = FALSE /\ nodeState' = {} /\ jobs' = {}
  /\ generation' = 0 /\ stopped' = TRUE /\ timer' = {} /\ attempts' = {} /\ lastResult' = {}
  /\ UNCHANGED <<world, file, mode, calls, boots, faults>>

(* A block: a pending registration, or anyone else's change of the entry   *)
(* (a revocation, syncNode, a registration under another key).             *)
Mine ==
  /\ head < MaxBlocks
  /\ \/ \E t \in mempool :
          /\ t.status = "pending"
          /\ chain' = Append(chain, IF Registered(t.id, head) THEN chain[head]
                                    ELSE [chain[head] EXCEPT ![t.id] = t.key])
          /\ mempool' = (mempool \ {t}) \union
               {[t EXCEPT !.status = IF Registered(t.id, head) THEN "reverted" ELSE "mined"]}
     \/ /\ \E id \in Ids, k \in Keys \union {NoKey} : chain' = Append(chain, [chain[head] EXCEPT ![id] = k])
        /\ UNCHANGED mempool
  /\ UNCHANGED <<file, nodeState, up, mode, jobs, calls, check, boots, faults>>

IdentityInit ==
  /\ chain \in [{1} -> [Ids -> Keys \union {NoKey}]]
  /\ file \in {{}} \union {{s} : s \in OnDisk}
  /\ mempool = {} /\ nodeState = {} /\ up = FALSE /\ mode = "none" /\ jobs = {} /\ calls = 0
  /\ generation = 0 /\ stopped = TRUE /\ timer = {} /\ attempts = {} /\ lastResult = {}
  /\ boots = 0 /\ faults = 0

IdentityNext ==
  \/ Attempt \/ AttemptFails \/ Job
  \/ \E s \in Created : CreateNode(s) \/ ImportNode(s)
  \/ DeleteCurrentNode \/ RegisterOnChain
  \/ \E j \in jobs : RegistrationFails(j)
  \/ Boot \/ Crash \/ Mine

IdentitySpec == IdentityInit /\ [][IdentityNext]_identityVars
IdentityFairSpec == IdentitySpec /\ WF_identityVars(Attempt) /\ WF_identityVars(Job) /\ WF_identityVars(Boot)

-----------------------------------------------------------------------------
(* The held result is about the node the process runs: a result of an      *)
(* identity that was deleted or replaced is never shown, however late its  *)
(* reads return (loop, check and reloadNodeState).                         *)
PublishedForCurrent ==
  \A r \in lastResult : \E s \in nodeState : r.id = s.id /\ r.key = s.publicKey

(* What the result says of the chain was true at one block, never a mix of *)
(* two of them (checkOnchain).                                             *)
ResultWasTrue ==
  \A r \in lastResult : \E b \in 1..head :
    LET k == chain[b][r.id] IN
    /\ r.status = "mismatch_onchain" => k \notin {NoKey, r.key}
    /\ r.status = "not_registered" => k = NoKey
    /\ r.status = "ok" => k = r.key

(* Once the chain and the identity stop changing, the result says what is  *)
(* on the chain, whatever reads failed and whatever threw before (loop).   *)
Settled(s) ==
  LET k == chain[head][s.id] IN
  \E r \in lastResult :
    /\ r.id = s.id
    /\ s.publicKey \in Keys =>
         r.status = Combine(CheckLocal(s), IF k = NoKey THEN "not_registered"
                                           ELSE IF k = s.publicKey THEN "ok" ELSE "mismatch")
SelfCheckConverges == <>[](\A s \in nodeState : Settled(s))

(* dashboard.service.ts:238 says of deleteCurrentNode "Only allowed if the *)
(* node is not registered on-chain".                                       *)
DeletedOnlyUnregistered ==
  [][\A s \in file : file' = {} => ~Registered(s.id, head)]_identityVars

(* What the self-check publishes is about the running identity and was     *)
(* true of it at one block.                                                *)
PublishedIsTrue == PublishedForCurrent /\ ResultWasTrue
===============================================================================
