--------------------------- MODULE GuardianWatcher ---------------------------
(***************************************************************************)
(* The guardian-slash watcher (guardian-slash-watcher.service.ts) over its *)
(* disk store (guardian-signer-store.ts): it scans finalized blocks for    *)
(* SlashExecuted logs and keeps, for every one of them, the signer set a   *)
(* fraud proof will need, a quarantined record, or a dead letter.          *)
(*                                                                         *)
(* Every store write is a temporary file and a rename, so each is one step *)
(* and a crash falls between two of them.  The process may crash, be shut  *)
(* down and be restarted at any point; the RPC may fail, lag behind the    *)
(* chain and lose a transaction.                                           *)
(***************************************************************************)
EXTENDS FraudProof

CONSTANTS
  Logs,               \* the SlashExecuted logs of the chain
  LogBlock,           \* log -> the block of its execution
  LogProposal,        \* log -> its proposal
  LogTx,              \* log -> the transaction that emitted it: found, direct, committed, args
  SlotTables,         \* the assignments of validators to slots the aggregator may have
  Aggregator,         \* the deployed aggregator: [chainId, aggregator, registry]
  Configs,            \* the environments a node may be started with
  Sepolia,            \* SEPOLIA_CHAIN_ID
  FromBlock,          \* AUDIT_GUARDIAN_WATCH_FROM_BLOCK
  Finality,           \* AUDIT_FINALITY_CONFIRMATIONS
  LogChunk,           \* blocks per getLogs call
  MaxAttempts,        \* MAX_CAPTURE_ATTEMPTS
  MaxHead,            \* bound on the blocks mined
  MaxBoots,           \* bound on the starts of the process
  MaxFaults           \* bound on the reads and writes that fail or lag

ASSUME WatcherConstants ==
  /\ LogBlock \in [Logs -> Nat]
  /\ FromBlock \in Nat /\ Finality \in Nat /\ MaxHead \in Nat /\ MaxBoots \in Nat /\ MaxFaults \in Nat
  /\ LogChunk \in Nat \ {0} /\ MaxAttempts \in Nat \ {0}

(* The aggregator executes a proposal once, and evidence names one token   *)
(* at most (it is a hash); args.token is the one it names.                 *)
ASSUME SlashConstants ==
  /\ \A l \in Logs : LogTx[l].committed \in BOOLEAN
  /\ \A k, l \in Logs : LogProposal[k] = LogProposal[l] => k = l
  /\ \A k, l \in Logs :
       LET a == LogTx[l].args IN
       OverIssueEvidence(LogTx[k].args.token, a.operator, a.epoch) = a.evidence =>
         LogTx[k].args.token = a.token

VARIABLES
  head,          \* the chain's last block
  slotAt,        \* block -> the slot table in force there (validatorAtSlot)
  record,        \* proposal -> its stored record, or Thrown: verified and unverified files
  attempts,      \* log -> attempts of its dead letter, 0 when there is none
  cursor,        \* the cursor file; FromBlock - 1 stands for "absent"
  pc,            \* where the process is; "down" when it does not run
  domain,        \* the node's BLS-consensus domain, from its configuration
  stopping,      \* onApplicationShutdown ran
  queue,         \* the logs the current loop has left
  cur,           \* the dead letter being retried, as a set of at most one log
  safeHead,      \* the last finalized block the tick read
  boots,         \* starts of the process so far
  faults         \* reads and writes that failed or lagged so far

store == <<record, attempts, cursor>>
chain == <<head, slotAt>>
proc  == <<domain, stopping, boots, faults>>
vars  == <<chain, store, pc, proc, queue, cur, safeHead>>

Proposals == {LogProposal[l] : l \in Logs}

(* hasTerminal: a verified or a quarantined record is on disk.             *)
HasTerminal(p) == record[p].ok

(* A dead letter is parked, and no longer retried, at the attempt cap.     *)
Parked(l) == attempts[l] >= MaxAttempts

(* proposalSignersCommitment of the deployed aggregator, which sorts the   *)
(* signers of the mask by the slots in force when the slash executed; zero *)
(* for a proposal it recorded no commitment for.                           *)
Commitment(l) ==
  LET a == LogTx[l].args
      s == slotAt[LogBlock[l]]
  IN IF ~LogTx[l].committed THEN <<>> ELSE
     SignersCommitment(Aggregator, LogProposal[l],
       IF a.repUsers = <<>>
       THEN ExecuteSlashHash(Aggregator, LogProposal[l], a.operator, a.level, a.epoch, a.evidence)
       ELSE ReputationHash(Aggregator, LogProposal[l], a.repUsers, a.newScores, a.epoch),
       a.mask, Ascending({s[i] : i \in a.mask}))

-----------------------------------------------------------------------------
(* onApplicationBootstrap and bootstrapAndPoll: the checks before polling. *)
BootstrapOk(c) ==
  /\ c.aggregatorSet /\ c.registry # ZeroAddress /\ c.rpcUrl /\ c.intervalInRange
  /\ c.hasCode /\ c.probeOk
  /\ ChainPolicy(c.expectedChainId, c.chainId, Sepolia, c.fromEnv, TRUE)
  /\ AttestDomain([chainId |-> c.chainId, aggregator |-> Aggregator.aggregator,
                   registry |-> c.registry], Aggregator)

Boot(c) ==
  /\ pc = "down" /\ boots < MaxBoots
  /\ boots + 1 = MaxBoots => BootstrapOk(c)
  /\ boots' = boots + 1
  /\ domain' = [chainId |-> c.chainId, aggregator |-> Aggregator.aggregator,
                registry |-> c.registry]
  /\ pc' = IF BootstrapOk(c) THEN "idle" ELSE "disabled"
  /\ stopping' = FALSE
  /\ UNCHANGED <<chain, store, queue, cur, safeHead, faults>>

(* onApplicationShutdown: what is in flight goes on until it looks.        *)
Shutdown ==
  /\ pc # "down" /\ ~stopping /\ boots < MaxBoots
  /\ stopping' = TRUE
  /\ UNCHANGED <<chain, store, pc, domain, boots, faults, queue, cur, safeHead>>

(* The locals of a tick are gone when it ends.                             *)
Leave(next) == pc' = next /\ queue' = {} /\ cur' = {} /\ safeHead' = 0

(* The process dies, at any point.                                         *)
Crash ==
  /\ pc # "down" /\ boots < MaxBoots
  /\ Leave("down")
  /\ UNCHANGED <<chain, store, proc>>

(* The chain grows by a block; the validators' slots may be reassigned.    *)
Mine ==
  /\ head < MaxHead
  /\ head' = head + 1
  /\ \E t \in SlotTables : slotAt' = [slotAt EXCEPT ![head + 1] = t]
  /\ UNCHANGED <<store, pc, proc, queue, cur, safeHead>>

-----------------------------------------------------------------------------
(* captureOne and deadLetter, for the log l.                               *)

(* buildGuardianSignerRecord reading the slots in force now.               *)
BuiltAtHead(l) == BuildRecord(domain, LogProposal[l], LogTx[l], slotAt[head], Commitment(l))

(* buildGuardianSignerRecord at the log's block.                           *)
Built(l) == BuildRecord(domain, LogProposal[l], LogTx[l], slotAt[LogBlock[l]], Commitment(l))

(* putVerified or putUnverified                                            *)
PutRecord(l) ==
  LET r == Built(l) IN
  /\ r.ok
  /\ record' = [record EXCEPT ![LogProposal[l]] = r]
  /\ UNCHANGED <<attempts, cursor>>

(* The record could not be built, or could not be written: putFailure.     *)
DeadLetter(l) ==
  /\ attempts' = [attempts EXCEPT ![l] = @ + 1]
  /\ UNCHANGED <<record, cursor>>

-----------------------------------------------------------------------------
(* tick, one action per await that reads or writes the chain or the store. *)

(* The dead letters are never taken up again.                              *)
TickStartNoRetry ==
  /\ pc = "idle" /\ ~stopping
  /\ pc' = "retry"
  /\ queue' = {}
  /\ UNCHANGED <<chain, store, proc, cur, safeHead>>

TickStart ==
  /\ pc = "idle" /\ ~stopping
  /\ pc' = "retry"
  /\ queue' = {l \in Logs : attempts[l] > 0 /\ ~Parked(l)}
  /\ UNCHANGED <<chain, store, proc, cur, safeHead>>

(* retryFailures takes up one dead letter of the list.                     *)
RetryOne(l) ==
  /\ pc = "retry" /\ l \in queue
  /\ IF stopping
     THEN pc' = "head" /\ queue' = {} /\ UNCHANGED cur
     ELSE /\ cur' = {l}
          /\ queue' = queue \ {l}
          /\ pc' = IF HasTerminal(LogProposal[l]) THEN "clear" ELSE "recapture"
  /\ UNCHANGED <<chain, store, proc, safeHead>>

Recapture(l) ==
  /\ pc = "recapture" /\ l \in cur
  /\ \/ PutRecord(l) /\ pc' = "clear" /\ UNCHANGED cur
     \/ DeadLetter(l) /\ pc' = "retry" /\ cur' = {}
  /\ UNCHANGED <<chain, proc, queue, safeHead>>

(* removeFailure, once the proposal has a terminal record.                 *)
ClearDeadLetter(l) ==
  /\ pc = "clear" /\ l \in cur
  /\ attempts' = [attempts EXCEPT ![l] = 0]
  /\ pc' = "retry"
  /\ cur' = {}
  /\ UNCHANGED <<chain, record, cursor, proc, queue, safeHead>>

RetryDone ==
  /\ pc = "retry" /\ queue = {}
  /\ pc' = "head"
  /\ UNCHANGED <<chain, store, proc, queue, cur, safeHead>>

(* getBlockNumber, from an RPC that may lag, and readCursor.  The local    *)
(* "from" stays one past the cursor for the whole loop.                    *)
ReadHead ==
  /\ pc = "head"
  /\ \E h \in 0 .. head :
        /\ h < head => faults < MaxFaults
        /\ faults' = IF h < head THEN faults + 1 ELSE faults
        /\ IF h - Finality < FromBlock \/ cursor + 1 > h - Finality
           THEN Leave("idle")
           ELSE safeHead' = h - Finality /\ pc' = "scan" /\ UNCHANGED <<queue, cur>>
  /\ UNCHANGED <<chain, store, domain, stopping, boots>>

(* The last block of the chunk that starts after the cursor.               *)
ChunkEnd == IF cursor + LogChunk <= safeHead THEN cursor + LogChunk ELSE safeHead

(* The head of the chunk loop and scanRange's getLogs.                     *)
ScanRange ==
  /\ pc = "scan"
  /\ IF cursor + 1 <= safeHead /\ ~stopping
     THEN /\ queue' = {l \in Logs : LogBlock[l] \in cursor + 1 .. ChunkEnd}
          /\ pc' = "capture"
          /\ UNCHANGED <<cur, safeHead>>
     ELSE Leave("idle")
  /\ UNCHANGED <<chain, store, proc>>

(* scanRange, for one log of the chunk.                                    *)
CaptureNext(l) ==
  /\ pc = "capture" /\ l \in queue
  /\ IF stopping
     THEN Leave("idle") /\ UNCHANGED store
     ELSE /\ queue' = queue \ {l}
          /\ IF HasTerminal(LogProposal[l]) \/ attempts[l] > 0
             THEN UNCHANGED store
             ELSE PutRecord(l) \/ DeadLetter(l)
          /\ UNCHANGED <<pc, cur, safeHead>>
  /\ UNCHANGED <<chain, proc>>

(* The cursor moves although the loop was interrupted.                     *)
AdvanceInterrupted ==
  /\ pc = "capture" /\ (queue = {} \/ stopping)
  /\ cursor' = ChunkEnd
  /\ pc' = "scan"
  /\ queue' = {}
  /\ UNCHANGED <<chain, record, attempts, proc, cur, safeHead>>

(* The chunk is accounted for: writeCursor.                                *)
AdvanceCursor ==
  /\ pc = "capture" /\ queue = {}
  /\ cursor' = ChunkEnd
  /\ pc' = "scan"
  /\ UNCHANGED <<chain, record, attempts, proc, queue, cur, safeHead>>

(* A read of the chain fails, or a dead letter or the cursor cannot be     *)
(* written: tick's catch.                                                  *)
TickFails ==
  /\ pc \in {"recapture", "head", "scan", "capture"} /\ faults < MaxFaults
  /\ faults' = faults + 1
  /\ Leave("idle")
  /\ UNCHANGED <<chain, store, domain, stopping, boots>>

Init ==
  /\ head = 0
  /\ \E t \in SlotTables : slotAt = [b \in 0 .. MaxHead |-> t]
  /\ record = [p \in Proposals |-> Thrown]
  /\ attempts = [l \in Logs |-> 0]
  /\ cursor = FromBlock - 1
  /\ pc = "down" /\ domain = Aggregator /\ stopping = FALSE /\ boots = 0 /\ faults = 0
  /\ queue = {} /\ cur = {} /\ safeHead = 0

Tick ==
  \/ TickStart \/ RetryDone \/ ReadHead \/ ScanRange \/ AdvanceCursor
  \/ \E l \in Logs : RetryOne(l) \/ Recapture(l) \/ ClearDeadLetter(l) \/ CaptureNext(l)

Next ==
  \/ Tick \/ TickFails
  \/ Mine \/ Shutdown \/ Crash
  \/ \E c \in Configs : Boot(c)

Spec == Init /\ [][Next]_vars

(* The process is started again after a crash and its interval timer       *)
(* fires; reads and writes do not fail for ever (MaxFaults).               *)
Fairness ==
  /\ WF_vars(Mine)
  /\ WF_vars(\E c \in Configs : BootstrapOk(c) /\ Boot(c))
  /\ WF_vars((stopping \/ pc = "disabled") /\ Crash)
  /\ WF_vars(Tick)

FairSpec == Spec /\ Fairness

-----------------------------------------------------------------------------
(* The slash's actual signers, in the order the aggregator commits to.     *)
TrueSigners(l) == Ascending({slotAt[LogBlock[l]][s] : s \in LogTx[l].args.mask})

Terminal(l) == HasTerminal(LogProposal[l])

(* Behind the cursor no slash is forgotten: every log of a scanned block   *)
(* has a record on disk or a dead letter that keeps it visible, whatever   *)
(* the crashes, shutdowns and failed writes in between (tick's "never skip *)
(* a log").                                                                *)
NoLogSkipped ==
  \A l \in Logs : LogBlock[l] \in FromBlock .. cursor => Terminal(l) \/ attempts[l] > 0

(* A stored record names the validators that really signed, however the    *)
(* slots were reassigned between the slash and its capture, and it is      *)
(* quarantined only when the aggregator recorded no commitment for it.     *)
CapturedSetIsTrue ==
  \A l \in Logs : Terminal(l) =>
     LET r == record[LogProposal[l]] IN
     /\ r.signers = TrueSigners(l)
     /\ r.verified <=> LogTx[l].committed

(* What assembleOverIssueFraudProof makes of a stored slash-only record is *)
(* a proof the deployed verifier accepts while the token is not            *)
(* over-issued, and it accuses exactly the slash's signers.                *)
AssembledAccepted ==
  \A l \in Logs : \A token \in {LogTx[k].args.token : k \in Logs} :
     LET r == record[LogProposal[l]]
         a == Assemble(r, token)
     IN Terminal(l) /\ LogTx[l].args.repUsers = <<>> => (a.ok =>
          /\ token = LogTx[l].args.token
          /\ a.guilty = TrueSigners(l)
          /\ Verify(Aggregator, FraudProofDigest(Aggregator, a.id, a.guilty), a.id, a.guilty,
                    a, Commitment(l), FALSE))

(* Every slash the chain finalizes ends in a record or in a parked dead    *)
(* letter: a failing capture is retried until one or the other.            *)
EveryLogSettles ==
  \A l \in Logs :
     []<>(LogBlock[l] \in FromBlock .. head - Finality => Terminal(l) \/ Parked(l))

(* What the store holds is true, and what is assembled from it is accepted.*)
RecordsTrue == CapturedSetIsTrue /\ AssembledAccepted
=============================================================================
