------------------------------ MODULE SlashDrive ------------------------------
(***************************************************************************)
(* One node drives the slash of one operator under one rule                *)
(* (audit.service.ts: handleViolation, assessSlashState,                   *)
(* coordinateQuorumCoSign; proof-archive.ts; the slash reads of            *)
(* blockchain.service.ts): dedup, archive, cooldown, over-slash guard,     *)
(* then queue, proposal and execute, each persisted as it confirms.  The   *)
(* process may stop between any two steps and restart in another mode;     *)
(* other nodes and the owner change the operator's flag meanwhile.  The    *)
(* contracts are external.  A co-signature succeeds or not (CoSign).       *)
(***************************************************************************)
EXTENDS Integers, FiniteSets

CONSTANTS
  Modes,           \* the settings a process may start with, see Executes and DryRun
  FileOnly,        \* the rule only files proposals (RULE_OFFLINE)
  Lookback,        \* AUDIT_SLASH_LOOKBACK_BLOCKS
  MaxBlock,        \* bound on the blocks
  MaxFailures,     \* bound on the calls that fail
  MaxCrashes,      \* bound on the restarts
  MaxProposals,    \* bound on the node's proposals
  MaxPeer,         \* bound on the steps of peers and owner
  MaxRecoveries    \* bound on the times the operator recovers

(* A window is a number of blocks (AUDIT_SLASH_LOOKBACK_BLOCKS).           *)
ASSUME DriveAssumption == Lookback \in Nat

Blocks == 1..MaxBlock
None == {}
Blank == [queued |-> FALSE, prop |-> None, executed |-> FALSE]

VARIABLES
  mode, bad, block,
  stage,
  loc,             \* locals: vb, prior, within, indet, resume, carried, queued, prop, executed
  mem,             \* slashedCoarseKeys, coSignRetryKeys, lastProposalAt, pendingProposalIds
  disk,            \* the archive (block -> {} or its proof) and the slashed journal
  onchain,         \* flag, flagAt, used queue hashes, filed proposals, done ones, executions
  flagFiled,       \* history: proposals the node filed when armed, and knew of, since
                   \* the flag was raised, or last not read by its getter
  crashes, failures, peer, recoveries

env == <<bad, block, peer, recoveries>>
driveVars == <<mode, bad, block, stage, loc, mem, disk, onchain, flagFiled, crashes, failures, peer, recoveries>>

Executes == mode \in {"armed", "dry"}          \* AUDIT_EXECUTE_SLASH
DryRun == mode = "dry"                         \* AUDIT_DRY_RUN
Fault == failures < MaxFailures /\ failures' = failures + 1
Sound == UNCHANGED failures
IdleLoc == [vb |-> 1, prior |-> None, within |-> FALSE, indet |-> FALSE, resume |-> FALSE,
            carried |-> None, armed |-> FALSE, queued |-> FALSE, prop |-> None, executed |-> FALSE]
FreshMem == [slashed |-> FALSE, retry |-> {}, cooling |-> FALSE, pid |-> None]
Idle == stage' = "idle" /\ loc' = IdleLoc
Slashed == [mem EXCEPT !.slashed = TRUE, !.pid = None]        \* markCoarseSlashed

(* The archive: one proof per violation block, and the slashed journal.    *)
Archived(p) == [disk EXCEPT !.proofs[loc.vb] = {p}]
Journal(on) == [disk EXCEPT !.journal = on]

(* A mutated form of ArmedUnfinished: an archived proof is final.          *)
ArchivedIsFinal(prior) == FALSE

(* The archived proof did not complete, and no slash is known of.          *)
ArmedUnfinished(prior) ==
  Executes /\ ~mem.slashed /\ ~\E p \in prior : p.executed

(* A violation is detected at the current block: the proof archived for it *)
(* decides whether it is handled already.  (A stable key is recorded only  *)
(* after its proof is archived, so the archive stands for both.)           *)
Detect ==
  LET prior == IF Executes THEN disk.proofs[block] ELSE None IN
  /\ stage = "idle" /\ bad
  /\ block \in mem.retry \/ ArmedUnfinished(prior) \/ disk.proofs[block] = None
  /\ stage' = "put" /\ loc' = [IdleLoc EXCEPT !.vb = block, !.prior = prior]
  /\ UNCHANGED <<mode, env, mem, disk, onchain, flagFiled, crashes, failures>>

(* The operator is seen healthy: clearCoarseSlashed.  The cooldown stays.  *)
Healthy ==
  /\ stage = "idle" /\ ~bad
  /\ mem' = [mem EXCEPT !.slashed = FALSE, !.pid = None]
  /\ disk' = Journal(FALSE)
  /\ UNCHANGED <<mode, env, stage, loc, onchain, flagFiled, crashes, failures>>

(* Archive before execute, carrying the progress of an earlier attempt.    *)
Put ==
  /\ stage = "put"
  /\ \/ /\ disk' = Archived([Blank EXCEPT !.queued = \E p \in loc.prior : p.queued,
                                          !.prop = UNION {p.prop : p \in loc.prior}])
        /\ stage' = "gate" /\ Sound /\ UNCHANGED loc
     \/ Idle /\ Fault /\ UNCHANGED disk
  /\ UNCHANGED <<mode, env, mem, onchain, flagFiled, crashes>>

(* The cooldown throttles attempts; with a slash in flight the chain is    *)
(* still read.                                                             *)
Gate ==
  LET inFlight == mem.pid # None \/ loc.vb \in mem.retry IN
  /\ stage = "gate"
  /\ loc' = [loc EXCEPT !.within = mem.cooling]
  /\ stage' = IF Executes /\ (~mem.cooling \/ inFlight) THEN "scan"
              ELSE IF mem.cooling THEN "final" ELSE "start"
  /\ UNCHANGED <<mode, env, mem, disk, onchain, flagFiled, crashes, failures>>

(* getRecentSlashExecuted: executions in the window that ends at the head. *)
RecentExecution == \E e \in onchain.executions : e.at >= block - Lookback

(* assessSlashState 1-3: memory, journal, executed events.  The marker a   *)
(* hit writes is best effort.                                              *)
Scan ==
  /\ stage = "scan"
  /\ \/ /\ mem.slashed \/ disk.journal
        /\ mem' = Slashed /\ stage' = "final" /\ Sound /\ UNCHANGED <<loc, disk>>
     \/ /\ ~mem.slashed /\ ~disk.journal /\ RecentExecution
        /\ mem' = Slashed /\ stage' = "final"
        /\ \/ disk' = Journal(TRUE) /\ Sound
           \/ Fault /\ UNCHANGED disk
        /\ UNCHANGED loc
     \/ /\ ~mem.slashed /\ ~disk.journal
        /\ \/ ~RecentExecution /\ Sound /\ UNCHANGED loc
           \/ Fault /\ loc' = [loc EXCEPT !.indet = TRUE]
        /\ stage' = "pending" /\ UNCHANGED <<mem, disk>>
  /\ UNCHANGED <<mode, env, onchain, flagFiled, crashes>>

(* An unread scan cannot rule out an earlier slash, whatever the flag says. *)
Blocked(known) == loc.indet

(* isSlashPending: by its getter, or by the events of the window when the  *)
(* getter fails; unknown when those fail too.                              *)
SlashPending(answer) ==
  CASE answer = "getter" -> onchain.flag
    [] answer = "events" -> onchain.flag /\ onchain.flagAt >= block - Lookback
    [] OTHER -> FALSE

(* assessSlashState 4-5: a pending slash is resumed, whatever the scan.    *)
Pending ==
  /\ stage = "pending"
  /\ \E answer \in {"getter", "events", "unknown"} :
       /\ IF answer = "getter" THEN Sound /\ UNCHANGED flagFiled ELSE Fault /\ flagFiled' = 0
       /\ loc' = [loc EXCEPT !.resume = SlashPending(answer)]
       /\ stage' = IF loc.within \/ (~SlashPending(answer) /\ Blocked(answer # "unknown"))
                   THEN "final" ELSE "start"
  /\ UNCHANGED <<mode, env, mem, disk, onchain, crashes>>

(* A mutated form of Carried: a resume files a proposal of its own.        *)
CarriedNone == None

(* The proposal to go on with: the archived one of this proof, else the    *)
(* one in flight for this operator.                                        *)
Carried ==
  LET archived == UNION {p.prop : p \in {q \in loc.prior : q.queued /\ ~q.executed}} IN
  IF ~loc.resume THEN None ELSE IF archived # None THEN archived ELSE mem.pid

(* The attempt starts: the cooldown is armed before its result is known.   *)
(* confirmSlashableAtBlock fails closed: then only a proposal is filed.    *)
Begin ==
  /\ stage = "start"
  /\ mem' = [mem EXCEPT !.cooling = TRUE]
  /\ \E confirmed \in BOOLEAN :
       LET armed == Executes /\ ~FileOnly /\ confirmed IN
       /\ IF confirmed THEN Sound ELSE Executes /\ ~FileOnly /\ Fault
       /\ loc' = [loc EXCEPT !.carried = Carried, !.armed = armed]
       /\ stage' = IF armed /\ ~loc.resume THEN "queue" ELSE "create"
  /\ UNCHANGED <<mode, env, disk, onchain, flagFiled, crashes>>

(* A step of the orchestration re-archives the proof; a failing write is   *)
(* only logged.                                                            *)
Persist(p) ==
  \/ disk' = Archived(p) /\ Sound
  \/ Fault /\ UNCHANGED disk
Proof == CHOOSE p \in disk.proofs[loc.vb] : TRUE

(* A queued slash locks the operator's stake, once per hash.               *)
Raise(hash) == [onchain EXCEPT !.flag = TRUE, !.flagAt = block, !.used = @ \union {hash}]

(* Step 1, queueSlashWithProof: simulated first, so a used hash aborts.    *)
(* The transaction may land although its answer is lost.                   *)
Queue ==
  /\ stage = "queue"
  /\ \/ /\ loc.vb \notin onchain.used
        /\ onchain' = IF DryRun THEN onchain ELSE Raise(loc.vb)
        /\ flagFiled' = IF DryRun \/ onchain.flag THEN flagFiled ELSE 0
        /\ loc' = [loc EXCEPT !.queued = TRUE]
        /\ Persist([Proof EXCEPT !.queued = TRUE])
     \/ /\ loc.vb \notin onchain.used /\ ~DryRun /\ Fault
        /\ onchain' = Raise(loc.vb) /\ flagFiled' = IF onchain.flag THEN flagFiled ELSE 0
        /\ UNCHANGED <<loc, disk>>
     \/ /\ IF loc.vb \in onchain.used THEN Sound ELSE Fault
        /\ UNCHANGED <<onchain, flagFiled, loc, disk>>
  /\ stage' = "create"
  /\ UNCHANGED <<mode, env, mem, crashes>>

Filed(id) == [onchain EXCEPT !.filed = @ \union {id}]

(* Step 2, createProposalWithEvidence: only with the flag raised, or when  *)
(* filing is all there is to do; a carried proposal is reused.             *)
Create ==
  LET id == Cardinality(onchain.filed) + 1
      file == id <= MaxProposals /\ onchain' = Filed(id)
  IN
  /\ stage = "create"
  /\ \/ /\ loc.carried # None
        /\ loc' = [loc EXCEPT !.prop = loc.carried] /\ Sound /\ UNCHANGED <<onchain, disk, flagFiled>>
     \/ /\ loc.carried = None /\ (~loc.armed \/ loc.queued \/ loc.resume)
        /\ \/ /\ DryRun /\ loc' = [loc EXCEPT !.prop = {0}] /\ Sound
              /\ UNCHANGED <<onchain, disk, flagFiled>>
           \/ /\ ~DryRun /\ file /\ loc' = [loc EXCEPT !.prop = {id}]
              /\ flagFiled' = IF onchain.flag /\ loc.armed THEN flagFiled + 1 ELSE flagFiled
              /\ IF loc.armed THEN Persist([Proof EXCEPT !.prop = {id}]) ELSE Sound /\ UNCHANGED disk
           \/ ~DryRun /\ file /\ Fault /\ UNCHANGED <<loc, disk, flagFiled>>
           \/ Fault /\ UNCHANGED <<onchain, loc, disk, flagFiled>>
     \/ /\ loc.carried = None /\ loc.armed /\ ~loc.queued /\ ~loc.resume
        /\ Sound /\ UNCHANGED <<onchain, loc, disk, flagFiled>>
  /\ stage' = "execute"
  /\ UNCHANGED <<mode, env, mem, crashes>>

Strike(prop) ==
  [onchain EXCEPT !.flag = FALSE, !.done = @ \union prop,
                  !.executions = @ \union {[at |-> block, own |-> prop]}]

(* Step 3, executeSlashWithProof: only with a queue and a proposal.  The   *)
(* contract wants the flag and an open proposal, and the simulation too.   *)
Execute ==
  LET ready == loc.armed /\ (loc.queued \/ loc.resume) /\ loc.prop # None
      accepts == onchain.flag /\ loc.prop \subseteq onchain.filed \ onchain.done
      landed == [loc EXCEPT !.executed = TRUE]
  IN
  /\ stage = "execute"
  /\ \/ ~ready /\ Sound /\ UNCHANGED <<onchain, loc, disk>>
     \/ /\ ready /\ DryRun /\ accepts /\ loc' = landed
        /\ Persist([Proof EXCEPT !.executed = TRUE]) /\ UNCHANGED onchain
     \/ /\ ready /\ ~DryRun /\ accepts /\ onchain' = Strike(loc.prop)
        /\ \/ loc' = landed /\ Persist([Proof EXCEPT !.executed = TRUE])
           \/ Fault /\ UNCHANGED <<loc, disk>>
     \/ /\ ready /\ (IF accepts THEN Fault ELSE Sound)
        /\ UNCHANGED <<onchain, loc, disk>>
  /\ stage' = "record"
  /\ UNCHANGED <<mode, env, mem, flagFiled, crashes>>

(* What the attempt leaves in memory, and the durable marker of an         *)
(* execution.  An armed attempt that did not execute is retried; its       *)
(* cooldown ends only if nothing was queued.                               *)
Record ==
  LET aborted == loc.armed /\ ~loc.executed /\ (~DryRun \/ ~(loc.queued \/ loc.resume))
      real == loc.executed /\ ~DryRun
      pid == IF loc.prop # None /\ ~loc.executed THEN loc.prop ELSE IF real THEN None ELSE mem.pid
  IN
  /\ stage = "record" /\ stage' = "final"
  /\ mem' = [slashed |-> mem.slashed \/ real,
             retry |-> IF aborted THEN mem.retry \union {loc.vb} ELSE mem.retry \ {loc.vb},
             cooling |-> ~(aborted /\ ~loc.queued /\ ~loc.resume),
             pid |-> pid]
  /\ \/ disk' = Journal(disk.journal \/ real) /\ Sound
     \/ real /\ Fault /\ UNCHANGED disk
  /\ UNCHANGED <<mode, env, loc, onchain, flagFiled, crashes>>

(* The proof is archived with what is known now.                           *)
Final ==
  LET p == Proof IN
  /\ stage = "final"
  /\ \/ /\ disk' = Archived([queued |-> p.queued \/ loc.queued,
                               prop |-> IF loc.prop # None THEN loc.prop ELSE p.prop,
                               executed |-> p.executed \/ loc.executed])
        /\ Sound
     \/ Fault /\ UNCHANGED disk
  /\ Idle
  /\ UNCHANGED <<mode, env, mem, onchain, flagFiled, crashes>>

CooldownEnds ==
  /\ mem.cooling /\ mem' = [mem EXCEPT !.cooling = FALSE]
  /\ UNCHANGED <<mode, env, stage, loc, disk, onchain, flagFiled, crashes, failures>>

Reboot(m) ==
  /\ crashes < MaxCrashes /\ crashes' = crashes + 1
  /\ mode' = m /\ mem' = FreshMem /\ Idle
  /\ UNCHANGED <<env, disk, onchain, flagFiled, failures>>

(* The chain and the other nodes.  A peer queues only when its own scan    *)
(* finds no execution.                                                     *)
NewBlock ==
  /\ block < MaxBlock /\ block' = block + 1
  /\ UNCHANGED <<mode, bad, stage, loc, mem, disk, onchain, flagFiled, crashes, failures, peer, recoveries>>

Peer ==
  /\ peer < MaxPeer /\ peer' = peer + 1
  /\ \/ /\ ~onchain.flag /\ ~RecentExecution
        /\ onchain' = Raise(block)
        /\ flagFiled' = 0
     \/ onchain.flag /\ onchain' = Strike(None) /\ UNCHANGED flagFiled
     \/ onchain.flag /\ onchain' = [onchain EXCEPT !.flag = FALSE] /\ UNCHANGED flagFiled
  /\ UNCHANGED <<mode, bad, block, stage, loc, mem, disk, crashes, failures, recoveries>>

Recover ==
  /\ IF bad THEN recoveries < MaxRecoveries /\ recoveries' = recoveries + 1 ELSE UNCHANGED recoveries
  /\ bad' = ~bad
  /\ UNCHANGED <<mode, block, stage, loc, mem, disk, onchain, flagFiled, crashes, failures, peer>>

DriveInit ==
  /\ mode \in Modes /\ bad = TRUE /\ block = 1 /\ stage = "idle" /\ loc = IdleLoc /\ mem = FreshMem
  /\ disk = [proofs |-> [b \in Blocks |-> None], journal |-> FALSE]
  /\ onchain = [flag |-> FALSE, flagAt |-> 1, used |-> {}, filed |-> {}, done |-> {}, executions |-> {}]
  /\ flagFiled = 0 /\ crashes = 0 /\ failures = 0 /\ peer = 0 /\ recoveries = 0

Step == \/ Detect \/ Put \/ Gate \/ Scan \/ Pending \/ Begin \/ Queue \/ Create \/ Execute \/ Record \/ Final

DriveNext ==
  \/ Step \/ Healthy \/ CooldownEnds \/ \E m \in Modes : Reboot(m)
  \/ NewBlock \/ Peer \/ Recover

DriveSpec == DriveInit /\ [][DriveNext]_driveVars /\ WF_driveVars(Step) /\ WF_driveVars(CooldownEnds)

-----------------------------------------------------------------------------
(* The node does not slash the same operator twice within the lookback: a   *)
(* restart, a lost answer, a failed journal write or an unreadable scan in  *)
(* between does not make it (assessSlashState).                             *)
OwnSlashOnce ==
  \A e, f \in {x \in onchain.executions : x.own # None} :
    e # f => (e.at - f.at > Lookback \/ f.at - e.at > Lookback)

(* A queued slash costs the node one proposal: a resume after a failed step *)
(* or at a later block reuses it, and files another only after a restart,   *)
(* a recovery of the operator or a flag it could not read (handleViolation, *)
(* pendingProposalIds).                                                     *)
ProposalsBounded == flagFiled <= 1 + crashes + recoveries

(* An operator that was queued does not stay locked: while it is in         *)
(* violation an armed node that knows of no slash completes this one, also  *)
(* after a restart (handleViolation's dedup, the resume of                  *)
(* coordinateQuorumCoSign).  Two things keep it from that: an earlier slash *)
(* that left the lookback unseen, whose spent proposal it would reuse, and  *)
(* a rehearsal at this block, archived as executed or with the proposal id  *)
(* it simulated, which the resume carries on.                               *)
QueuedCompleted ==
  []<>(onchain.flag /\ bad /\ mode = "armed" =>
    \/ mem.slashed
    \/ \E e \in onchain.executions : e.at < block - Lookback
    \/ \E p \in disk.proofs[block] : p.executed \/ 0 \in p.prop
    \/ 0 \in mem.pid)

(* An offence costs the operator one slash and the node one proposal,      *)
(* whatever fails, stops or is retried in between.                         *)
SlashPaidOnce == OwnSlashOnce /\ ProposalsBounded
===============================================================================
