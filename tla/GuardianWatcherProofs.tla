------------------------ MODULE GuardianWatcherProofs ------------------------
(***************************************************************************)
(* Proof that the watcher of GuardianWatcher forgets no slash behind its   *)
(* cursor, for every set of logs, every chunk size and every number of     *)
(* crashes, shutdowns, failures and blocks; that the operators which       *)
(* RoleWatch derives from the Registry's events are the members, and no    *)
(* datum of GossipData gives way to an older one.                          *)
(***************************************************************************)
EXTENDS GuardianWatcher, RoleWatch, GossipData, TLAPS

(* A log that has a record on disk or a dead letter.                       *)
Accounted(l) == Terminal(l) \/ attempts[l] > 0

(* At most one dead letter is retried at a time.                           *)
LocalsTyped == safeHead \in Int /\ cur \subseteq Logs /\ \A k, m \in cur : k = m

(* What the store and the locals of a tick hold.                           *)
StoreTyped ==
  /\ record = [p \in Proposals |-> record[p]]
  /\ attempts \in [Logs -> Nat]
  /\ cursor \in Int
  /\ LocalsTyped

(* While a chunk is captured, its logs are in the loop's queue or          *)
(* accounted for; this is what lets the cursor pass the chunk.             *)
ChunkCovered ==
  pc = "capture" =>
     \A l \in Logs : LogBlock[l] \in cursor + 1 .. ChunkEnd => l \in queue \/ Accounted(l)

(* A dead letter is removed only when its proposal has a record.           *)
ClearedIsTerminal == pc = "clear" => \A l \in cur : Terminal(l)

WatcherInv == StoreTyped /\ NoLogSkipped /\ ChunkCovered /\ ClearedIsTerminal

-----------------------------------------------------------------------------
(* A stored record makes its log terminal and leaves every other log as    *)
(* accounted for as it was.                                                *)
LEMMA PutAccounts ==
  ASSUME StoreTyped, NEW l \in Logs, PutRecord(l)
  PROVE  /\ StoreTyped' <=> LocalsTyped'
         /\ Terminal(l)'
         /\ \A k \in Logs : Terminal(k) => Terminal(k)'
         /\ \A k \in Logs : Accounted(k) => Accounted(k)'
<1> DEFINE r == Built(l)
<1>1. r.ok /\ record' = [record EXCEPT ![LogProposal[l]] = r] /\ attempts' = attempts /\ cursor' = cursor
  BY Zenon DEF PutRecord
<1> HIDE DEF r
<1>2. \A k \in Logs : LogProposal[k] \in Proposals
  BY Zenon DEF Proposals
<1>3. \A k \in Logs : record'[LogProposal[k]] = IF LogProposal[k] = LogProposal[l] THEN r ELSE record[LogProposal[k]]
  BY Zenon, <1>1, <1>2 DEF StoreTyped
<1>4. record' = [p \in Proposals |-> record'[p]]
  BY Zenon, <1>1 DEF StoreTyped
<1>5. Terminal(l)' /\ \A k \in Logs : Terminal(k) => Terminal(k)'
  BY <1>1, <1>3 DEF Terminal, HasTerminal
<1> QED
  BY Zenon, <1>1, <1>4, <1>5 DEF StoreTyped, Accounted, Proposals

(* A dead letter accounts for its log and takes nothing from the others.   *)
LEMMA DeadLetterAccounts ==
  ASSUME StoreTyped, NEW l \in Logs, DeadLetter(l)
  PROVE  /\ StoreTyped' <=> LocalsTyped'
         /\ Accounted(l)'
         /\ \A k \in Logs : Terminal(k) => Terminal(k)'
         /\ \A k \in Logs : Accounted(k) => Accounted(k)'
<1>1. /\ attempts \in [Logs -> Nat] /\ record' = record /\ cursor' = cursor
      /\ attempts' = [attempts EXCEPT ![l] = @ + 1]
  BY Zenon DEF DeadLetter, StoreTyped
<1>2. attempts' \in [Logs -> Nat] /\ attempts'[l] > 0 /\ \A k \in Logs : attempts[k] > 0 => attempts'[k] > 0
  BY <1>1
<1> QED
  BY Zenon, <1>1, <1>2 DEF StoreTyped, Accounted, Terminal, HasTerminal, Proposals

(* A step that leaves the store alone and does not enter "capture" or      *)
(* "clear" preserves the invariant.                                        *)
LEMMA StoreUntouched ==
  ASSUME WatcherInv, UNCHANGED store, LocalsTyped',
         \/ pc' \notin {"capture", "clear"}
         \/ UNCHANGED <<pc, queue, cur, safeHead>>
  PROVE  WatcherInv'
<1>1. record' = record /\ attempts' = attempts /\ cursor' = cursor
  BY Zenon DEF store
<1>2. StoreTyped' /\ NoLogSkipped'
  BY Zenon, <1>1 DEF WatcherInv, StoreTyped, NoLogSkipped, Terminal, HasTerminal, Proposals
<1>3. ChunkCovered'
  BY Zenon, <1>1 DEF WatcherInv, ChunkCovered, ChunkEnd, Accounted, Terminal, HasTerminal
<1>4. ClearedIsTerminal'
  BY Zenon, <1>1 DEF WatcherInv, ClearedIsTerminal, Terminal, HasTerminal
<1> QED
  BY Zenon, <1>2, <1>3, <1>4 DEF WatcherInv

(* A step of the retry loop that touches the store but no log's account.   *)
LEMMA NoneForgotten ==
  ASSUME WatcherInv, StoreTyped', cursor' = cursor, pc' # "capture",
         \A k \in Logs : Accounted(k) => Accounted(k)',
         pc' = "clear" => \A k \in cur' : Terminal(k)'
  PROVE  WatcherInv'
BY Zenon DEF WatcherInv, NoLogSkipped, ChunkCovered, ClearedIsTerminal, Accounted

-----------------------------------------------------------------------------
(* WatcherInv is inductive.                                                *)
LEMMA InitWatcher == Init => WatcherInv
<1> SUFFICES ASSUME Init PROVE WatcherInv
  BY Zenon
<1>1. StoreTyped
  BY WatcherConstants DEF Init, StoreTyped, LocalsTyped
<1>2. NoLogSkipped
  BY WatcherConstants DEF Init, NoLogSkipped
<1>3. ChunkCovered /\ ClearedIsTerminal
  BY Zenon DEF Init, ChunkCovered, ClearedIsTerminal
<1> QED
  BY Zenon, <1>1, <1>2, <1>3 DEF WatcherInv

(* retryFailures and removeFailure.                                        *)
LEMMA RetryStep ==
  ASSUME WatcherInv, NEW l \in Logs, RetryOne(l) \/ Recapture(l) \/ ClearDeadLetter(l)
  PROVE  WatcherInv'
<1> USE DEF WatcherInv
<1>1. CASE RetryOne(l)
  <2>1. CASE stopping
    BY Zenon, <1>1, <2>1, StoreUntouched DEF RetryOne, StoreTyped, LocalsTyped
  <2>2. CASE ~stopping
    <3>1. /\ UNCHANGED <<store, safeHead>> /\ cur' = {l}
          /\ pc' = IF HasTerminal(LogProposal[l]) THEN "clear" ELSE "recapture"
      BY Zenon, <1>1, <2>2 DEF RetryOne
    <3>2. StoreTyped' /\ cursor' = cursor /\ pc' # "capture"
      BY Zenon, <3>1 DEF StoreTyped, LocalsTyped, store, Proposals
    <3>3. \A k \in Logs : (Accounted(k) <=> Accounted(k)') /\ (Terminal(k) <=> Terminal(k)')
      BY Zenon, <3>1 DEF Accounted, Terminal, HasTerminal, store
    <3>4. pc' = "clear" => \A k \in cur' : Terminal(k)'
      BY Zenon, <3>1, <3>3 DEF Terminal
    <3> QED
      BY Zenon, <3>2, <3>3, <3>4, NoneForgotten
  <2> QED
    BY Zenon, <2>1, <2>2
<1>2. CASE Recapture(l)
  <2>1. CASE PutRecord(l) /\ pc' = "clear" /\ UNCHANGED cur
    <3>1. UNCHANGED <<safeHead, cur>> /\ l \in cur /\ cursor' = cursor
      BY Zenon, <1>2, <2>1 DEF Recapture, PutRecord
    <3>2. LocalsTyped'
      BY Zenon, <3>1 DEF StoreTyped, LocalsTyped
    <3>3. StoreTyped' /\ Terminal(l)' /\ \A k \in Logs : Accounted(k) => Accounted(k)'
      BY Zenon, <2>1, <3>2, PutAccounts
    <3>4. \A k \in cur' : k = l
      BY Zenon, <3>1 DEF StoreTyped, LocalsTyped
    <3> QED
      BY Zenon, <2>1, <3>1, <3>3, <3>4, NoneForgotten
  <2>2. CASE DeadLetter(l) /\ pc' = "retry" /\ cur' = {}
    <3>1. UNCHANGED safeHead /\ cursor' = cursor
      BY Zenon, <1>2, <2>2 DEF Recapture, DeadLetter
    <3>2. StoreTyped' /\ \A k \in Logs : Accounted(k) => Accounted(k)'
      BY Zenon, <2>2, <3>1, DeadLetterAccounts DEF StoreTyped, LocalsTyped
    <3> QED
      BY Zenon, <2>2, <3>1, <3>2, NoneForgotten
  <2> QED
    BY Zenon, <1>2, <2>1, <2>2 DEF Recapture
<1>3. CASE ClearDeadLetter(l)
  <2>1. /\ Terminal(l) /\ record' = record /\ cursor' = cursor /\ safeHead' = safeHead
        /\ attempts' = [attempts EXCEPT ![l] = 0] /\ pc' = "retry" /\ cur' = {}
    BY Zenon, <1>3 DEF ClearDeadLetter, ClearedIsTerminal
  <2>2. StoreTyped'
    BY Zenon, <2>1 DEF StoreTyped, LocalsTyped, Proposals
  <2>3. \A k \in Logs : Accounted(k) => Accounted(k)'
    BY Zenon, <2>1 DEF Accounted, Terminal, HasTerminal, StoreTyped
  <2> QED
    BY Zenon, <2>1, <2>2, <2>3, NoneForgotten
<1> QED
  BY Zenon, <1>1, <1>2, <1>3
(* scanRange and writeCursor.                                              *)
LEMMA ScanStep ==
  ASSUME WatcherInv, ScanRange \/ AdvanceCursor \/ \E l \in Logs : CaptureNext(l)
  PROVE  WatcherInv'
<1> USE DEF WatcherInv
<1>1. CASE ScanRange
  <2>1. CASE cursor + 1 <= safeHead /\ ~stopping
    <3>1. /\ record' = record /\ attempts' = attempts /\ cursor' = cursor
          /\ safeHead' = safeHead /\ cur' = cur /\ pc' = "capture"
          /\ queue' = {l \in Logs : LogBlock[l] \in cursor + 1 .. ChunkEnd}
      BY Zenon, <1>1, <2>1 DEF ScanRange, store
    <3>2. StoreTyped' /\ NoLogSkipped'
      BY Zenon, <3>1 DEF StoreTyped, LocalsTyped, NoLogSkipped, Terminal, HasTerminal, Proposals
    <3>3. ChunkCovered' /\ ClearedIsTerminal'
      BY Zenon, <3>1 DEF ChunkCovered, ClearedIsTerminal, ChunkEnd
    <3> QED
      BY Zenon, <3>2, <3>3
  <2>2. CASE ~(cursor + 1 <= safeHead /\ ~stopping)
    <3>1. UNCHANGED store /\ LocalsTyped' /\ pc' \notin {"capture", "clear"}
      BY <1>1, <2>2 DEF ScanRange, Leave, LocalsTyped
    <3> QED
      BY Zenon, <3>1, StoreUntouched
  <2> QED
    BY Zenon, <2>1, <2>2
<1>2. CASE AdvanceCursor
  <2>1. /\ record' = record /\ attempts' = attempts /\ cursor' = ChunkEnd
        /\ safeHead' = safeHead /\ cur' = cur /\ pc' = "scan"
        /\ pc = "capture" /\ queue = {}
    BY Zenon, <1>2 DEF AdvanceCursor
  <2>2. StoreTyped'
    BY <2>1, WatcherConstants DEF StoreTyped, LocalsTyped, ChunkEnd, Proposals
  <2>3. \A l \in Logs : LogBlock[l] \in FromBlock .. ChunkEnd => Accounted(l)
    <3> SUFFICES ASSUME NEW l \in Logs, LogBlock[l] \in FromBlock .. ChunkEnd
                 PROVE  Accounted(l)
      BY Zenon
    <3>1. ChunkEnd \in Int /\ cursor \in Int /\ FromBlock \in Int /\ LogBlock[l] \in Int
      BY WatcherConstants DEF StoreTyped, LocalsTyped, ChunkEnd
    <3>2. LogBlock[l] \in FromBlock .. cursor \/ LogBlock[l] \in cursor + 1 .. ChunkEnd
      BY <3>1
    <3> QED
      BY Zenon, <2>1, <3>2 DEF NoLogSkipped, ChunkCovered, Accounted
  <2>4. NoLogSkipped'
    BY Zenon, <2>1, <2>3 DEF NoLogSkipped, Accounted, Terminal, HasTerminal
  <2>5. ChunkCovered' /\ ClearedIsTerminal'
    BY Zenon, <2>1 DEF ChunkCovered, ClearedIsTerminal
  <2> QED
    BY Zenon, <2>2, <2>4, <2>5
<1>3. ASSUME NEW l \in Logs, CaptureNext(l)
      PROVE  WatcherInv'
  <2>1. CASE stopping
    <3>1. UNCHANGED store /\ LocalsTyped' /\ pc' \notin {"capture", "clear"}
      BY <1>3, <2>1 DEF CaptureNext, Leave, LocalsTyped
    <3> QED
      BY Zenon, <3>1, StoreUntouched
  <2>2. CASE ~stopping
    <3>1. /\ queue' = queue \ {l} /\ pc = "capture" /\ pc' = pc /\ cur' = cur /\ safeHead' = safeHead
          /\ IF HasTerminal(LogProposal[l]) \/ attempts[l] > 0
             THEN UNCHANGED store ELSE PutRecord(l) \/ DeadLetter(l)
      BY Zenon, <1>3, <2>2 DEF CaptureNext
    <3>2. LocalsTyped'
      BY ZenonT(30), <3>1 DEF StoreTyped, LocalsTyped
    <3>3. StoreTyped' /\ cursor' = cursor /\ Accounted(l)' /\ \A k \in Logs : Accounted(k) => Accounted(k)'
      <4>1. CASE HasTerminal(LogProposal[l]) \/ attempts[l] > 0
        BY Zenon, <3>1, <3>2, <4>1 DEF store, StoreTyped, Accounted, Terminal, HasTerminal, Proposals
      <4>2. CASE PutRecord(l)
        BY ZenonT(30), <3>2, <4>2, PutAccounts DEF PutRecord, Accounted
      <4>3. CASE DeadLetter(l)
        BY ZenonT(30), <3>2, <4>3, DeadLetterAccounts DEF DeadLetter
      <4> QED
        BY Zenon, <3>1, <4>1, <4>2, <4>3
    <3>4. ChunkEnd' = ChunkEnd
      BY Zenon, <3>1, <3>3 DEF ChunkEnd
    <3>5. NoLogSkipped'
      BY Zenon, <3>3 DEF NoLogSkipped, Accounted
    <3>6. ChunkCovered'
      BY Zenon, <3>1, <3>3, <3>4 DEF ChunkCovered
    <3>7. ClearedIsTerminal'
      BY Zenon, <3>1 DEF ClearedIsTerminal
    <3> QED
      BY Zenon, <3>3, <3>5, <3>6, <3>7
  <2> QED
    BY Zenon, <2>1, <2>2
<1> QED
  BY Zenon, <1>1, <1>2, <1>3

(* Every other step leaves the store alone.                                *)
LEMMA NextWatcher == WatcherInv /\ [Next]_vars => WatcherInv'
<1> SUFFICES ASSUME WatcherInv, [Next]_vars PROVE WatcherInv'
  BY Zenon
<1>t. LocalsTyped
  BY Zenon DEF WatcherInv, StoreTyped
<1>1. CASE TickStart
  BY Zenon, <1>1, <1>t, StoreUntouched DEF TickStart, LocalsTyped
<1>2. CASE RetryDone
  BY Zenon, <1>2, <1>t, StoreUntouched DEF RetryDone, LocalsTyped
<1>3. CASE ReadHead
  <2>1. UNCHANGED store /\ LocalsTyped' /\ pc' \notin {"capture", "clear"}
    BY <1>3, <1>t, WatcherConstants DEF ReadHead, Leave, LocalsTyped
  <2> QED
    BY Zenon, <2>1, StoreUntouched
<1>4. CASE ScanRange \/ AdvanceCursor \/ \E l \in Logs : CaptureNext(l)
  BY Zenon, <1>4, ScanStep
<1>5. CASE \E l \in Logs : RetryOne(l) \/ Recapture(l) \/ ClearDeadLetter(l)
  BY Zenon, <1>5, RetryStep
<1>6. CASE TickFails \/ Crash
  <2>1. UNCHANGED store /\ LocalsTyped' /\ pc' \notin {"capture", "clear"}
    BY <1>6 DEF TickFails, Crash, Leave, LocalsTyped
  <2> QED
    BY Zenon, <2>1, StoreUntouched
<1>7. CASE Mine \/ Shutdown \/ UNCHANGED vars
  <2>1. UNCHANGED store /\ UNCHANGED <<pc, queue, cur, safeHead>>
    BY Zenon, <1>7 DEF Mine, Shutdown, vars
  <2>2. LocalsTyped'
    BY Zenon, <1>t, <2>1 DEF LocalsTyped
  <2> QED
    BY Zenon, <2>1, <2>2, StoreUntouched
<1>8. ASSUME NEW c \in Configs, Boot(c)
      PROVE  WatcherInv'
  <2>1. UNCHANGED store /\ UNCHANGED <<queue, cur, safeHead>> /\ pc' \notin {"capture", "clear"}
    BY Zenon, <1>8 DEF Boot
  <2>2. LocalsTyped'
    BY Zenon, <1>t, <2>1 DEF LocalsTyped
  <2> QED
    BY Zenon, <2>1, <2>2, StoreUntouched
<1> QED
  BY Zenon, <1>1, <1>2, <1>3, <1>4, <1>5, <1>6, <1>7, <1>8 DEF Next, Tick

(* Whatever the crashes, shutdowns, lagging reads and failed writes, and   *)
(* however many logs, blocks and chunks there are, the inductive invariant *)
(* of the watcher holds.                                                   *)
THEOREM WatcherInvariant == Spec => []WatcherInv
<1> QED
  BY InitWatcher, NextWatcher, PTL DEF Spec

(* No slash behind the cursor is forgotten: it has a record or a dead      *)
(* letter (tick's "never skip a log").                                     *)
THEOREM NoLogSkippedHolds == Spec => []NoLogSkipped
<1>1. WatcherInv => NoLogSkipped
  BY Zenon DEF WatcherInv
<1> QED
  BY <1>1, WatcherInvariant, PTL

-----------------------------------------------------------------------------
(* What the store holds is true.                                           *)

(* The record of a slash that could be decoded, from the slots in force at *)
(* its block.                                                              *)
Stored(l) ==
  LET a == LogTx[l].args IN
  [ok |-> TRUE, proposal |-> LogProposal[l], operator |-> a.operator,
   level |-> a.level, epoch |-> a.epoch, evidence |-> a.evidence,
   mask |-> a.mask, signers |-> TrueSigners(l), verified |-> LogTx[l].committed]

StoredTrue == \A l \in Logs : Terminal(l) => record[LogProposal[l]] = Stored(l)

ChainTyped == head \in 0 .. MaxHead /\ slotAt = [b \in 0 .. MaxHead |-> slotAt[b]]

(* The watcher only polls with the domain of the deployed aggregator.      *)
DomainAttested ==
  pc \notin {"down", "disabled"} => DomainSeparator(domain) = DomainSeparator(Aggregator)

(* It only looks at blocks that are mined, whose slots no longer change.   *)
Mined(l) == LogBlock[l] <= head
OnlyMined ==
  /\ safeHead <= head
  /\ queue \subseteq Logs
  /\ \A l \in Logs : l \in queue \cup cur \/ Accounted(l) => Mined(l)

TruthInv == ChainTyped /\ DomainAttested /\ OnlyMined /\ StoredTrue

(* Under the attested domain, what buildGuardianSignerRecord returns for a *)
(* log is its true record: the commitment it compares with is the one the  *)
(* aggregator made of the same slots.                                      *)
LEMMA BuiltIsStored ==
  ASSUME NEW l \in Logs, Built(l).ok,
         DomainSeparator(domain) = DomainSeparator(Aggregator)
  PROVE  Built(l) = Stored(l)
<1> DEFINE tx      == LogTx[l]
           a       == tx.args
           s       == slotAt[LogBlock[l]]
           set     == OrderSigners(a.mask, s)
           m(d, p) == IF a.repUsers = <<>>
                      THEN ExecuteSlashHash(d, p, a.operator, a.level, a.epoch, a.evidence)
                      ELSE ReputationHash(d, p, a.repUsers, a.newScores, a.epoch)
           anchor  == Commitment(l)
<1>1. tx.found /\ tx.direct /\ a.proposal = LogProposal[l] /\ set.ok
  BY ZenonT(30) DEF Built, BuildRecord, DecodeCalldata, Thrown
<1>2. set.signers = TrueSigners(l)
  BY Zenon, <1>1 DEF OrderSigners, Thrown, TrueSigners
<1>3. m(domain, LogProposal[l]) = m(Aggregator, LogProposal[l])
  BY ZenonT(30) DEF ExecuteSlashHash, ReputationHash
<1>4. anchor = IF ~tx.committed THEN <<>>
               ELSE SignersCommitment(Aggregator, LogProposal[l], m(Aggregator, LogProposal[l]),
                                      a.mask, TrueSigners(l))
  BY Zenon DEF Commitment, TrueSigners
<1>5. SignersCommitment(domain, LogProposal[l], m(domain, LogProposal[l]), a.mask, TrueSigners(l))
        = SignersCommitment(Aggregator, LogProposal[l], m(Aggregator, LogProposal[l]), a.mask, TrueSigners(l))
  BY ZenonT(30), <1>3 DEF SignersCommitment
<1>6. SignersCommitment(domain, LogProposal[l], m(domain, LogProposal[l]), a.mask, TrueSigners(l)) # <<>>
  BY Zenon DEF SignersCommitment
<1> DEFINE v == /\ anchor # <<>>
                /\ anchor = SignersCommitment(domain, LogProposal[l], m(domain, LogProposal[l]),
                                              a.mask, TrueSigners(l))
<1>7. v = tx.committed
  BY ZenonT(30), <1>4, <1>5, <1>6, SlashConstants
<1>8. Built(l) = [ok |-> TRUE, proposal |-> LogProposal[l], operator |-> a.operator,
                  level |-> a.level, epoch |-> a.epoch, evidence |-> a.evidence,
                  mask |-> a.mask, signers |-> TrueSigners(l), verified |-> v]
  BY ZenonT(30), <1>1, <1>2 DEF Built, BuildRecord, DecodeCalldata
<1> QED
  BY ZenonT(30), <1>7, <1>8 DEF Stored

(* A record that is put is true, and replaces none of another log.         *)
LEMMA PutIsTrue ==
  ASSUME StoreTyped, StoredTrue, NEW l \in Logs, PutRecord(l), slotAt' = slotAt,
         DomainSeparator(domain) = DomainSeparator(Aggregator)
  PROVE  StoredTrue'
<1>1. Built(l).ok /\ record' = [record EXCEPT ![LogProposal[l]] = Built(l)]
  BY Zenon DEF PutRecord
<1>2. Built(l) = Stored(l)
  BY ZenonT(30), <1>1, BuiltIsStored
<1>3. \A k \in Logs : Stored(k)' = Stored(k)
  BY Zenon DEF Stored, TrueSigners
<1>4. \A k \in Logs : LogProposal[k] \in Proposals
  BY Zenon DEF Proposals
<1>5. \A k \in Logs : record'[LogProposal[k]] = IF k = l THEN Stored(l) ELSE record[LogProposal[k]]
  BY Zenon, <1>1, <1>2, <1>4, SlashConstants DEF StoreTyped
<1> QED
  BY Zenon, <1>3, <1>5 DEF StoredTrue, Terminal, HasTerminal

(* A step that takes nothing new into its locals and leaves the store and  *)
(* the chain alone.                                                        *)
LEMMA TruthUntouched ==
  ASSUME TruthInv, UNCHANGED <<chain, store>>, DomainAttested', safeHead' <= head,
         queue' \subseteq queue, cur' \subseteq cur \cup queue
  PROVE  TruthInv'
<1>1. /\ head' = head /\ slotAt' = slotAt /\ record' = record /\ attempts' = attempts
  BY Zenon DEF chain, store
<1>2. ChainTyped' /\ OnlyMined'
  BY ZenonT(30), <1>1 DEF TruthInv, ChainTyped, OnlyMined, Mined, Accounted, Terminal, HasTerminal
<1>3. \A k \in Logs : Stored(k)' = Stored(k)
  BY Zenon, <1>1 DEF Stored, TrueSigners
<1>4. StoredTrue'
  BY Zenon, <1>1, <1>3 DEF TruthInv, StoredTrue, Terminal, HasTerminal
<1> QED
  BY Zenon, <1>2, <1>4 DEF TruthInv

(* captureOne and deadLetter, of a log that is mined.                      *)
LEMMA CaptureTruth ==
  ASSUME StoreTyped, TruthInv, NEW l \in Logs, PutRecord(l) \/ DeadLetter(l), Mined(l),
         pc \notin {"down", "disabled"}, UNCHANGED <<chain, proc, safeHead>>,
         queue' \subseteq queue, cur' \subseteq cur
  PROVE  TruthInv'
<1>1. head' = head /\ slotAt' = slotAt /\ domain' = domain
  BY Zenon DEF chain, proc
<1>2. DomainSeparator(domain) = DomainSeparator(Aggregator)
  BY Zenon DEF TruthInv, DomainAttested
<1>3. ChainTyped' /\ DomainAttested'
  BY Zenon, <1>1, <1>2 DEF TruthInv, ChainTyped, DomainAttested
<1>4. \A k \in Logs : Accounted(k)' => Accounted(k) \/ k = l
  <2>1. CASE PutRecord(l)
    <3>1. record' = [record EXCEPT ![LogProposal[l]] = Built(l)] /\ attempts' = attempts
      BY Zenon, <2>1 DEF PutRecord
    <3>2. \A k \in Logs : k # l => record'[LogProposal[k]] = record[LogProposal[k]]
      BY Zenon, <3>1, SlashConstants DEF StoreTyped, Proposals
    <3> QED
      BY Zenon, <3>1, <3>2 DEF Accounted, Terminal, HasTerminal
  <2>2. CASE DeadLetter(l)
    BY Zenon, <2>2 DEF DeadLetter, Accounted, Terminal, HasTerminal, StoreTyped
  <2> QED
    BY Zenon, <2>1, <2>2
<1>5. OnlyMined'
  BY Zenon, <1>1, <1>4 DEF TruthInv, OnlyMined, Mined
<1>6. StoredTrue'
  <2>1. CASE PutRecord(l)
    BY Zenon, <1>1, <1>2, <2>1, PutIsTrue DEF TruthInv
  <2>2. CASE DeadLetter(l)
    <3>1. record' = record /\ \A k \in Logs : Stored(k)' = Stored(k)
      BY ZenonT(30), <1>1, <2>2 DEF DeadLetter, Stored, TrueSigners
    <3> QED
      BY Zenon, <3>1 DEF TruthInv, StoredTrue, Terminal, HasTerminal
  <2> QED
    BY Zenon, <2>1, <2>2
<1> QED
  BY Zenon, <1>3, <1>5, <1>6 DEF TruthInv

(* A block that is mined changes no slot table of an earlier one.          *)
LEMMA MineTruth ==
  ASSUME TruthInv, StoreTyped, Mine
  PROVE  TruthInv'
<1>1. PICK t \in SlotTables : slotAt' = [slotAt EXCEPT ![head + 1] = t]
  BY ZenonT(30) DEF Mine
<1>2. head < MaxHead /\ head' = head + 1 /\ UNCHANGED <<record, attempts, pc, domain, queue, cur, safeHead>>
  BY Zenon DEF Mine, store, proc
<1>3. ChainTyped'
  <2>1. head' \in 0 .. MaxHead
    BY <1>2, WatcherConstants DEF TruthInv, ChainTyped
  <2>2. slotAt' = [b \in 0 .. MaxHead |-> IF b = head + 1 THEN t ELSE slotAt[b]]
    BY ZenonT(30), <1>1 DEF TruthInv, ChainTyped
  <2>3. \A b \in 0 .. MaxHead : slotAt'[b] = IF b = head + 1 THEN t ELSE slotAt[b]
    BY Zenon, <2>2
  <2> QED
    BY Zenon, <2>1, <2>2, <2>3 DEF ChainTyped
<1>4. DomainAttested'
  BY Zenon, <1>2 DEF TruthInv, DomainAttested
<1>5. OnlyMined'
  BY <1>2, WatcherConstants DEF TruthInv, ChainTyped, OnlyMined, Mined, Accounted, Terminal, HasTerminal, StoreTyped, LocalsTyped
<1>6. \A k \in Logs : Mined(k) => slotAt'[LogBlock[k]] = slotAt[LogBlock[k]]
  BY SMTT(30), <1>1, <1>2, WatcherConstants DEF TruthInv, ChainTyped, Mined
<1>7. \A k \in Logs : Terminal(k)' => Terminal(k) /\ Mined(k)
  BY ZenonT(30), <1>2 DEF TruthInv, OnlyMined, Accounted, Terminal, HasTerminal
<1>8. StoredTrue'
  <2>1. record' = record
    BY Zenon, <1>2
  <2>2. \A k \in Logs : Mined(k) => Stored(k)' = Stored(k)
    BY ZenonT(30), <1>6 DEF Stored, TrueSigners
  <2> QED
    BY ZenonT(30), <1>7, <2>1, <2>2 DEF TruthInv, StoredTrue
<1> QED
  BY Zenon, <1>3, <1>4, <1>5, <1>8 DEF TruthInv

(* TruthInv is inductive relative to WatcherInv.                           *)
LEMMA InitTruth == Init => TruthInv
<1> SUFFICES ASSUME Init PROVE TruthInv
  BY Zenon
<1>1. PICK t \in SlotTables : slotAt = [b \in 0 .. MaxHead |-> t]
  BY Zenon DEF Init
<1>2. ChainTyped
  BY <1>1, WatcherConstants DEF Init, ChainTyped
<1>3. \A l \in Logs : ~Accounted(l)
  BY DEF Init, Accounted, Terminal, HasTerminal, Thrown, Proposals
<1>4. OnlyMined /\ StoredTrue
  BY <1>3 DEF Init, OnlyMined, StoredTrue, Accounted
<1>5. DomainAttested
  BY Zenon DEF Init, DomainAttested
<1> QED
  BY Zenon, <1>2, <1>4, <1>5 DEF TruthInv

LEMMA TickTruth ==
  ASSUME WatcherInv, TruthInv, Tick \/ TickFails
  PROVE  TruthInv'
<1>t. /\ StoreTyped /\ safeHead \in Int /\ cursor \in Int /\ head \in Nat /\ safeHead <= head
      /\ cur \subseteq Logs /\ queue \subseteq Logs
  BY WatcherConstants DEF WatcherInv, StoreTyped, LocalsTyped, TruthInv, ChainTyped, OnlyMined
<1>d. pc \notin {"down", "disabled"} /\ UNCHANGED domain => DomainAttested'
  BY Zenon DEF TruthInv, DomainAttested
<1>1. CASE TickStart
  <2>1. /\ UNCHANGED <<chain, store, cur, safeHead>> /\ DomainAttested'
        /\ queue' = {l \in Logs : attempts[l] > 0 /\ ~Parked(l)}
    BY Zenon, <1>1, <1>d DEF TickStart, proc
  <2>2. OnlyMined'
    BY ZenonT(30), <2>1
    DEF TruthInv, OnlyMined, Mined, Accounted, Terminal, HasTerminal, chain, store
  <2>3. \A k \in Logs : Stored(k)' = Stored(k)
    BY Zenon, <2>1 DEF chain, Stored, TrueSigners
  <2> QED
    BY Zenon, <2>1, <2>2, <2>3 DEF TruthInv, ChainTyped, StoredTrue, Terminal, HasTerminal, chain, store
<1>2. CASE RetryDone
  BY Zenon, <1>2, <1>t, <1>d, TruthUntouched DEF RetryDone, proc
<1>3. CASE ReadHead
  <2>1. UNCHANGED <<chain, store>> /\ DomainAttested'
    BY Zenon, <1>3, <1>d DEF ReadHead
  <2>2. safeHead' <= head /\ queue' \subseteq queue /\ cur' \subseteq cur
    BY <1>3, <1>t, WatcherConstants DEF ReadHead, Leave
  <2> QED
    BY Zenon, <2>1, <2>2, TruthUntouched
<1>4. CASE ScanRange
  <2>1. CASE cursor + 1 <= safeHead /\ ~stopping
    <3>1. /\ UNCHANGED <<chain, store, cur, safeHead>> /\ DomainAttested'
          /\ queue' = {l \in Logs : LogBlock[l] \in cursor + 1 .. ChunkEnd}
      BY Zenon, <1>4, <1>d, <2>1 DEF ScanRange, proc
    <3>2. ChunkEnd \in Int /\ ChunkEnd <= head
      BY <1>t, WatcherConstants DEF ChunkEnd
    <3>3. \A l \in queue' : l \in Logs /\ Mined(l)
      BY <1>t, <3>1, <3>2, WatcherConstants DEF Mined
    <3>4. OnlyMined'
      BY Zenon, <3>1, <3>3
      DEF TruthInv, OnlyMined, Mined, Accounted, Terminal, HasTerminal, chain, store
    <3>5. \A k \in Logs : Stored(k)' = Stored(k)
      BY ZenonT(30), <3>1 DEF chain, Stored, TrueSigners
    <3> QED
      BY Zenon, <3>1, <3>4, <3>5 DEF TruthInv, ChainTyped, StoredTrue, Terminal, HasTerminal, chain, store
  <2>2. CASE ~(cursor + 1 <= safeHead /\ ~stopping)
    BY <1>4, <1>t, <1>d, <2>2, TruthUntouched DEF ScanRange, Leave, proc
  <2> QED
    BY Zenon, <2>1, <2>2
<1>5. CASE AdvanceCursor
  <2>1. UNCHANGED <<chain, record, attempts, queue, cur, safeHead>> /\ DomainAttested'
    BY Zenon, <1>5, <1>d DEF AdvanceCursor, proc
  <2>2. \A k \in Logs : Stored(k)' = Stored(k)
    BY ZenonT(30), <2>1 DEF chain, Stored, TrueSigners
  <2> QED
    BY Zenon, <2>1, <2>2 DEF TruthInv, ChainTyped, OnlyMined, Mined, Accounted, StoredTrue, Terminal, HasTerminal, chain
<1>6. ASSUME NEW l \in Logs, RetryOne(l)
      PROVE  TruthInv'
  BY Zenon, <1>6, <1>t, <1>d, TruthUntouched DEF RetryOne, proc
<1>7. ASSUME NEW l \in Logs, Recapture(l)
      PROVE  TruthInv'
  <2>1. /\ pc \notin {"down", "disabled"} /\ Mined(l) /\ (PutRecord(l) \/ DeadLetter(l))
        /\ UNCHANGED <<chain, proc, safeHead>> /\ queue' \subseteq queue /\ cur' \subseteq cur
    BY Zenon, <1>7 DEF Recapture, TruthInv, OnlyMined
  <2> QED
    BY Zenon, <1>t, <2>1, CaptureTruth
<1>8. ASSUME NEW l \in Logs, ClearDeadLetter(l)
      PROVE  TruthInv'
  <2>1. /\ UNCHANGED <<chain, record, queue, safeHead>> /\ DomainAttested' /\ cur' = {}
        /\ attempts' = [attempts EXCEPT ![l] = 0]
    BY Zenon, <1>8, <1>d DEF ClearDeadLetter, proc
  <2>2. \A k \in Logs : attempts'[k] > 0 => attempts[k] > 0
    BY SMTT(30), <1>t, <2>1 DEF StoreTyped
  <2>3. OnlyMined'
    <3>1. record' = record /\ head' = head /\ queue' = queue /\ safeHead' = safeHead /\ cur' = {}
      BY ZenonT(30), <2>1 DEF chain
    <3>2. \A k \in Logs : (Accounted(k)' => Accounted(k)) /\ (Mined(k)' <=> Mined(k))
      BY ZenonT(30), <2>2, <3>1 DEF Accounted, Terminal, HasTerminal, Mined
    <3> QED
      BY ZenonT(30), <3>1, <3>2 DEF TruthInv, OnlyMined
  <2>4. \A k \in Logs : Stored(k)' = Stored(k)
    BY ZenonT(30), <2>1 DEF chain, Stored, TrueSigners
  <2> QED
    BY Zenon, <2>1, <2>3, <2>4 DEF TruthInv, ChainTyped, StoredTrue, Terminal, HasTerminal, chain
<1>9. ASSUME NEW l \in Logs, CaptureNext(l)
      PROVE  TruthInv'
  <2>1. pc = "capture" /\ l \in queue /\ UNCHANGED <<chain, proc>> /\ Mined(l)
    BY ZenonT(30), <1>9 DEF CaptureNext, TruthInv, OnlyMined
  <2>2. CASE UNCHANGED store
    <3>1. queue' \subseteq queue /\ cur' \subseteq cur /\ safeHead' <= head
      BY SMTT(60), <1>9, <1>t DEF CaptureNext, Leave
    <3> QED
      BY ZenonT(30), <1>d, <2>1, <2>2, <3>1, TruthUntouched DEF proc
  <2>3. CASE PutRecord(l) \/ DeadLetter(l)
    <3>1. CASE ~stopping
      BY ZenonT(30), <1>9, <1>t, <2>1, <2>3, <3>1, CaptureTruth DEF CaptureNext
    <3>2. CASE stopping
      BY ZenonT(30), <1>9, <2>2, <3>2 DEF CaptureNext
    <3> QED
      BY ZenonT(30), <3>1, <3>2
  <2> QED
    BY Zenon, <1>9, <2>2, <2>3 DEF CaptureNext
<1>10. CASE TickFails
  BY <1>10, <1>t, <1>d, TruthUntouched DEF TickFails, Leave
<1> QED
  BY Zenon, <1>1, <1>2, <1>3, <1>4, <1>5, <1>6, <1>7, <1>8, <1>9, <1>10 DEF Tick

LEMMA NextTruth == WatcherInv /\ TruthInv /\ [Next]_vars => TruthInv'
<1> SUFFICES ASSUME WatcherInv, TruthInv, [Next]_vars PROVE TruthInv'
  BY Zenon
<1>t. StoreTyped /\ safeHead \in Int /\ head \in Nat /\ safeHead <= head
  BY WatcherConstants DEF WatcherInv, StoreTyped, LocalsTyped, TruthInv, ChainTyped, OnlyMined
<1>1. CASE Tick \/ TickFails
  BY Zenon, <1>1, TickTruth
<1>2. CASE Mine
  BY Zenon, <1>2, <1>t, MineTruth
<1>3. CASE Shutdown
  <2>1. UNCHANGED <<chain, store, pc, domain, queue, cur, safeHead>>
    BY Zenon, <1>3 DEF Shutdown
  <2> QED
    BY Zenon, <1>t, <2>1, TruthUntouched DEF TruthInv, DomainAttested
<1>4. CASE Crash
  <2>1. UNCHANGED <<chain, store>> /\ DomainAttested' /\ queue' = {} /\ cur' = {} /\ safeHead' = 0
    BY Zenon, <1>4 DEF Crash, Leave, DomainAttested
  <2> QED
    BY <1>t, <2>1, TruthUntouched
<1>5. ASSUME NEW c \in Configs, Boot(c)
      PROVE  TruthInv'
  <2>1. UNCHANGED <<chain, store, queue, cur, safeHead>>
    BY Zenon, <1>5 DEF Boot
  <2>2. DomainAttested'
    <3>1. pc' \notin {"down", "disabled"} => BootstrapOk(c)
      BY Zenon, <1>5 DEF Boot
    <3>2. domain' = [chainId |-> c.chainId, aggregator |-> Aggregator.aggregator, registry |-> c.registry]
      BY Zenon, <1>5 DEF Boot
    <3> QED
      BY ZenonT(30), <3>1, <3>2 DEF DomainAttested, BootstrapOk, AttestDomain, DomainSeparator
  <2> QED
    BY Zenon, <1>t, <2>1, <2>2, TruthUntouched
<1>6. CASE UNCHANGED vars
  <2>1. UNCHANGED <<chain, store, pc, domain, queue, cur, safeHead>>
    BY Zenon, <1>6 DEF vars, proc
  <2> QED
    BY Zenon, <1>t, <2>1, TruthUntouched DEF TruthInv, DomainAttested
<1> QED
  BY Zenon, <1>1, <1>2, <1>3, <1>4, <1>5, <1>6 DEF Next

(* Whatever crashes, reassignments of slots, lagging reads and wrong       *)
(* configurations there are, a stored record names the validators that     *)
(* really signed and is quarantined only without a commitment, and a proof *)
(* assembled from it is accepted by the deployed verifier and accuses      *)
(* exactly those validators.                                               *)
THEOREM RecordsTrueHolds == Spec => []RecordsTrue
<1>1. StoredTrue => RecordsTrue
  <2> SUFFICES ASSUME StoredTrue PROVE RecordsTrue
    BY ZenonT(30)
  <2>1. CapturedSetIsTrue
    <3> SUFFICES ASSUME NEW l \in Logs, Terminal(l)
                 PROVE  /\ record[LogProposal[l]].signers = TrueSigners(l)
                        /\ record[LogProposal[l]].verified <=> LogTx[l].committed
      BY Zenon DEF CapturedSetIsTrue
    <3>1. record[LogProposal[l]] = Stored(l)
      BY Zenon DEF StoredTrue
    <3>2. Stored(l).signers = TrueSigners(l) /\ Stored(l).verified = LogTx[l].committed
      BY ZenonT(30) DEF Stored
    <3> QED
      BY ZenonT(30), <3>1, <3>2
  <2>2. AssembledAccepted
    <3> SUFFICES ASSUME NEW l \in Logs, NEW k \in Logs, Terminal(l), LogTx[l].args.repUsers = <<>>,
                        Assemble(record[LogProposal[l]], LogTx[k].args.token).ok
                 PROVE  LET a == Assemble(record[LogProposal[l]], LogTx[k].args.token) IN
                        /\ LogTx[k].args.token = LogTx[l].args.token
                        /\ a.guilty = TrueSigners(l)
                        /\ Verify(Aggregator, FraudProofDigest(Aggregator, a.id, a.guilty), a.id, a.guilty,
                                  a, Commitment(l), FALSE)
      BY ZenonT(30) DEF AssembledAccepted
    <3> DEFINE r     == record[LogProposal[l]]
               token == LogTx[k].args.token
               a     == Assemble(r, token)
               x     == LogTx[l].args
    <3>1. r = Stored(l)
      BY ZenonT(30) DEF StoredTrue
    <3>2. /\ r.proposal = LogProposal[l] /\ r.operator = x.operator /\ r.level = x.level
          /\ r.epoch = x.epoch /\ r.evidence = x.evidence /\ r.mask = x.mask
          /\ r.signers = TrueSigners(l) /\ r.verified = LogTx[l].committed
      <4>1. /\ Stored(l).proposal = LogProposal[l] /\ Stored(l).operator = x.operator
            /\ Stored(l).level = x.level /\ Stored(l).epoch = x.epoch
            /\ Stored(l).evidence = x.evidence /\ Stored(l).mask = x.mask
            /\ Stored(l).signers = TrueSigners(l) /\ Stored(l).verified = LogTx[l].committed
        BY ZenonT(30) DEF Stored
      <4> HIDE DEF r, x
      <4> QED
        BY ZenonT(30), <3>1, <4>1
    <3> HIDE DEF r
    <3>3. /\ r.verified /\ OverIssueEvidence(token, r.operator, r.epoch) = r.evidence
          /\ Len(r.signers) \in 1 .. MaxSlots /\ CanonicalOrder(r.signers)
          /\ a = [ok |-> TRUE, id |-> FraudProofId(r.proposal), guilty |-> r.signers,
                  proposal |-> r.proposal, operator |-> r.operator, level |-> r.level,
                  epoch |-> r.epoch, token |-> token, mask |-> r.mask, signers |-> r.signers]
      BY ZenonT(30) DEF Assemble, Thrown, r
    <3>4. token = x.token
      BY ZenonT(30), <3>2, <3>3, SlashConstants
    <3>5. Commitment(l) = SignersCommitment(Aggregator, LogProposal[l],
                            ExecuteSlashHash(Aggregator, LogProposal[l], x.operator, x.level, x.epoch, x.evidence),
                            x.mask, TrueSigners(l))
      BY ZenonT(30), <3>2, <3>3 DEF Commitment, TrueSigners
    <3>6. Commitment(l) # <<>>
      <4>1. \A d, proposal, message, mask, signers :
              SignersCommitment(d, proposal, message, mask, signers) # <<>>
        BY ZenonT(30) DEF SignersCommitment
      <4> QED
        BY ZenonT(30), <3>5, <4>1
    <3>7. /\ a.id = FraudProofId(r.proposal) /\ a.guilty = r.signers /\ a.proposal = r.proposal
          /\ a.operator = r.operator /\ a.level = r.level /\ a.epoch = r.epoch
          /\ a.token = token /\ a.mask = r.mask /\ a.signers = r.signers
      <4> HIDE DEF a, token
      <4> QED
        BY ZenonT(30), <3>3
    <3> HIDE DEF a, token
    <3>8. Verify(Aggregator, FraudProofDigest(Aggregator, a.id, a.guilty), a.id, a.guilty, a, Commitment(l), FALSE)
      <4>1. /\ a.id = FraudProofId(a.proposal) /\ a.guilty = a.signers
            /\ Len(a.signers) \in 1 .. MaxSlots /\ CanonicalOrder(a.signers)
        BY ZenonT(30), <3>3, <3>7
      <4>2. OverIssueEvidence(a.token, a.operator, a.epoch) = x.evidence
        BY ZenonT(30), <3>2, <3>3, <3>7
      <4>3. /\ a.proposal = LogProposal[l] /\ a.operator = x.operator /\ a.level = x.level
            /\ a.epoch = x.epoch /\ a.mask = x.mask /\ a.signers = TrueSigners(l)
        BY ZenonT(30), <3>2, <3>7
      <4> HIDE DEF x
      <4>4. Commitment(l) = SignersCommitment(Aggregator, a.proposal,
              ExecuteSlashHash(Aggregator, a.proposal, a.operator, a.level, a.epoch,
                               OverIssueEvidence(a.token, a.operator, a.epoch)),
              a.mask, a.signers)
        BY ZenonT(30), <3>5, <4>2, <4>3
      <4> QED
        BY ZenonT(30), <3>6, <4>1, <4>4 DEF Verify
    <3> QED
      BY ZenonT(30), <3>2, <3>4, <3>7, <3>8 DEF a, token, r
  <2> QED
    BY Zenon, <2>1, <2>2 DEF RecordsTrue
<1>2. TruthInv => RecordsTrue
  BY ZenonT(30), <1>1 DEF TruthInv
<1> QED
  BY <1>2, InitWatcher, NextWatcher, InitTruth, NextTruth, PTL DEF Spec

-----------------------------------------------------------------------------
(***************************************************************************)
(* The watch on the roles (RoleWatch)                                      *)
(***************************************************************************)

\* The operators of RoleWatch as functions of the log
EventsIn(lg, role, u, ps) == {i \in ps : lg[i].role = role /\ lg[i].user = u}
MembersIn(lg, role, ps) ==
  {u \in Users : \E i \in EventsIn(lg, role, u, ps) :
                   lg[i].add /\ \A j \in EventsIn(lg, role, u, ps) : j <= i}
UpToIn(lg, b) == {i \in 1..Len(lg) : lg[i].block <= b}
MembersAtIn(lg, b) == UNION {MembersIn(lg, r, UpToIn(lg, b)) : r \in Roles}

\* The log of role events: in block order, none above the head
LogEntries == [block : Int, role : Roles, user : Users, add : BOOLEAN]

LogInv ==
  /\ latest \in Int /\ RoleFromBlock + Confirmations <= latest
  /\ log \in Seq(LogEntries)
  /\ \A i \in 1..Len(log) : RoleFromBlock <= log[i].block /\ log[i].block <= latest
  /\ \A i, j \in 1..Len(log) : i < j => log[i].block <= log[j].block

\* What was read is final: no later event and no reorganisation reaches it
PinInv ==
  /\ pinned \in Int /\ pinned <= Finalized
  /\ derivedTo \in Int /\ derivedTo <= Finalized

\* Ranges that are read lie below the evidence block
RangeInv ==
  /\ ranges \subseteq [role : Roles, lo : Int, hi : Int]
  /\ \A r \in ranges : r.hi <= pinned

\* A role with members from the getter: no event of it counts
ByGetter(role) ==
  /\ role \notin viaGetter
  /\ \A r \in ranges : r.role # role
  /\ \A i \in events : log[i].role # role
  /\ MembersIn(log, role, UpToIn(log, pinned)) \subseteq members

\* A role from the scan: each event up to the evidence block was read, or is
\* in a range that has still to be read
ByScan(role) ==
  \A i \in UpToIn(log, pinned) :
    log[i].role = role =>
      \/ i \in events
      \/ \E r \in ranges : r.role = role /\ r.lo <= log[i].block /\ log[i].block <= r.hi

DeriveInv ==
  /\ RangeInv
  /\ events \subseteq UpToIn(log, pinned)
  /\ members \subseteq MembersAtIn(log, pinned)
  /\ \A role \in viaGetter : \A i \in events : log[i].role # role
  /\ \A role \in Roles : ByGetter(role) \/ ByScan(role)

\* Outside a derivation its locals are empty
IdleInv == viaGetter = {} /\ ranges = {} /\ events = {} /\ members = {}

RoleInv ==
  /\ LogInv
  /\ PinInv
  /\ IF at = "derive" THEN DeriveInv ELSE IdleInv
  /\ RolesTrue

\* These are the operators of RoleWatch at the current log.
LEMMA RoleOperators ==
  /\ \A b : UpTo(b) = UpToIn(log, b)
  /\ \A role, ps : MembersOf(role, ps) = MembersIn(log, role, ps)
  /\ \A b : MembersAt(b) = MembersAtIn(log, b)
BY ZenonT(30) DEF UpTo, UpToIn, MembersOf, MembersIn, MembersAt, MembersAtIn, EventsOf, EventsIn

\* The members depend on the events that count, and on no other part of the log.
LEMMA MembersSame ==
  ASSUME NEW lg1, NEW lg2, NEW role, NEW ps, \A i \in ps : lg1[i] = lg2[i]
  PROVE  MembersIn(lg1, role, ps) = MembersIn(lg2, role, ps)
<1>1. \A u : EventsIn(lg1, role, u, ps) = EventsIn(lg2, role, u, ps)
  BY Zenon DEF EventsIn
<1>2. \A u : EventsIn(lg1, role, u, ps) \subseteq ps
  BY Zenon DEF EventsIn
<1> QED BY <1>1, <1>2 DEF MembersIn

\* The members of a role depend on the events of that role alone: a scan of each
\* role by itself loses nothing.
LEMMA MembersScan ==
  ASSUME NEW lg, NEW role, NEW ps, NEW qs,
         \A i \in ps \cup qs : lg[i].role = role => (i \in ps <=> i \in qs)
  PROVE  MembersIn(lg, role, ps) = MembersIn(lg, role, qs)
<1>1. \A u : EventsIn(lg, role, u, ps) = EventsIn(lg, role, u, qs)
  BY Zenon DEF EventsIn
<1> QED BY <1>1 DEF MembersIn

\* A role of which no event counts has no member.
LEMMA MembersNone ==
  ASSUME NEW lg, NEW role, NEW ps, \A i \in ps : lg[i].role # role
  PROVE  MembersIn(lg, role, ps) = {}
BY Zenon DEF MembersIn, EventsIn

\* The loop over start, start + step, ... has a chunk for every distance from the
\* start.
LEMMA ChunkStart ==
  ASSUME NEW c \in Nat \ {0}, NEW d \in Nat
  PROVE  \E k \in 0..d : k * c <= d /\ d < k * c + c
<1> DEFINE k == d \div c
<1>1. k \in 0..d
  BY SMT
<1>2. d = c * k + (d % c) /\ d % c \in 0..(c - 1)
  BY SMT
<1>3. c * k = k * c /\ k * c \in Int
  BY SMT
<1>4. k * c <= d /\ d < k * c + c
  <2> DEFINE m == k * c
             rest == d % c
  <2>1. d = m + rest /\ m \in Int /\ rest \in 0..(c - 1)
    BY Zenon, <1>2, <1>3
  <2> HIDE DEF m, rest
  <2>2. m <= d /\ d < m + c
    BY <2>1
  <2> QED BY Zenon, <2>2 DEF m
<1> HIDE DEF k
<1> QED BY Zenon, <1>1, <1>4

\* The chunks of getRegisteredOperators cover every block up to the evidence block
\* and reach no further.
LEMMA ChunksCover ==
  ASSUME NEW role \in Roles, NEW to \in Int
  PROVE  /\ \A r \in Chunks(role, to) : r \in [role : Roles, lo : Int, hi : Int]
                                       /\ r.role = role /\ r.hi <= to
         /\ \A b \in RoleFromBlock..to :
              \E r \in Chunks(role, to) : r.role = role /\ r.lo <= b /\ b <= r.hi
<1> USE RoleAssumption
<1>1. ASSUME NEW r \in Chunks(role, to)
      PROVE  r \in [role : Roles, lo : Int, hi : Int] /\ r.role = role /\ r.hi <= to
  <2>1. PICK s \in RoleFromBlock..to :
          r = [role |-> role, lo |-> s, hi |-> IF s + ChunkSize - 1 < to THEN s + ChunkSize - 1 ELSE to]
    BY ZenonT(30) DEF Chunks
  <2> QED BY SMTT(30), <2>1
<1>2. ASSUME NEW b \in RoleFromBlock..to
      PROVE  \E r \in Chunks(role, to) : r.role = role /\ r.lo <= b /\ b <= r.hi
  <2>1. PICK k \in 0..(b - RoleFromBlock) :
          k * ChunkSize <= b - RoleFromBlock /\ b - RoleFromBlock < k * ChunkSize + ChunkSize
    <3>1. ChunkSize \in Nat \ {0} /\ b - RoleFromBlock \in Nat
      OBVIOUS
    <3> QED BY ZenonT(30), <3>1, ChunkStart
  <2> DEFINE m == k * ChunkSize
             s == RoleFromBlock + m
             hi == IF s + ChunkSize - 1 < to THEN s + ChunkSize - 1 ELSE to
             r == [role |-> role, lo |-> s, hi |-> hi]
  <2>2. m \in Nat
    <3>1. \A x, y \in Nat : x * y \in Nat
      BY ONLY SMT
    <3> QED BY <3>1
  <2>3. k \in 0..to
    OBVIOUS
  <2>4. s \in RoleFromBlock..to
    BY <2>1, <2>2
  <2>5. r \in Chunks(role, to)
    BY ZenonT(30), <2>3, <2>4 DEF Chunks
  <2>6. s <= b /\ b <= hi
    <3> HIDE DEF m
    <3> QED BY <2>1, <2>2 DEF m
  <2> QED BY Zenon, <2>5, <2>6
<1> QED BY Zenon, <1>1, <1>2

\* What is final stays as it is
Kept ==
  \A b \in Int : b <= Finalized =>
    /\ UpToIn(log', b) = UpToIn(log, b)
    /\ \A i \in UpToIn(log, b) : log'[i] = log[i]

\* The blocks of a log are numbers.
LEMMA LogBlocks ==
  ASSUME NEW lg \in Seq(LogEntries)
  PROVE  \A i \in 1..Len(lg) : lg[i].block \in Int
<1> TAKE i \in 1..Len(lg)
<1>1. lg[i] \in LogEntries
  OBVIOUS
<1> QED BY Zenon, <1>1 DEF LogEntries

\* A role event is mined at the head, above what is final.
LEMMA RoleEventKeeps ==
  ASSUME LogInv, NEW role \in Roles, NEW u \in Users, RoleEvent(role, u)
  PROVE  LogInv' /\ Kept
<1> USE RoleAssumption
<1> DEFINE e == [block |-> latest, role |-> role, user |-> u, add |-> ~HasRole(role, u, latest)]
<1>1. e \in LogEntries
  <2>1. (~HasRole(role, u, latest)) \in BOOLEAN
    BY ZenonT(30)
  <2>2. latest \in Int
    BY Zenon DEF LogInv
  <2> HIDE DEF HasRole
  <2> QED BY Zenon, <2>1, <2>2 DEF LogEntries
<1>2. e.block = latest
  BY Zenon
<1>3. log' = Append(log, e) /\ latest' = latest
  BY ZenonT(30) DEF RoleEvent
<1> HIDE DEF e
<1>4. /\ log' \in Seq(LogEntries) /\ Len(log') = Len(log) + 1
      /\ \A i \in 1..Len(log) : log'[i] = log[i]
      /\ log'[Len(log) + 1] = e
      /\ Len(log) \in Nat
  BY SMTT(30), <1>1, <1>3 DEF LogInv
<1>5. \A i \in 1..Len(log) : log[i].block \in Int
  BY ZenonT(30), LogBlocks DEF LogInv
<1>6. RoleFromBlock <= latest
  BY SMTT(30) DEF LogInv
<1>7. LogInv'
  BY SMTT(60), <1>2, <1>3, <1>4, <1>5, <1>6 DEF LogInv
<1>8. Kept
  BY <1>2, <1>3, <1>4, <1>5 DEF Kept, UpToIn, Finalized, LogInv
<1> QED BY ZenonT(30), <1>7, <1>8

\* A new block changes no event.
LEMMA NextBlockKeeps ==
  ASSUME LogInv, NextBlock
  PROVE  LogInv' /\ Kept
<1>1. \A i \in 1..Len(log) : log[i].block \in Int
  BY ZenonT(30), LogBlocks DEF LogInv
<1> QED BY SMTT(60), <1>1, RoleAssumption DEF LogInv, Kept, NextBlock, UpToIn

\* A reorganisation replaces the head block, which is not final: the finality depth
\* is at least one block.
LEMMA ReorgKeeps ==
  ASSUME LogInv, Reorg
  PROVE  LogInv' /\ Kept
<1> USE RoleAssumption
<1>1. PICK kept \in 0..(Len(log) - 1) :
        /\ \A i \in 1..Len(log) : log[i].block = latest <=> i > kept
        /\ log' = SubSeq(log, 1, kept)
  BY Zenon DEF Reorg
<1>2. /\ log' \in Seq(LogEntries) /\ Len(log') = kept /\ Len(log) \in Nat
      /\ \A i \in 1..kept : log'[i] = log[i]
  BY <1>1 DEF LogInv
<1>3. latest' = latest
  BY Zenon DEF Reorg
<1>4. \A i \in 1..Len(log) : log[i].block \in Int
  BY ZenonT(30), LogBlocks DEF LogInv
<1>5. LogInv'
  <2>1. 1..Len(log') \subseteq 1..Len(log) /\ \A i \in 1..Len(log') : log'[i] = log[i]
    BY SMTT(30), <1>1, <1>2
  <2>2. /\ \A i \in 1..Len(log) : RoleFromBlock <= log[i].block /\ log[i].block <= latest
        /\ \A i, j \in 1..Len(log) : i < j => log[i].block <= log[j].block
        /\ latest \in Int /\ RoleFromBlock + Confirmations <= latest
    BY ZenonT(30) DEF LogInv
  <2>3. (\A i \in 1..Len(log) : RoleFromBlock <= log[i].block /\ log[i].block <= latest)'
    BY ZenonT(30), <1>3, <2>1, <2>2
  <2>4. (\A i, j \in 1..Len(log) : i < j => log[i].block <= log[j].block)'
    BY ZenonT(30), <2>1, <2>2
  <2> QED BY ZenonT(30), <1>2, <1>3, <2>2, <2>3, <2>4 DEF LogInv
<1>6. Kept
  BY SMTT(30), <1>1, <1>2, <1>3, <1>4 DEF Kept, UpToIn, Finalized, LogInv
<1> QED BY Zenon, <1>5, <1>6

\* So the members at a final block stay the same.
LEMMA KeptMembers ==
  ASSUME Kept
  PROVE  \A b \in Int : b <= Finalized =>
           /\ UpToIn(log', b) = UpToIn(log, b)
           /\ \A i \in UpToIn(log, b) : log'[i] = log[i]
           /\ \A role : MembersIn(log', role, UpToIn(log', b)) = MembersIn(log, role, UpToIn(log, b))
           /\ MembersAtIn(log', b) = MembersAtIn(log, b)
<1> TAKE b \in Int
<1> HAVE b <= Finalized
<1>1. /\ UpToIn(log', b) = UpToIn(log, b)
      /\ \A i \in UpToIn(log, b) : log'[i] = log[i]
  BY Zenon DEF Kept
<1>2. \A role : MembersIn(log', role, UpToIn(log', b)) = MembersIn(log, role, UpToIn(log, b))
  BY <1>1, MembersSame
<1> QED BY ZenonT(30), <1>1, <1>2 DEF MembersAtIn

\* What the chain does during a derivation does not disturb it.
LEMMA ChainStepKeepsInv ==
  ASSUME RoleInv, LogInv', Kept, latest' \in Int, latest <= latest',
         UNCHANGED <<at, pinned, viaGetter, ranges, events, members, derived, derivedTo, wronged>>,
         sinceSuccess' # Never => sinceSuccess # Never
  PROVE  RoleInv'
<1> USE DEF RoleInv
<1>1. PinInv'
  <2>1. PinInv /\ latest \in Int /\ Confirmations \in Int
    BY RoleAssumption DEF LogInv
  <2>2. \A h, k, c, b \in Int : h <= k /\ b <= h - c => b <= k - c
    BY ONLY SMT
  <2> HIDE DEF RoleInv
  <2> QED BY ZenonT(30), <2>1, <2>2 DEF PinInv, Finalized
<1> DEFINE Same(b) ==
      /\ UpToIn(log', b) = UpToIn(log, b)
      /\ \A i \in UpToIn(log, b) : log'[i] = log[i]
      /\ \A role : MembersIn(log', role, UpToIn(log', b)) = MembersIn(log, role, UpToIn(log, b))
      /\ MembersAtIn(log', b) = MembersAtIn(log, b)
<1>2. Same(pinned) /\ Same(derivedTo)
  BY Zenon, KeptMembers DEF PinInv
<1>3. ASSUME at = "derive" PROVE DeriveInv'
  <2>1. DeriveInv
    BY ZenonT(30), <1>3
  <2>2. RangeInv'
    BY ZenonT(30), <2>1 DEF DeriveInv, RangeInv
  <2>3. (events \subseteq UpToIn(log, pinned))' /\ (members \subseteq MembersAtIn(log, pinned))'
    BY ZenonT(30), <2>1, <1>2 DEF DeriveInv
  <2>4. \A i \in events : log'[i] = log[i]
    BY ZenonT(30), <2>1, <1>2 DEF DeriveInv
  <2>5. (\A role \in viaGetter : \A i \in events : log[i].role # role)'
    BY ZenonT(30), <2>1, <2>4 DEF DeriveInv
  <2>6. ASSUME NEW role \in Roles PROVE ByGetter(role)' \/ ByScan(role)'
    <3>1. CASE ByGetter(role)
      BY ZenonT(30), <3>1, <2>4, <1>2 DEF ByGetter
    <3>2. CASE ByScan(role)
      <4> HIDE DEF RoleInv
      <4> QED BY ZenonT(30), <3>2, <1>2 DEF ByScan
    <3> QED BY Zenon, <2>1, <3>1, <3>2 DEF DeriveInv
  <2> QED BY Zenon, <2>2, <2>3, <2>5, <2>6 DEF DeriveInv
<1>4. RolesTrue'
  <2>1. MembersAt(derivedTo) = MembersAtIn(log, derivedTo)
    BY ZenonT(30), RoleOperators
  <2>2. MembersAt(derivedTo)' = MembersAtIn(log', derivedTo)
    BY SMTT(60)
    DEF UpTo, UpToIn, MembersOf, MembersIn, MembersAt, MembersAtIn, EventsOf, EventsIn
  <2> QED BY Zenon, <1>2, <2>1, <2>2 DEF RolesTrue, DerivedIsMembership, SlashedHeldRole
<1>5. at # "derive" => IdleInv'
  BY Zenon DEF IdleInv
<1> QED BY Zenon, <1>1, <1>3, <1>4, <1>5

\* The invariant holds when the process starts.
LEMMA RoleInitInv == RoleInit => RoleInv
<1> SUFFICES ASSUME RoleInit PROVE RoleInv
  BY Zenon
<1> USE RoleAssumption DEF RoleInit
<1>1. LogInv
  <2>1. log \in Seq(LogEntries) /\ Len(log) = 0
    OBVIOUS
  <2> QED BY <2>1 DEF LogInv
<1>2. PinInv
  BY DEF PinInv, Finalized
<1>3. RolesTrue
  BY Zenon DEF RolesTrue, DerivedIsMembership, SlashedHeldRole
<1> QED BY Zenon, <1>1, <1>2, <1>3 DEF RoleInv, IdleInv

\* Time, and the steps of a tick outside the derivation
LEMMA QuietStep ==
  ASSUME RoleInv, UNCHANGED <<latest, log, viaGetter, ranges, events, members, derived, derivedTo>>,
         at # "derive" /\ at' # "derive", PinInv', ~wronged',
         sinceSuccess' # Never => sinceSuccess # Never
  PROVE  RoleInv'
<1>1. LogInv' /\ IdleInv'
  BY ZenonT(30) DEF RoleInv, LogInv, IdleInv
<1>2. MembersAt(derivedTo)' = MembersAt(derivedTo)
  BY DEF UpTo, MembersOf, MembersAt, EventsOf
<1>3. RolesTrue'
  BY Zenon, <1>2 DEF RoleInv, RolesTrue, DerivedIsMembership, SlashedHeldRole
<1> QED BY ZenonT(30), <1>1, <1>3 DEF RoleInv

\* Time makes a set older and changes nothing in it.
LEMMA TimePassesInv ==
  ASSUME RoleInv, TimePasses
  PROVE  RoleInv'
<1>1. /\ UNCHANGED <<latest, log, at, pinned, viaGetter, ranges, events, members, derived, derivedTo, wronged>>
      /\ sinceSuccess' # Never => sinceSuccess # Never
  BY ZenonT(30) DEF TimePasses, Advance, chainVars, scanVars, derivedVars
<1>2. LogInv' /\ Kept
  BY ZenonT(30), <1>1 DEF RoleInv, LogInv, Kept
<1>3. latest' \in Int /\ latest <= latest'
  BY <1>1 DEF RoleInv, LogInv
<1> QED BY ZenonT(30), <1>1, <1>2, <1>3, ChainStepKeepsInv

\* Every step of the chain keeps the invariant.
LEMMA ChainInv ==
  ASSUME RoleInv,
         \/ \E role \in Roles, u \in Users : RoleEvent(role, u)
         \/ NextBlock
         \/ Reorg
  PROVE  RoleInv'
<1>1. LogInv
  BY Zenon DEF RoleInv
<1>2. LogInv' /\ Kept
  BY Zenon, <1>1, RoleEventKeeps, NextBlockKeeps, ReorgKeeps
<1>3. /\ UNCHANGED <<at, pinned, viaGetter, ranges, events, members, derived, derivedTo, wronged, sinceSuccess>>
      /\ latest' \in {latest, latest + 1}
  BY ZenonT(30) DEF RoleEvent, NextBlock, Reorg, scanVars, derivedVars, clockVars
<1>4. latest' \in Int /\ latest <= latest'
  BY SMTT(60), <1>1, <1>3 DEF LogInv
<1> QED BY Zenon, <1>2, <1>3, <1>4, ChainStepKeepsInv

\* The steps of a derivation leave the log, the evidence block and the derived
\* set alone
DeriveStep ==
  /\ at = "derive" /\ at' = "derive"
  /\ UNCHANGED <<latest, log, pinned, derived, derivedTo, sinceSuccess, wronged>>

\* A step of a derivation keeps the invariant if it keeps the derivation's part.
LEMMA DeriveStepInv ==
  ASSUME RoleInv, DeriveStep, DeriveInv'
  PROVE  RoleInv'
<1>1. LogInv' /\ PinInv'
  BY ZenonT(30) DEF RoleInv, DeriveStep, LogInv, PinInv, Finalized
<1>2. MembersAt(derivedTo)' = MembersAt(derivedTo)
  BY DEF DeriveStep, UpTo, MembersOf, MembersAt, EventsOf
<1>3. RolesTrue'
  BY Zenon, <1>2 DEF RoleInv, DeriveStep, RolesTrue, DerivedIsMembership, SlashedHeldRole
<1> QED BY ZenonT(30), <1>1, <1>3 DEF RoleInv, DeriveStep

\* getRoleMembers at the evidence block: the role leaves the scan.
LEMMA ReadGetterInv ==
  ASSUME RoleInv, NEW role \in Roles, ReadGetter(role)
  PROVE  RoleInv'
<1>1. DeriveStep
  BY Zenon DEF DeriveStep, ReadGetter, chainVars, derivedVars, clockVars
<1>2. DeriveInv
  BY ZenonT(30), <1>1 DEF RoleInv, DeriveStep
<1>3. /\ role \in viaGetter /\ viaGetter' = viaGetter \ {role}
      /\ ranges' = {r \in ranges : r.role # role}
      /\ members' = members \cup MembersIn(log, role, UpToIn(log, pinned))
      /\ events' = events /\ log' = log /\ pinned' = pinned
  BY Zenon, RoleOperators DEF ReadGetter, chainVars
<1>4. RangeInv'
  BY Zenon, <1>2, <1>3 DEF DeriveInv, RangeInv
<1>5. (members \subseteq MembersAtIn(log, pinned))'
  BY Zenon, <1>2, <1>3 DEF DeriveInv, MembersAtIn
<1>6. ASSUME NEW other \in Roles PROVE ByGetter(other)' \/ ByScan(other)'
  <2>1. CASE other = role
    <3>1. \A i \in events : log[i].role # role
      BY ZenonT(30), <1>2, <1>3 DEF DeriveInv
    <3> QED BY ZenonT(30), <1>3, <2>1, <3>1 DEF ByGetter
  <2>2. CASE other # role
    <3>1. CASE ByGetter(other)
      BY ZenonT(30), <1>3, <3>1 DEF ByGetter
    <3>2. CASE ByScan(other)
      BY ZenonT(30), <1>3, <2>2, <3>2 DEF ByScan
    <3> QED BY Zenon, <1>2, <3>1, <3>2 DEF DeriveInv
  <2> QED BY Zenon, <2>1, <2>2
<1>7. DeriveInv'
  <2>1. (events \subseteq UpToIn(log, pinned))' /\ (\A r \in viaGetter : \A i \in events : log[i].role # r)'
    BY ZenonT(30), <1>2, <1>3 DEF DeriveInv
  <2> QED BY ZenonT(30), <1>4, <1>5, <1>6, <2>1 DEF DeriveInv
<1> QED BY Zenon, <1>1, <1>7, DeriveStepInv

\* A getter that fails leaves the role to the scan, whose ranges are all there.
LEMMA GetterFailsInv ==
  ASSUME RoleInv, NEW role \in Roles, GetterFails(role)
  PROVE  RoleInv'
<1>1. DeriveStep
  BY Zenon DEF DeriveStep, GetterFails, chainVars, derivedVars, clockVars
<1>2. DeriveInv
  BY Zenon, <1>1 DEF RoleInv, DeriveStep
<1>3. viaGetter' = viaGetter \ {role} /\ UNCHANGED <<ranges, events, members, log, pinned>>
  BY Zenon DEF GetterFails, chainVars
<1>4. \A other \in Roles : ByGetter(other)' \/ ByScan(other)'
  <2>1. \A other \in Roles : ByGetter(other) => ByGetter(other)'
    BY ZenonT(30), <1>3 DEF ByGetter
  <2>2. \A other \in Roles : ByScan(other) => ByScan(other)'
    BY ZenonT(30), <1>3 DEF ByScan
  <2> QED BY Zenon, <1>2, <2>1, <2>2 DEF DeriveInv
<1>5. RangeInv'
  BY Zenon, <1>2, <1>3 DEF DeriveInv, RangeInv
<1>6. DeriveInv'
  BY ZenonT(30), <1>2, <1>3, <1>4, <1>5 DEF DeriveInv
<1> QED BY Zenon, <1>1, <1>6, DeriveStepInv

\* A range to be read holds final events only.
LEMMA InRangeOf ==
  ASSUME RoleInv, NEW r \in ranges, DeriveInv
  PROVE  /\ InRange(r) = {i \in UpToIn(log, pinned) :
                           log[i].role = r.role /\ r.lo <= log[i].block /\ log[i].block <= r.hi}
         /\ r.role \in Roles /\ r.lo \in Int /\ r.hi \in Int /\ r.hi <= pinned
         /\ pinned \in Int
         /\ \A i \in UpToIn(log, pinned) : log[i].block \in Int
<1>1. r.role \in Roles /\ r.lo \in Int /\ r.hi \in Int /\ r.hi <= pinned
  <2>1. r \in [role : Roles, lo : Int, hi : Int] /\ r.hi <= pinned
    BY Zenon DEF DeriveInv, RangeInv
  <2> QED BY Zenon, <2>1
<1>2. pinned \in Int
  BY Zenon DEF RoleInv, PinInv
<1>3. \A i \in 1..Len(log) : log[i].block \in Int
  BY Zenon, LogBlocks DEF RoleInv, LogInv
<1> QED BY SMTT(60), <1>1, <1>2, <1>3 DEF InRange, UpToIn

\* A range that is read moves its events from the unread to the read ones.
LEMMA ReadRangeInv ==
  ASSUME RoleInv, NEW r \in ranges, ReadRange(r)
  PROVE  RoleInv'
<1>1. DeriveStep
  BY Zenon DEF DeriveStep, ReadRange, chainVars, derivedVars, clockVars
<1>2. DeriveInv
  BY Zenon, <1>1 DEF RoleInv, DeriveStep
<1>3. /\ r.role \notin viaGetter
      /\ events' = events \cup InRange(r) /\ ranges' = ranges \ {r}
      /\ UNCHANGED <<viaGetter, members, log, pinned>>
  BY ZenonT(30) DEF ReadRange, chainVars
<1>4. InRange(r) = {i \in UpToIn(log, pinned) :
                     log[i].role = r.role /\ r.lo <= log[i].block /\ log[i].block <= r.hi}
  BY ZenonT(30), <1>2, InRangeOf
<1>5. RangeInv'
  BY Zenon, <1>2, <1>3 DEF DeriveInv, RangeInv
<1>6. ASSUME NEW other \in Roles PROVE ByGetter(other)' \/ ByScan(other)'
  <2>1. CASE ByGetter(other)
    BY ZenonT(30), <1>3, <1>4, <2>1 DEF ByGetter
  <2>2. CASE ByScan(other)
    BY ZenonT(30), <1>3, <1>4, <2>2 DEF ByScan
  <2> QED BY Zenon, <1>2, <2>1, <2>2 DEF DeriveInv
<1>7. DeriveInv'
  <2>1. (events \subseteq UpToIn(log, pinned))' /\ (members \subseteq MembersAtIn(log, pinned))'
    BY ZenonT(30), <1>2, <1>3, <1>4 DEF DeriveInv
  <2>2. (\A role \in viaGetter : \A i \in events : log[i].role # role)'
    BY ZenonT(30), <1>2, <1>3, <1>4 DEF DeriveInv
  <2> QED BY Zenon, <1>5, <1>6, <2>1, <2>2 DEF DeriveInv
<1> QED BY ZenonT(30), <1>1, <1>7, DeriveStepInv

\* An integer is at most another one, or beyond it.
LEMMA BesideInt ==
  ASSUME NEW m \in Int, NEW n \in Int
  PROVE  m <= n \/ n + 1 <= m
OBVIOUS

\* The halves of a range cover it: no block between them is lost.
LEMMA HalveRangeInv ==
  ASSUME RoleInv, NEW r \in ranges, HalveRange(r)
  PROVE  RoleInv'
<1> DEFINE mid == (r.lo + r.hi) \div 2
           lower == [r EXCEPT !.hi = mid]
           upper == [r EXCEPT !.lo = mid + 1]
<1>1. DeriveStep
  BY Zenon DEF DeriveStep, HalveRange, chainVars, derivedVars, clockVars
<1>2. DeriveInv
  BY Zenon, <1>1 DEF RoleInv, DeriveStep
<1>3. /\ r.hi > r.lo
      /\ ranges' = (ranges \ {r}) \cup {lower, upper}
      /\ UNCHANGED <<events, viaGetter, members, log, pinned>>
  BY Zenon DEF HalveRange, chainVars
<1>4. /\ r.role \in Roles /\ r.lo \in Int /\ r.hi \in Int /\ r.hi <= pinned /\ pinned \in Int
      /\ \A i \in UpToIn(log, pinned) : log[i].block \in Int
  BY ZenonT(30), <1>2, InRangeOf
<1>5. mid \in Int /\ r.lo <= mid /\ mid < r.hi
  BY <1>3, <1>4
<1>6. r \in [role : Roles, lo : Int, hi : Int]
  BY Zenon, <1>2 DEF DeriveInv, RangeInv
<1> HIDE DEF mid
<1>7. /\ lower \in [role : Roles, lo : Int, hi : Int] /\ upper \in [role : Roles, lo : Int, hi : Int]
      /\ lower.role = r.role /\ lower.lo = r.lo /\ lower.hi = mid
      /\ upper.role = r.role /\ upper.lo = mid + 1 /\ upper.hi = r.hi
  BY SMTT(30), <1>5, <1>6
<1> HIDE DEF lower, upper
<1>8. RangeInv'
  <2>1. lower.hi <= pinned /\ upper.hi <= pinned
    BY SMTT(30), <1>4, <1>5, <1>7
  <2> QED BY ZenonT(30), <1>2, <1>3, <1>7, <2>1 DEF DeriveInv, RangeInv
<1>9. ASSUME NEW other \in Roles PROVE ByGetter(other)' \/ ByScan(other)'
  <2>1. CASE ByGetter(other)
    <3>1. r.role # other
      BY ZenonT(30), <2>1 DEF ByGetter
    <3> QED BY Zenon, <1>3, <1>7, <2>1, <3>1 DEF ByGetter
  <2>2. CASE ByScan(other)
    <3> SUFFICES ASSUME NEW i \in UpToIn(log, pinned), log[i].role = other, i \notin events
                 PROVE  \E q \in ranges' : q.role = other /\ q.lo <= log[i].block /\ log[i].block <= q.hi
      BY ZenonT(30), <1>3, <2>2 DEF ByScan
    <3>1. PICK q \in ranges : q.role = other /\ q.lo <= log[i].block /\ log[i].block <= q.hi
      BY ZenonT(30), <2>2 DEF ByScan
    <3>2. CASE q # r
      BY ZenonT(30), <1>3, <3>1, <3>2
    <3>3. CASE q = r
      <4>1. log[i].block <= mid \/ mid + 1 <= log[i].block
        BY ZenonT(30), <1>4, <1>5, BesideInt
      <4>2. CASE log[i].block <= mid
        BY ZenonT(30), <1>3, <1>7, <3>1, <3>3, <4>2
      <4>3. CASE mid + 1 <= log[i].block
        BY ZenonT(30), <1>3, <1>7, <3>1, <3>3, <4>3
      <4> QED BY ZenonT(30), <4>1, <4>2, <4>3
    <3> QED BY ZenonT(30), <3>2, <3>3
  <2> QED BY Zenon, <1>2, <2>1, <2>2 DEF DeriveInv
<1>10. DeriveInv'
  <2>1. /\ (events \subseteq UpToIn(log, pinned))' /\ (members \subseteq MembersAtIn(log, pinned))'
        /\ (\A role \in viaGetter : \A i \in events : log[i].role # role)'
    BY Zenon, <1>2, <1>3 DEF DeriveInv
  <2> QED BY ZenonT(30), <1>8, <1>9, <2>1 DEF DeriveInv
<1> QED BY Zenon, <1>1, <1>10, DeriveStepInv

\* The end of a derivation, with the set it had or with a new one
LEMMA EndRefreshInv ==
  ASSUME RoleInv, EndRefresh, UNCHANGED <<latest, log, pinned, wronged>>,
         \/ UNCHANGED <<derived, derivedTo, sinceSuccess>>
         \/ derived' = MembersAtIn(log, pinned) /\ derivedTo' = pinned
  PROVE  RoleInv'
<1>1. LogInv'
  BY Zenon DEF RoleInv, LogInv
<1>2. PinInv'
  BY Zenon DEF RoleInv, PinInv, Finalized
<1>3. at' # "derive" /\ IdleInv'
  BY ZenonT(30) DEF EndRefresh, IdleInv
<1>4. MembersAt(derivedTo)' = MembersAtIn(log, derivedTo')
  BY SMTT(60) DEF UpTo, UpToIn, MembersOf, MembersIn, MembersAt, MembersAtIn, EventsOf, EventsIn
<1>5. MembersAt(derivedTo) = MembersAtIn(log, derivedTo)
  BY Zenon, RoleOperators
<1>6. RolesTrue'
  BY Zenon, <1>4, <1>5 DEF RoleInv, RolesTrue, DerivedIsMembership, SlashedHeldRole
<1> QED BY ZenonT(30), <1>1, <1>2, <1>3, <1>6 DEF RoleInv

\* A derivation that fails keeps the set there was.
LEMMA DeriveFailsInv ==
  ASSUME RoleInv, NEW r \in ranges, DeriveFails(r)
  PROVE  RoleInv'
BY ZenonT(30), EndRefreshInv DEF DeriveFails, chainVars, derivedVars, clockVars

\* With no range left, what was read is the membership at the evidence block.
LEMMA DeriveActionInv ==
  ASSUME RoleInv, Derive
  PROVE  RoleInv'
<1>1. DeriveInv /\ ranges = {}
  BY ZenonT(30) DEF RoleInv, Derive
<1>2. derived' = members \cup UNION {MembersIn(log, role, events) : role \in Roles}
  BY ZenonT(30), RoleOperators DEF Derive
<1>3. \A role \in Roles :
        \/ MembersIn(log, role, events) = MembersIn(log, role, UpToIn(log, pinned))
        \/ /\ MembersIn(log, role, events) = {}
           /\ MembersIn(log, role, UpToIn(log, pinned)) \subseteq members
  <2> TAKE role \in Roles
  <2>1. CASE ByGetter(role)
    BY ZenonT(30), <2>1, MembersNone DEF ByGetter
  <2>2. CASE ByScan(role)
    <3>1. \A i \in events \cup UpToIn(log, pinned) :
            log[i].role = role => (i \in events <=> i \in UpToIn(log, pinned))
      BY ZenonT(30), <1>1, <2>2 DEF ByScan, DeriveInv
    <3> QED BY ZenonT(30), <3>1, MembersScan
  <2> QED BY ZenonT(30), <1>1, <2>1, <2>2 DEF DeriveInv
<1>4. derived' = MembersAtIn(log, pinned)
  <2>1. members \subseteq MembersAtIn(log, pinned)
    BY Zenon, <1>1 DEF DeriveInv
  <2> QED BY <1>2, <1>3, <2>1 DEF MembersAtIn
<1> QED BY Zenon, <1>4, EndRefreshInv DEF Derive, chainVars

\* A derivation starts with every final event in a range of its role.
LEMMA BeginRefreshInv ==
  ASSUME RoleInv, at # "derive", BeginRefresh(pinned'), PinInv',
         UNCHANGED <<latest, log, derived, derivedTo, wronged>>
  PROVE  RoleInv'
<1>1. IdleInv /\ LogInv
  BY Zenon DEF RoleInv
<1>2. /\ at' = "derive" /\ events' = {} /\ members' = {}
      /\ ranges' = UNION {Chunks(r, pinned') : r \in Roles}
      /\ sinceSuccess' = sinceSuccess
  BY Zenon, <1>1 DEF BeginRefresh, IdleInv
<1>3. pinned' \in Int
  BY Zenon DEF PinInv
<1>4. RangeInv'
  BY SMTT(30), <1>2, <1>3, ChunksCover DEF RangeInv
<1>5. ASSUME NEW role \in Roles PROVE ByScan(role)'
  <2> SUFFICES ASSUME NEW i \in UpToIn(log, pinned')
               PROVE  \E r \in ranges' : r.role = role /\ r.lo <= log[i].block /\ log[i].block <= r.hi
    BY ZenonT(30) DEF ByScan
  <2>1. log[i].block \in RoleFromBlock..pinned'
    <3>1. i \in 1..Len(log) /\ log[i].block <= pinned'
      BY ZenonT(30) DEF UpToIn
    <3>2. log[i].block \in Int
      BY ZenonT(30), <1>1, <3>1, LogBlocks DEF LogInv
    <3> QED BY SMTT(30), <1>1, <1>3, <3>1, <3>2, RoleAssumption DEF LogInv
  <2>2. PICK r \in Chunks(role, pinned') : r.role = role /\ r.lo <= log[i].block /\ log[i].block <= r.hi
    BY SMTT(60), <1>3, <2>1, ChunksCover
  <2> QED BY ZenonT(30), <1>2, <2>2
<1>6. DeriveInv'
  BY Zenon, <1>2, <1>4, <1>5 DEF DeriveInv
<1>7. LogInv'
  BY Zenon, <1>1 DEF LogInv
<1>8. MembersAt(derivedTo)' = MembersAt(derivedTo)
  BY SMTT(60) DEF UpTo, MembersOf, MembersAt, EventsOf
<1>9. RolesTrue'
  BY Zenon, <1>2, <1>8 DEF RoleInv, RolesTrue, DerivedIsMembership, SlashedHeldRole
<1> QED BY Zenon, <1>2, <1>6, <1>7, <1>9 DEF RoleInv

\* An evidence block is final when it is taken, and stays so.
LEMMA FinalizedPin ==
  ASSUME RoleInv, UNCHANGED <<latest, derivedTo>>, pinned' = Finalized \/ pinned' = 0 \/ pinned' = pinned
  PROVE  PinInv'
<1>1. /\ latest \in Int /\ RoleFromBlock + Confirmations <= latest
      /\ pinned \in Int /\ pinned <= latest - Confirmations
      /\ derivedTo \in Int /\ derivedTo <= latest - Confirmations
  BY Zenon DEF RoleInv, LogInv, PinInv, Finalized
<1>2. RoleFromBlock \in Nat /\ Confirmations \in Nat
  BY Zenon, RoleAssumption
<1>3. \A h, f, c \in Int : f + c <= h /\ f >= 0 => 0 <= h - c /\ h - c \in Int
  BY ONLY SMT
<1>4. 0 <= latest - Confirmations /\ latest - Confirmations \in Int
  BY <1>1, <1>2, <1>3
<1> QED BY <1>1, <1>4 DEF PinInv, Finalized

\* refreshDerivedOperators, throttled or not, keeps the invariant.
LEMMA RefreshInv ==
  ASSUME RoleInv, Refresh
  PROVE  RoleInv'
<1>1. /\ at = "refresh" /\ UNCHANGED <<latest, log, pinned, derived, derivedTo, wronged>>
  BY Zenon DEF Refresh, chainVars, derivedVars
<1>2. PinInv' /\ ~wronged'
  BY Zenon, <1>1, FinalizedPin DEF RoleInv, RolesTrue, SlashedHeldRole
<1>3. CASE inFlight \/ sinceAttempt \in 0..(RefreshEvery - 1)
  <2>1. at' = "list" /\ UNCHANGED <<viaGetter, ranges, events, members, sinceSuccess>>
    BY Zenon, <1>3 DEF Refresh, scanVars, clockVars
  <2> QED BY Zenon, <1>1, <1>2, <2>1, QuietStep
<1>4. CASE ~(inFlight \/ sinceAttempt \in 0..(RefreshEvery - 1))
  <2>1. BeginRefresh(pinned')
    BY Zenon, <1>1, <1>4 DEF Refresh
  <2> QED BY ZenonT(30), <1>1, <1>2, <2>1, BeginRefreshInv
<1> QED BY Zenon, <1>3, <1>4

\* The first derivation, and its failures, keep the invariant.
LEMMA BootstrapInv ==
  ASSUME RoleInv, Bootstrap
  PROVE  RoleInv'
<1>1. at = "boot" /\ UNCHANGED <<latest, log, derived, derivedTo, wronged>>
  BY Zenon DEF Bootstrap, chainVars, derivedVars
<1>2. ~wronged'
  BY Zenon, <1>1 DEF RoleInv, RolesTrue, SlashedHeldRole
<1>3. CASE BeginRefresh(Finalized) /\ pinned' = Finalized
  <2>1. PinInv'
    BY ZenonT(30), <1>1, <1>3, FinalizedPin
  <2> QED BY ZenonT(30), <1>1, <1>2, <1>3, <2>1, BeginRefreshInv
<1>4. CASE ~(BeginRefresh(Finalized) /\ pinned' = Finalized)
  <2>1. at' # "derive" /\ UNCHANGED <<pinned, viaGetter, ranges, events, members, sinceSuccess>>
    BY Zenon, <1>4 DEF Bootstrap, scanVars, clockVars
  <2>2. PinInv'
    BY ZenonT(30), <1>1, <2>1, FinalizedPin
  <2> QED BY ZenonT(30), <1>1, <1>2, <2>1, <2>2, QuietStep
<1> QED BY Zenon, <1>3, <1>4

\* The slash gate clears an operator that is not on the static list only on a role it
\* holds at the evidence block.
LEMMA ConfirmInv ==
  ASSUME RoleInv, NEW op \in left, Confirm(op)
  PROVE  RoleInv'
<1>1. /\ at = "sweep" /\ at' = at
      /\ UNCHANGED <<latest, log, pinned, viaGetter, ranges, events, members, derived, derivedTo, sinceSuccess>>
  BY Zenon DEF Confirm, chainVars, scanVars, derivedVars, clockVars
<1>2. Slashable(op) => op \in Static \cup MembersAt(pinned)
  BY Zenon DEF Slashable, HasRole, MembersAt
<1>3. ~wronged
  BY Zenon DEF RoleInv, RolesTrue, SlashedHeldRole
<1>4. ~wronged'
  <2>1. \/ wronged' = (wronged \/ (Slashable(op) /\ op \notin Static \cup MembersAt(pinned)))
        \/ wronged' = wronged
    BY Zenon DEF Confirm
  <2> QED BY <1>2, <1>3, <2>1, Zenon
<1>5. PinInv'
  BY ZenonT(30), <1>1, FinalizedPin
<1> QED BY ZenonT(30), <1>1, <1>4, <1>5, QuietStep

\* The other steps of a tick leave the derived set alone.
LEMMA TickInv ==
  ASSUME RoleInv, AuditTick \/ Watch \/ SweepDone
  PROVE  RoleInv'
<1>1. /\ at # "derive" /\ at' # "derive"
      /\ UNCHANGED <<latest, log, viaGetter, ranges, events, members, derived, derivedTo, sinceSuccess, wronged>>
      /\ pinned' = Finalized \/ pinned' = 0 \/ pinned' = pinned
  BY Zenon DEF AuditTick, Watch, SweepDone, chainVars, scanVars, derivedVars, clockVars
<1>2. PinInv' /\ ~wronged'
  BY ZenonT(30), <1>1, FinalizedPin DEF RoleInv, RolesTrue, SlashedHeldRole
<1> QED BY ZenonT(30), <1>1, <1>2, QuietStep

\* A stuttering step keeps the invariant.
LEMMA RoleStutterInv ==
  ASSUME RoleInv, UNCHANGED roleVars
  PROVE  RoleInv'
<1>1. /\ UNCHANGED <<latest, log, at, pinned, viaGetter, ranges, events, members, derived, derivedTo, wronged>>
      /\ sinceSuccess' # Never => sinceSuccess # Never
  BY ZenonT(30) DEF roleVars, chainVars, scanVars, derivedVars, clockVars
<1>2. LogInv' /\ Kept
  BY ZenonT(30), <1>1 DEF RoleInv, LogInv, Kept
<1>3. latest' \in Int /\ latest <= latest'
  BY <1>1 DEF RoleInv, LogInv
<1> QED BY ZenonT(30), <1>1, <1>2, <1>3, ChainStepKeepsInv

\* The invariant is inductive.
LEMMA RoleNextInv == RoleInv /\ [RoleNext]_roleVars => RoleInv'
<1> SUFFICES ASSUME RoleInv, [RoleNext]_roleVars PROVE RoleInv'
  BY Zenon
<1>1. CASE Work
  <2>1. CASE Bootstrap
    BY Zenon, <2>1, BootstrapInv
  <2>2. CASE AuditTick \/ Watch \/ SweepDone
    BY Zenon, <2>2, TickInv
  <2>3. CASE Refresh
    BY Zenon, <2>3, RefreshInv
  <2>4. CASE Derive
    BY Zenon, <2>4, DeriveActionInv
  <2>5. CASE \E role \in Roles : ReadGetter(role)
    BY Zenon, <2>5, ReadGetterInv
  <2>6. CASE \E r \in ranges : ReadRange(r) \/ HalveRange(r)
    BY Zenon, <2>6, ReadRangeInv, HalveRangeInv
  <2>7. CASE \E op \in left : Confirm(op)
    BY Zenon, <2>7, ConfirmInv
  <2> QED BY Zenon, <1>1, <2>1, <2>2, <2>3, <2>4, <2>5, <2>6, <2>7 DEF Work
<1>2. CASE \E role \in Roles : GetterFails(role)
  BY Zenon, <1>2, GetterFailsInv
<1>3. CASE \E r \in ranges : DeriveFails(r)
  BY Zenon, <1>3, DeriveFailsInv
<1>4. CASE (\E role \in Roles, u \in Users : RoleEvent(role, u)) \/ NextBlock \/ Reorg
  BY Zenon, <1>4, ChainInv
<1>5. CASE TimePasses
  BY Zenon, <1>5, TimePassesInv
<1>6. CASE UNCHANGED roleVars
  BY Zenon, <1>6, RoleStutterInv
<1> QED BY ZenonT(30), <1>1, <1>2, <1>3, <1>4, <1>5, <1>6 DEF RoleNext

\* Whatever the chunk size, the log cap, the throttle and the finality depth, and
\* whatever reads fail, blocks arrive and head blocks are replaced during the scan:
\* the derived set is exactly the membership at the block it was derived up to, and
\* no operator is cleared for a slash without holding an audited role at the
\* evidence block (RolesTrue).
THEOREM RolesTrueHolds == WatchSpec => []RolesTrue
<1>1. RoleInv => RolesTrue
  BY Zenon DEF RoleInv
<1> QED BY RoleInitInv, RoleNextInv, <1>1, PTL DEF WatchSpec

-----------------------------------------------------------------------------
(* The data the nodes gossip.                                               *)

\* A datum, and a message under way
Datum == [version : Nat, value : Nodes \cup {"none"}]
GossipMessage == [id : Nodes \X Nodes, from : Nodes, to : Nodes, ttl : Int, d : Datum]

DataTyped == data \in [Nodes -> Datum] /\ net \subseteq GossipMessage

\* A node that holds an older datum has written it itself
NotStale == \A n \in Nodes : data'[n].version < data[n].version => written' # written

(* A message that is passed on is a message.                               *)
LEMMA PassedOn ==
  ASSUME NEW msg \in GossipMessage, NEW a \in Nodes, NEW b \in Nodes
  PROVE  [msg EXCEPT !.from = a, !.to = b, !.ttl = @ - 1] \in GossipMessage
<1> DEFINE I == Nodes \X Nodes
           t == msg.ttl - 1
<1>1. msg \in [id : I, from : Nodes, to : Nodes, ttl : Int, d : Datum]
  BY Zenon DEF GossipMessage
<1>2. t \in Int
  BY <1>1
<1> HIDE DEF I, t
<1>3. [msg EXCEPT !.from = a, !.to = b, !.ttl = t]
        \in [id : I, from : Nodes, to : Nodes, ttl : Int, d : Datum]
  BY Zenon, <1>1, <1>2
<1> QED
  BY Zenon, <1>3 DEF I, t, GossipMessage

(* What a step of the gossiped data keeps, and may never do.               *)
LEMMA DataStep ==
  ASSUME Versions \subseteq Nat, Writers \subseteq Nodes, MaxTtl \in Nat,
         \A n \in Nodes : Connected(n) \subseteq Nodes,
         DataTyped, [DataNext]_dvars
  PROVE  DataTyped' /\ NotStale
<1>0. \A n \in Nodes : data[n] \in Datum /\ data[n].version \in Nat
  BY Zenon DEF DataTyped, Datum
<1>1. ASSUME data' = data PROVE NotStale
  BY <1>0, <1>1 DEF NotStale
<1>2. ASSUME NEW n \in Writers, SetData(n) PROVE DataTyped' /\ NotStale
  <2>1. PICK v \in Versions :
          /\ \A w \in written : w.version # v
          /\ data' = [data EXCEPT ![n] = [version |-> v, value |-> n]]
          /\ written' = written \cup {[version |-> v, value |-> n]}
    BY Zenon, <1>2 DEF SetData
  <2>2. [version |-> v, value |-> n].version = v /\ [version |-> v, value |-> n] \in Datum
    BY Zenon DEF Datum
  <2>3. written' # written
    BY ZenonT(30), <2>1, <2>2
  <2>4. net' = net /\ data' \in [Nodes -> Datum]
    BY ZenonT(30), <1>2, <2>1, <2>2 DEF SetData, DataTyped
  <2> QED
    BY <2>3, <2>4 DEF DataTyped, NotStale
<1>3. ASSUME NEW n \in Nodes, CleanupMessageHistory(n) PROVE DataTyped' /\ NotStale
  BY ZenonT(30), <1>1, <1>3 DEF CleanupMessageHistory, DataTyped
<1>4. ASSUME NEW n \in Nodes, NEW m \in Nodes, NEW t \in Int,
             net' = net \cup {[id |-> <<n, m>>, from |-> n, to |-> m, ttl |-> t, d |-> data[n]]},
             data' = data
      PROVE  DataTyped' /\ NotStale
  <2>1. [id |-> <<n, m>>, from |-> n, to |-> m, ttl |-> t, d |-> data[n]] \in GossipMessage
    BY ZenonT(30), <1>0 DEF GossipMessage
  <2> QED
    BY ZenonT(30), <1>1, <1>4, <2>1 DEF DataTyped
<1>5. ASSUME NEW n \in Nodes, NEW m \in Nodes, GossipRound(n, m) \/ SendSync(n, m)
      PROVE  DataTyped' /\ NotStale
  BY <1>4, <1>5 DEF GossipRound, SendSync
<1>6. ASSUME NEW msg \in net, HandleGossipMessage(msg) PROVE DataTyped' /\ NotStale
  <2>0. msg \in GossipMessage /\ msg.d \in Datum /\ msg.d.version \in Nat
    BY Zenon DEF DataTyped, GossipMessage, Datum
  <2>1. CASE net' = net \ {msg} /\ data' = data
    BY Zenon, <1>1, <2>1 DEF DataTyped
  <2>2. CASE /\ data' = [data EXCEPT ![msg.to] = Applied(@, msg.d)]
             /\ net' = (net \ {msg}) \cup Propagated(msg.to, msg)
    <3>1. \A old \in Datum : /\ Applied(old, msg.d) \in Datum
                             /\ ~ Applied(old, msg.d).version < old.version
      BY <2>0 DEF Applied, Datum
    <3>2. \A n \in Nodes : data'[n] = IF n = msg.to THEN Applied(data[n], msg.d) ELSE data[n]
      BY Zenon, <2>2 DEF DataTyped
    <3>3. NotStale
      BY <1>0, <3>1, <3>2 DEF NotStale
    <3>4. data' \in [Nodes -> Datum]
      BY Zenon, <1>0, <2>2, <3>1 DEF DataTyped
    <3>5. Propagated(msg.to, msg) \subseteq GossipMessage
      <4>1. ASSUME NEW m \in Connected(msg.to)
            PROVE  [msg EXCEPT !.from = msg.to, !.to = m, !.ttl = @ - 1] \in GossipMessage
        <5>1. msg.to \in Nodes /\ m \in Nodes
          BY ZenonT(30), <2>0, <4>1 DEF GossipMessage
        <5> QED
          BY Zenon, <2>0, <5>1, PassedOn
      <4> QED
        BY Zenon, <4>1 DEF Propagated
    <3> QED
      BY <2>2, <3>3, <3>4, <3>5 DEF DataTyped
  <2> QED
    BY Zenon, <1>6, <2>1, <2>2 DEF HandleGossipMessage
<1>7. CASE UNCHANGED dvars
  BY <1>1, <1>7 DEF dvars, DataTyped
<1> QED
  BY Zenon, <1>2, <1>3, <1>5, <1>6, <1>7 DEF DataNext

(* A datum never gives way to an older one, except to a write of the node  *)
(* itself, however messages overtake one another or are handled again      *)
(* after the history was cleaned up (handleGossipDataMessage).             *)
THEOREM NoStaleOverwriteHolds ==
  ASSUME Versions \subseteq Nat, Writers \subseteq Nodes, MaxTtl \in Nat,
         \A n \in Nodes : Connected(n) \subseteq Nodes
  PROVE  DataSpec => NoStaleOverwrite
<1>1. DataInit => DataTyped
  BY DEF DataInit, DataTyped, Datum, Absent
<1>2. DataTyped /\ [DataNext]_dvars => DataTyped' /\ NotStale
  BY Zenon, DataStep
<1> QED
  BY <1>1, <1>2, PTL DEF DataSpec, NoStaleOverwrite, NotStale
=============================================================================
