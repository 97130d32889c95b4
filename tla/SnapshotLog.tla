------------------------------ MODULE SnapshotLog ------------------------------
(***************************************************************************)
(* What the operator scripts rebuild from the validator's event log: the   *)
(* active set a keeper submits (committee-keeper.mjs, activeSetFromEvents),*)
(* the leaves of the tree an epoch froze (committee-proofgen.mjs,          *)
(* reconstructFrozenTree) and the share of the time no committee could be  *)
(* formed (scripts/check-pin-rate.mjs).                                    *)
(*                                                                         *)
(* The log is a sequence: its order is that of blockNumber,                *)
(* transactionIndex and index, by which the scripts sort.  A transaction   *)
(* may move a slot, so several entries share a block.                      *)
(***************************************************************************)
EXTENDS Integers, Sequences, FiniteSets, FiniteSetsExt

CONSTANTS
  Nodes, Slots,
  EpochLength,
  MinCommittee,    \* the smallest frozen pool that can carry a committee
  DeployBlock,     \* the block of the validator's creation
  CHUNK,           \* blocks of one eth_getLogs call, less one
  MaxBlock,        \* bound on the chain
  MaxMutations,    \* bound on the changes of the slots
  MaxBumps         \* bound on the reconfigurations

Empty == "empty"

VARIABLES
  block, version,
  slots,           \* slot -> node or Empty
  pins,            \* epoch -> [version, leaves, block] of its snapshot, version 0 for none
  lapsed,          \* the sets pinned at this block or before it are past their validity
  log,             \* [block, kind, slot, node, epoch]
  versionAt,       \* history: block -> configVersion at its end
  up,              \* history: the blocks at whose end a committee could be formed
  barren           \* history: those at whose end it could not, the two pins present

lvars == <<block, version, slots, pins, lapsed, log, versionAt, up, barren>>

Blocks == DeployBlock..MaxBlock
Epochs == 0..(MaxBlock \div EpochLength)
Epoch  == block \div EpochLength

(* epochPinned and epochConfigVersion                                      *)
Pinned(e) == pins[e].version = version

(* _epochUsable: pinned, and the set still within epochSetValidUntil       *)
Usable(e) == Pinned(e) /\ pins[e].block > lapsed

Listed(leaves) == {leaves[s] : s \in {t \in Slots : leaves[t] # Empty}}

(* The checks validate() makes before it looks at a signature, which are   *)
(* those of requiredQuorum(): the two epochs and the floor.                *)
Ready ==
  /\ Usable(Epoch) /\ Usable(Epoch - 1)
  /\ Cardinality(Listed(pins[Epoch - 1].leaves)) >= MinCommittee

Emit(kind, s, n, e) ==
  Append(log, [block |-> block, kind |-> kind, slot |-> s, node |-> n, epoch |-> e])

(***************************************************************************)
(* The validator.                                                          *)
(***************************************************************************)
Mutations == Cardinality({i \in 1..Len(log) : log[i].kind # "pin"})

Assign(s, n) ==
  /\ Mutations < MaxMutations
  /\ slots[s] = Empty /\ \A t \in Slots : slots[t] # n
  /\ slots' = [slots EXCEPT ![s] = n]
  /\ log' = Emit("assign", s, n, 0)
  /\ UNCHANGED <<block, version, pins, lapsed, versionAt, up, barren>>

Clear(s) ==
  /\ Mutations < MaxMutations
  /\ slots[s] # Empty
  /\ slots' = [slots EXCEPT ![s] = Empty]
  /\ log' = Emit("clear", s, slots[s], 0)
  /\ UNCHANGED <<block, version, pins, lapsed, versionAt, up, barren>>

Snapshot ==
  /\ ~Pinned(Epoch)
  /\ block > Epoch * EpochLength
  /\ pins' = [pins EXCEPT ![Epoch] = [version |-> version, leaves |-> slots, block |-> block]]
  /\ log' = Emit("pin", 0, Empty, Epoch)
  /\ UNCHANGED <<block, version, slots, lapsed, versionAt, up, barren>>

Bump ==
  /\ version <= MaxBumps
  /\ version' = version + 1
  /\ UNCHANGED <<block, slots, pins, lapsed, log, versionAt, up, barren>>

(* The next block; after a halt of the chain so much later that the sets   *)
(* pinned up to some block have lapsed.  setEpochLength keeps a set valid  *)
(* for two epochs at any pace but a halt's.                                *)
NextBlock ==
  /\ block < MaxBlock
  /\ \/ UNCHANGED lapsed
     \/ lapsed < DeployBlock /\ lapsed' \in {pins[e].block : e \in {d \in Epochs : Pinned(d)}}
  /\ block' = block + 1
  /\ versionAt' = [versionAt EXCEPT ![block] = version]
  /\ up' = IF Ready THEN up \union {block} ELSE up
  /\ barren' = IF Pinned(Epoch) /\ Pinned(Epoch - 1) /\ ~Ready THEN barren \union {block} ELSE barren
  /\ UNCHANGED <<version, slots, pins, log>>

Init ==
  /\ block = DeployBlock /\ version = 1
  /\ slots = [s \in Slots |-> Empty]
  /\ pins = [e \in Epochs |-> [version |-> 0, leaves |-> slots, block |-> 0]]
  /\ lapsed = 0
  /\ log = <<>>
  /\ versionAt = [b \in Blocks |-> 1]
  /\ up = {} /\ barren = {}

Next ==
  \/ \E s \in Slots, n \in Nodes : Assign(s, n)
  \/ \E s \in Slots : Clear(s)
  \/ Snapshot \/ Bump \/ NextBlock

LogSpec == Init /\ [][Next]_lvars

(***************************************************************************)
(* Reading the log.                                                        *)
(***************************************************************************)

(* The entries getLogsChunked(from .. to) returns, as positions: one call  *)
(* for every CHUNK + 1 blocks.                                             *)
GetLogs(from, to) ==
  UNION {{i \in 1..Len(log) : log[i].block \in f..Min({f + CHUNK, to})} :
           f \in {g \in from..to : (g - from) % (CHUNK + 1) = 0}}

(* The map the mutations at these positions leave, applied in log order.   *)
Replay(positions) ==
  [s \in Slots |->
     LET touching == {i \in positions : log[i].kind # "pin" /\ log[i].slot = s} IN
     IF touching = {} \/ log[Max(touching)].kind = "clear" THEN Empty
     ELSE log[Max(touching)].node]

(* activeSetFromEvents at the head                                         *)
ActiveSetFromEvents == Listed(Replay(GetLogs(DeployBlock, block)))

SnapEvents(e) == {i \in 1..Len(log) : log[i].kind = "pin" /\ log[i].epoch = e}

(* A mutated form of FrozenLeaves: everything of the block of the pin is   *)
(* replayed.                                                               *)
FrozenLeavesByBlock(e) ==
  LET snap == Max(SnapEvents(e)) IN Replay(GetLogs(DeployBlock, log[snap].block))

(* reconstructFrozenTree: the mutations up to the log position of the last *)
(* pin of the epoch.                                                       *)
FrozenLeaves(e) ==
  LET snap == Max(SnapEvents(e)) IN
  Replay({i \in GetLogs(DeployBlock, log[snap].block) : i < snap})

(***************************************************************************)
(* scripts/check-pin-rate.mjs over the blocks from .. head.                *)
(***************************************************************************)
PinsIn(from, e) == {log[i].block : i \in GetLogs(from, block) \intersect SnapEvents(e)}
HasPin(from, e) == PinsIn(from, e) # {}

EFirst(from) == (from + EpochLength - 1) \div EpochLength
ELast == Epoch - 1

(* Where the epochs that can be judged begin: after a run of misses at the *)
(* start of the window.                                                    *)
MeasuredFirst(from) ==
  Min({e \in EFirst(from)..(ELast + 1) : e > ELast \/ HasPin(from, e)})

(* Blocks of the epoch in which committees fail closed, from the log.      *)
DowntimeOf(from, e) ==
  IF ~HasPin(from, e) \/ (e > 0 /\ ~HasPin(from, e - 1)) THEN EpochLength
  ELSE Min({EpochLength, Min(PinsIn(from, e)) - e * EpochLength})

(* The script reports on this window: one configuration, pins to be seen,  *)
(* and at least two whole epochs.                                          *)
Reports(from) ==
  /\ versionAt[from] = version
  /\ \E e \in Epochs : HasPin(from, e)
  /\ ELast - EFirst(from) >= 1
  /\ ELast - MeasuredFirst(from) >= 1

Reported(from) == MapThenSumSet(LAMBDA e : DowntimeOf(from, e), MeasuredFirst(from)..ELast)
Judged(from) == {b \in Blocks : b \div EpochLength \in MeasuredFirst(from)..ELast}

(***************************************************************************)
(* Properties                                                              *)
(***************************************************************************)

(* The leaves proofgen rebuilds are the ones the contract froze, also when *)
(* a slot moves in the block of the pin or an epoch is pinned again; and   *)
(* the list a keeper submits is the active set.                            *)
ReplayIsFrozen ==
  /\ \A e \in Epochs : pins[e].version # 0 => FrozenLeaves(e) = pins[e].leaves
  /\ ActiveSetFromEvents = Listed(slots)

(* The pin-rate record hides no downtime that a missing or a late pin      *)
(* caused, unless its window begins in the very block of a configuration   *)
(* change.  The downtime with both pins present it cannot see: the log     *)
(* tells neither that a frozen pool is below the floor nor that it lapsed. *)
RateNotOptimistic ==
  \A from \in (DeployBlock + 1)..block :
    Reports(from) /\ versionAt[from - 1] = version =>
      Reported(from) >= Cardinality(Judged(from) \ (up \union barren))

(* What the script says of an epoch that the start of its window cuts, and *)
(* of the edges of the window: they do not inflate the number.  Where the  *)
(* frozen pools reach the floor and none has lapsed, the downtime reported *)
(* for the epochs that are judged is the one they had.                     *)
RateIsExact ==
  \A from \in (DeployBlock + 1)..block :
    Reports(from) /\ versionAt[from - 1] = version /\ Judged(from) \intersect barren = {} =>
      Reported(from) = Cardinality(Judged(from) \ up)

(* What is computed from the event log is what happened: the frozen leaves,*)
(* the keeper's list, and no downtime for want of a pin is hidden.         *)
LogTellsTruth == ReplayIsFrozen /\ RateNotOptimistic
================================================================================
