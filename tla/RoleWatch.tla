------------------------------- MODULE RoleWatch -------------------------------
(***************************************************************************)
(* Which operators the audit watches and may slash (audit.service.ts): the *)
(* static watchlist, and the members of the audited roles, derived from    *)
(* the Registry's events up to the finalized block of the tick             *)
(* (blockchain.service.ts getRegisteredOperators).  The derivation is      *)
(* throttled and keeps the set it had when it fails, so the set is often   *)
(* older than the evidence; hasRole at the evidence block has the last     *)
(* word.                                                                   *)
(*                                                                         *)
(* The scan is a stack of ranges: a range that cannot be read is halved,   *)
(* down to a single block.                                                 *)
(***************************************************************************)
EXTENDS Integers, Sequences, FiniteSets

CONSTANTS
  Static,          \* AUDIT_WATCHLIST
  Users,           \* the operators that take and leave roles
  Roles,           \* AUDIT_ROLE_IDS
  RoleFromBlock,   \* AUDIT_ROLE_FROM_BLOCK
  ChunkSize,       \* AUDIT_ROLE_LOG_CHUNK
  Confirmations,   \* blocks until a block is final
  RefreshEvery,    \* AUDIT_ROLE_REFRESH_MS, in clock steps
  MaxStale,        \* AUDIT_ROLE_MAX_STALE_MS, in clock steps
  LogCap,          \* events one getLogs call of several blocks may return
  MaxLatest,       \* bound on the chain
  MaxEvents,       \* bound on the role events
  MaxReadFaults    \* bound on the reads that fail, and on the reorganisations

(* configuration.ts floors the finality depth at one block, and takes the  *)
(* default for a chunk that is not positive or a start below 0.            *)
ASSUME RoleAssumption ==
  /\ RoleFromBlock \in Nat
  /\ ChunkSize \in Nat \ {0}
  /\ Confirmations \in Nat \ {0}

Never == -1

VARIABLES
  latest, log,     \* log: [block, role, user, add]
  enabled,         \* the audit got through its bootstrap
  useGetter,       \* AUDIT_ROLE_USE_GETTER
  at,              \* where the tick is
  pinned,          \* the finalized evidence block of the tick
  viaGetter,       \* the roles still to be read with getRoleMembers
  ranges,          \* the ranges the scan has still to read: [role, lo, hi]
  events,          \* the positions of the log the scan has read
  members,         \* the members the getter returned
  derived,         \* derivedOperators
  derivedTo,       \* history: the block derivedOperators was derived up to
  sinceAttempt,    \* clock steps since lastRoleAttemptAt, Never before the first
  sinceSuccess,    \* clock steps since lastRoleRefreshAt
  inFlight,        \* refreshInFlight
  left,            \* the operators the sweep has still to look at
  wronged,         \* history: an operator was cleared for a slash without its role
  readFaults

chainVars   == <<latest, log>>
scanVars    == <<viaGetter, ranges, events, members>>
derivedVars == <<derived, derivedTo>>
clockVars   == <<sinceAttempt, sinceSuccess>>
roleVars ==
  <<chainVars, enabled, useGetter, at, pinned, scanVars, derivedVars, clockVars, inFlight, left,
    wronged, readFaults>>

ReadFault == readFaults < MaxReadFaults /\ readFaults' = readFaults + 1
Finalized == latest - Confirmations

(* The members of a role at the end of a block.                            *)
EventsOf(role, u, positions) ==
  {i \in positions : log[i].role = role /\ log[i].user = u}
MembersOf(role, positions) ==
  {u \in Users : \E i \in EventsOf(role, u, positions) :
                   log[i].add /\ \A j \in EventsOf(role, u, positions) : j <= i}
UpTo(b) == {i \in 1..Len(log) : log[i].block <= b}
HasRole(role, u, b) == u \in MembersOf(role, UpTo(b))
MembersAt(b) == UNION {MembersOf(r, UpTo(b)) : r \in Roles}

(***************************************************************************)
(* The Registry, and the chain below it.                                   *)
(***************************************************************************)
RoleEvent(role, u) ==
  /\ Len(log) < MaxEvents
  /\ log' = Append(log, [block |-> latest, role |-> role, user |-> u, add |-> ~HasRole(role, u, latest)])
  /\ UNCHANGED <<latest, enabled, useGetter, at, pinned, scanVars, derivedVars, clockVars,
                 inFlight, left, wronged, readFaults>>

NextBlock ==
  /\ latest < MaxLatest
  /\ latest' = latest + 1
  /\ UNCHANGED <<log, enabled, useGetter, at, pinned, scanVars, derivedVars, clockVars, inFlight,
                 left, wronged, readFaults>>

(* The head block, which is not final, is replaced by an empty one.        *)
Reorg ==
  /\ \E kept \in 0..(Len(log) - 1) :
       /\ \A i \in 1..Len(log) : log[i].block = latest <=> i > kept
       /\ log' = SubSeq(log, 1, kept)
  /\ ReadFault
  /\ UNCHANGED <<latest, enabled, useGetter, at, pinned, scanVars, derivedVars, clockVars,
                 inFlight, left, wronged>>

Advance(n, limit) == IF n = Never \/ n = limit THEN n ELSE n + 1

(* Time passes; it is counted as far as the two limits tell it apart.      *)
TimePasses ==
  /\ sinceAttempt' =
       Advance(sinceAttempt, IF RefreshEvery > MaxStale THEN RefreshEvery ELSE MaxStale + 1)
  /\ sinceSuccess' = Advance(sinceSuccess, MaxStale + 1)
  /\ UNCHANGED <<chainVars, enabled, useGetter, at, pinned, scanVars, derivedVars, inFlight,
                 left, wronged, readFaults>>

(***************************************************************************)
(* The refresh of the derived set.                                         *)
(***************************************************************************)

(* The ranges of one role: start, start + step, ... up to the pinned block.*)
Chunks(role, to) ==
  LET starts == {RoleFromBlock + k * ChunkSize : k \in 0..to} \cap RoleFromBlock..to
      last(s) == IF s + ChunkSize - 1 < to THEN s + ChunkSize - 1 ELSE to
  IN {[role |-> role, lo |-> s, hi |-> last(s)] : s \in starts}

(* The start of a derivation.                                              *)
BeginRefresh(to) ==
  /\ at' = "derive"
  /\ inFlight' = TRUE
  /\ sinceAttempt' = 0
  /\ viaGetter' = IF useGetter THEN Roles ELSE {}
  /\ ranges' = UNION {Chunks(r, to) : r \in Roles}
  /\ UNCHANGED <<events, members, sinceSuccess>>

(* Back to the tick, or to the bootstrap, whose derivation comes before    *)
(* the first tick; the derivation's locals are gone.                       *)
EndRefresh ==
  /\ viaGetter' = {} /\ ranges' = {} /\ events' = {} /\ members' = {}
  /\ at' = IF enabled THEN "list" ELSE "idle"
  /\ enabled' = TRUE

(* refreshDerivedOperators: a refresh in flight is awaited; one tried      *)
(* lately is not tried again.                                              *)
Refresh ==
  /\ at = "refresh"
  /\ IF inFlight \/ sinceAttempt \in 0..(RefreshEvery - 1)
     THEN at' = "list" /\ UNCHANGED <<scanVars, clockVars, inFlight>>
     ELSE BeginRefresh(pinned)
  /\ UNCHANGED <<chainVars, enabled, useGetter, pinned, derivedVars, left, wronged, readFaults>>

(* getRoleMembers at the pinned block.                                     *)
ReadGetter(role) ==
  /\ at = "derive" /\ role \in viaGetter
  /\ viaGetter' = viaGetter \ {role}
  /\ ranges' = {r \in ranges : r.role # role}
  /\ members' = members \union MembersOf(role, UpTo(pinned))
  /\ UNCHANGED <<chainVars, enabled, useGetter, at, pinned, events, derivedVars, clockVars,
                 inFlight, left, wronged, readFaults>>

(* A call that fails leaves the role to the scan.                          *)
GetterFails(role) ==
  /\ at = "derive" /\ role \in viaGetter
  /\ viaGetter' = viaGetter \ {role}
  /\ ReadFault
  /\ UNCHANGED <<chainVars, enabled, useGetter, at, pinned, ranges, events, members, derivedVars,
                 clockVars, inFlight, left, wronged>>

InRange(r) == {i \in 1..Len(log) : log[i].block \in r.lo..r.hi /\ log[i].role = r.role}

(* getLogs of one range.                                                   *)
ReadRange(r) ==
  /\ at = "derive" /\ r \in ranges /\ r.role \notin viaGetter
  /\ Cardinality(InRange(r)) <= LogCap \/ r.lo = r.hi
  /\ events' = events \union InRange(r)
  /\ ranges' = ranges \ {r}
  /\ UNCHANGED <<chainVars, enabled, useGetter, at, pinned, viaGetter, members, derivedVars,
                 clockVars, inFlight, left, wronged, readFaults>>

(* A range that cannot be read is halved.                                  *)
HalveRange(r) ==
  LET mid == (r.lo + r.hi) \div 2 IN
  /\ at = "derive" /\ r \in ranges /\ r.role \notin viaGetter
  /\ r.hi > r.lo
  /\ IF Cardinality(InRange(r)) > LogCap THEN UNCHANGED readFaults ELSE ReadFault
  /\ ranges' = (ranges \ {r}) \union {[r EXCEPT !.hi = mid], [r EXCEPT !.lo = mid + 1]}
  /\ UNCHANGED <<chainVars, enabled, useGetter, at, pinned, viaGetter, events, members,
                 derivedVars, clockVars, inFlight, left, wronged>>

(* A mutated form of DeriveFails: the block that cannot be read is left    *)
(* out.                                                                    *)
DeriveSkips(r) ==
  /\ at = "derive" /\ r \in ranges /\ r.role \notin viaGetter
  /\ r.lo = r.hi
  /\ ReadFault
  /\ ranges' = ranges \ {r}
  /\ UNCHANGED <<chainVars, enabled, useGetter, at, pinned, viaGetter, events, members,
                 derivedVars, clockVars, inFlight, left, wronged>>

(* A single block that cannot be read ends the derivation, which keeps the *)
(* set there was.                                                          *)
DeriveFails(r) ==
  /\ at = "derive" /\ r \in ranges /\ r.role \notin viaGetter
  /\ r.lo = r.hi
  /\ ReadFault
  /\ inFlight' = FALSE /\ EndRefresh
  /\ UNCHANGED <<chainVars, useGetter, pinned, derivedVars, clockVars, left, wronged>>

(* Everything is read: the events are replayed, in log order.  The set is  *)
(* as old as the attempt.                                                  *)
Derive ==
  /\ at = "derive" /\ ranges = {}
  /\ derived' = members \union UNION {MembersOf(r, events) : r \in Roles}
  /\ derivedTo' = pinned
  /\ sinceSuccess' = sinceAttempt
  /\ inFlight' = FALSE /\ EndRefresh
  /\ UNCHANGED <<chainVars, useGetter, pinned, sinceAttempt, left, wronged, readFaults>>

(***************************************************************************)
(* The tick.                                                               *)
(***************************************************************************)

(* onApplicationBootstrap: addresses, chain, code and interface are read,  *)
(* and any that cannot be confirmed leaves the audit disabled.  A first    *)
(* derivation is made at once; if it cannot find its block, the first tick *)
(* makes it.                                                               *)
Bootstrap ==
  /\ at = "boot"
  /\ \/ BeginRefresh(Finalized) /\ pinned' = Finalized /\ UNCHANGED <<enabled, readFaults>>
     \/ /\ ReadFault
        /\ \/ at' = "disabled" /\ UNCHANGED <<enabled, clockVars>>
           \/ at' = "idle" /\ enabled' = TRUE /\ sinceAttempt' = 0 /\ UNCHANGED sinceSuccess
        /\ UNCHANGED <<pinned, scanVars, inFlight>>
  /\ UNCHANGED <<chainVars, useGetter, derivedVars, left, wronged>>

(* getViolationBlock; a tick that cannot resolve it is skipped.            *)
AuditTick ==
  /\ at = "idle"
  /\ \/ pinned' = Finalized /\ at' = "refresh" /\ UNCHANGED readFaults
     \/ ReadFault /\ UNCHANGED <<pinned, at>>
  /\ UNCHANGED <<chainVars, enabled, useGetter, scanVars, derivedVars, clockVars, inFlight, left,
                 wronged>>

(* effectiveWatchlist                                                      *)
Watch ==
  /\ at = "list"
  /\ left' = Static \union derived
  /\ at' = "sweep"
  /\ UNCHANGED <<chainVars, enabled, useGetter, pinned, scanVars, derivedVars, clockVars,
                 inFlight, wronged, readFaults>>

DerivedSetIsFresh == sinceSuccess \in 0..MaxStale

(* confirmSlashableAtBlock, when every read succeeds.                      *)
Slashable(op) ==
  \/ op \in Static
  \/ DerivedSetIsFresh /\ \E r \in Roles : HasRole(r, op, pinned)

(* One operator of the sweep is found in violation and passes, or fails,   *)
(* the slash gate; a read that fails fails it.                             *)
Confirm(op) ==
  /\ at = "sweep" /\ op \in left
  /\ left' = left \ {op}
  /\ \/ /\ wronged' = (wronged \/ (Slashable(op) /\ op \notin Static \union MembersAt(pinned)))
        /\ UNCHANGED readFaults
     \/ op \notin Static /\ ReadFault /\ UNCHANGED wronged
  /\ UNCHANGED <<chainVars, enabled, useGetter, at, pinned, scanVars, derivedVars, clockVars,
                 inFlight>>

SweepDone ==
  /\ at = "sweep" /\ left = {}
  /\ at' = "idle" /\ pinned' = 0
  /\ UNCHANGED <<chainVars, enabled, useGetter, scanVars, derivedVars, clockVars, inFlight, left,
                 wronged, readFaults>>

RoleInit ==
  /\ latest = RoleFromBlock + Confirmations
  /\ log = <<>>
  /\ enabled = FALSE
  /\ useGetter \in BOOLEAN
  /\ at = "boot" /\ pinned = 0
  /\ viaGetter = {} /\ ranges = {} /\ events = {} /\ members = {}
  /\ derived = {} /\ derivedTo = 0
  /\ sinceAttempt = Never /\ sinceSuccess = Never
  /\ inFlight = FALSE
  /\ left = {} /\ wronged = FALSE /\ readFaults = 0

Work ==
  \/ Bootstrap \/ AuditTick \/ Refresh \/ Derive \/ Watch \/ SweepDone
  \/ \E role \in Roles : ReadGetter(role)
  \/ \E r \in ranges : ReadRange(r) \/ HalveRange(r)
  \/ \E op \in left : Confirm(op)

RoleNext ==
  \/ Work
  \/ \E role \in Roles : GetterFails(role)
  \/ \E r \in ranges : DeriveFails(r)
  \/ \E role \in Roles, u \in Users : RoleEvent(role, u)
  \/ NextBlock \/ Reorg \/ TimePasses

(* The interval goes on, calls end, and blocks and time pass.              *)
WatchSpec ==
  /\ RoleInit /\ [][RoleNext]_roleVars
  /\ WF_roleVars(Work) /\ WF_roleVars(NextBlock) /\ WF_roleVars(TimePasses)

(***************************************************************************)
(* Properties                                                              *)
(***************************************************************************)

(* The derived set is the membership at the block it was derived up to,    *)
(* whatever chunks, halvings, failures and reorganisations the scan met: a *)
(* partial scan never passes for a smaller set.                            *)
DerivedIsMembership ==
  sinceSuccess # Never => derived = MembersAt(derivedTo)

(* An operator that is only derived is cleared for a slash only if it held *)
(* an audited role at the evidence block, although the derived set may be  *)
(* older than that block.                                                  *)
SlashedHeldRole == ~wronged

(* Whoever holds a role at the last final block and keeps it is watched in *)
(* the end: failures and the throttle delay the refresh, and no more.      *)
MembersWatched ==
  \A u \in Users :
    [](enabled => <>(u \in derived \/ u \notin MembersAt(Finalized)))

(* The derived set is the real membership, and nobody is cleared for a     *)
(* slash on the strength of an older one.                                  *)
RolesTrue == DerivedIsMembership /\ SlashedHeldRole
================================================================================
