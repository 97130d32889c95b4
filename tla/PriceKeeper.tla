----------------------------- MODULE PriceKeeper -----------------------------
(***************************************************************************)
(* The price keeper (keeper.service.ts): each tick goes through the        *)
(* paymasters and refreshes a cached price that is nearly stale, within a  *)
(* daily cap.  Ticks are started by an interval whether or not the last    *)
(* one has ended, and redundant keepers watch the same paymasters.         *)
(***************************************************************************)
EXTENDS Integers, Sequences, FiniteSets

CONSTANTS
  Keepers,
  Paymasters,      \* KEEPER_PAYMASTER_ADDRESS, a sequence
  Broken,          \* the paymasters whose reads always revert
  MaxUpdates,      \* KEEPER_MAX_UPDATES_PER_DAY
  MaxOverlap,      \* bound on the ticks of a keeper in flight at once
  MaxDay,          \* bound on the days
  MaxStale,        \* bound on the times a price nears staleness
  MaxFailures      \* bound on the calls that fail, and the ticks that find gas dear

Addrs == {Paymasters[i] : i \in 1..Len(Paymasters)}

VARIABLES
  day,
  due,             \* paymaster -> its cached price nears staleness and the feed is newer
  stale,           \* times a price neared staleness
  mempool,         \* the updates broadcast and not mined: [keeper, addr, tick]
  updatesToday, lastDay,
  ticks,           \* the ticks in flight: [keeper, id, at, left]
  spent,           \* keeper -> day -> the updates it broadcast
  failures

kvars == <<day, due, stale, mempool, updatesToday, lastDay, ticks, spent, failures>>

Failure == failures < MaxFailures /\ failures' = failures + 1
Move(t, at) == ticks' = (ticks \ {t}) \union {[t EXCEPT !.at = at]}
Ends(t) == ticks' = ticks \ {t}

(* The interval fires: the day's count is reset at a new day, and a cap    *)
(* that is reached ends the tick.                                          *)
TickStart(k, id) ==
  LET count == IF day # lastDay[k] THEN 0 ELSE updatesToday[k] IN
  /\ \A t \in ticks : ~(t.keeper = k /\ t.id = id)
  /\ updatesToday' = [updatesToday EXCEPT ![k] = count]
  /\ lastDay' = [lastDay EXCEPT ![k] = day]
  /\ ticks' = IF count >= MaxUpdates THEN ticks
              ELSE ticks \union {[keeper |-> k, id |-> id, at |-> "gas", left |-> Paymasters]}
  /\ UNCHANGED <<day, due, stale, mempool, spent, failures>>

(* getBaseFeeGwei: dear gas, or a failing read, ends the tick.             *)
ReadGas(t) ==
  /\ t.at = "gas"
  /\ \/ Move(t, "next") /\ UNCHANGED failures
     \/ Ends(t) /\ Failure
  /\ UNCHANGED <<day, due, stale, mempool, updatesToday, lastDay, spent>>

NextPaymaster(t) ==
  /\ t.at = "next"
  /\ IF t.left = <<>> \/ updatesToday[t.keeper] >= MaxUpdates THEN Ends(t) ELSE Move(t, "price")
  /\ UNCHANGED <<day, due, stale, mempool, updatesToday, lastDay, spent, failures>>

Skip(t) == ticks' = (ticks \ {t}) \union {[t EXCEPT !.at = "next", !.left = Tail(@)]}

(* getPriceInfo and getChainlinkUpdatedAt: the cached price nears its      *)
(* threshold, and the feed has a newer one.                                *)
NeedsRefresh(a) == due[a]

(* A mutated form of ReadPrice: a fresh price ends the tick.               *)
ReadPriceReturns(t) ==
  /\ t.at = "price"
  /\ IF NeedsRefresh(Head(t.left)) THEN Move(t, "simulate") ELSE Ends(t)
  /\ UNCHANGED <<day, due, stale, mempool, updatesToday, lastDay, spent, failures>>

(* refreshOne: getPriceInfo and getChainlinkUpdatedAt.  A read that throws *)
(* leaves refreshOne and ends the whole tick.                              *)
ReadPrice(t) ==
  /\ t.at = "price"
  /\ \/ /\ Head(t.left) \notin Broken
        /\ IF NeedsRefresh(Head(t.left)) THEN Move(t, "simulate") ELSE Skip(t)
        /\ UNCHANGED failures
     \/ Ends(t) /\ (IF Head(t.left) \in Broken THEN UNCHANGED failures ELSE Failure)
  /\ UNCHANGED <<day, due, stale, mempool, updatesToday, lastDay, spent>>

(* What the simulated call answers: it reverts on a fresh price, and an    *)
(* endpoint that fails counts as a revert.                                 *)
Simulated(a, failed) == due[a] /\ ~failed

(* refreshOne goes on only if the call would succeed.                      *)
CanUpdatePrice(t) ==
  /\ t.at = "simulate"
  /\ \E failed \in BOOLEAN :
       /\ IF Simulated(Head(t.left), failed) THEN Move(t, "send") ELSE Skip(t)
       /\ IF failed THEN Failure ELSE UNCHANGED failures
  /\ UNCHANGED <<day, due, stale, mempool, updatesToday, lastDay, spent>>

(* updatePrice returns once the transaction is broadcast.                  *)
UpdatePrice(t) ==
  /\ mempool' = mempool \union {[keeper |-> t.keeper, id |-> t.id, addr |-> Head(t.left)]}
  /\ spent' = [spent EXCEPT ![t.keeper][day] = @ + 1]

(* The count moves when updatePrice has returned; its failure is reported. *)
Broadcast(t) ==
  /\ t.at = "send"
  /\ \/ /\ UpdatePrice(t)
        /\ Move(t, "count")
        /\ UNCHANGED failures
     \/ Skip(t) /\ Failure /\ UNCHANGED <<mempool, spent>>
  /\ UNCHANGED <<day, due, stale, updatesToday, lastDay>>

Count(t) ==
  /\ t.at = "count"
  /\ updatesToday' = [updatesToday EXCEPT ![t.keeper] = @ + 1]
  /\ Skip(t)
  /\ UNCHANGED <<day, due, stale, mempool, lastDay, spent, failures>>

(* An update is mined; a redundant one reverts.                            *)
MineUpdate(u) ==
  /\ mempool' = mempool \ {u}
  /\ due' = [due EXCEPT ![u.addr] = FALSE]
  /\ UNCHANGED <<day, stale, updatesToday, lastDay, ticks, spent, failures>>

NearsStaleness(a) ==
  /\ stale < MaxStale /\ ~due[a]
  /\ stale' = stale + 1
  /\ due' = [due EXCEPT ![a] = TRUE]
  /\ UNCHANGED <<day, mempool, updatesToday, lastDay, ticks, spent, failures>>

Midnight ==
  /\ day < MaxDay
  /\ day' = day + 1
  /\ UNCHANGED <<due, stale, mempool, updatesToday, lastDay, ticks, spent, failures>>

KeeperInit ==
  /\ day = 1 /\ due = [a \in Addrs |-> FALSE] /\ stale = 0 /\ mempool = {}
  /\ updatesToday = [k \in Keepers |-> 0] /\ lastDay = [k \in Keepers |-> 1]
  /\ ticks = {} /\ spent = [k \in Keepers |-> [d \in 1..MaxDay |-> 0]] /\ failures = 0

TickStep(t) ==
  ReadGas(t) \/ NextPaymaster(t) \/ ReadPrice(t) \/ CanUpdatePrice(t) \/ Broadcast(t) \/ Count(t)

KeeperNext ==
  \/ \E k \in Keepers, id \in 1..MaxOverlap : TickStart(k, id)
  \/ \E t \in ticks : TickStep(t)
  \/ \E u \in mempool : MineUpdate(u)
  \/ \E a \in Addrs : NearsStaleness(a)
  \/ Midnight

KeeperSpec ==
  /\ KeeperInit /\ [][KeeperNext]_kvars
  /\ \A k \in Keepers : WF_kvars(TickStart(k, 1))
  /\ WF_kvars(\E t \in ticks : TickStep(t)) /\ WF_kvars(\E u \in mempool : MineUpdate(u))
  /\ WF_kvars(Midnight)

-----------------------------------------------------------------------------
(* The daily cap bounds the gas a keeper spends in a day, however many      *)
(* paymasters there are: each overlapping tick may exceed the cap by one    *)
(* update, and ticks still running at midnight spend before the count of    *)
(* the day before is reset (tick, refreshOne).                              *)
SpendBounded ==
  \A k \in Keepers, d \in 1..MaxDay : spent[k][d] <= 2 * (MaxUpdates + MaxOverlap - 1)

(* A price that nears staleness is refreshed: on a later day, if the cap   *)
(* is spent (tick).                                                        *)
PriceRefreshed ==
  \A a \in Addrs : []<>(due[a] => \A k \in Keepers : updatesToday[k] >= MaxUpdates)
===============================================================================
