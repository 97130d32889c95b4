---------------------------- MODULE MCServices ----------------------------
(***************************************************************************)
(* The services a node runs in the background, checked one at a time: a    *)
(* behaviour picks one of them, which runs under its own specification     *)
(* while the others rest.  They share no state but the operator's wallet,  *)
(* which LivenessKeeper sees through WalletPromise.                        *)
(***************************************************************************)
EXTENDS Naturals

LivenessConfigs ==
  {[registry |-> TRUE, wallet |-> w, interval |-> i] : w \in BOOLEAN, i \in BOOLEAN}

VARIABLES
  focus,      \* the component that runs; the others rest in an initial state
  pc, fifo, nonce, sends, recovered, prevFee, sent, pool, mined, price,
  walletFaults, head, window, liveAt, status, landed, phase, armed, tick,
  tickFor, calls, cycle, sample, confirmedAtBlock, watchdogFailures,
  alerted, cadence, livenessFaults, day, due, stale, mempool, updatesToday,
  lastDay, ticks, spent, priceFaults, up, left, cut, peers, conn, net,
  dials, saved, seen, meshFaults

Wallet == INSTANCE OperatorWallet WITH
  Slashes <- {"s1", "s2"}, Attests <- {"a1"}, MaxSends <- 3, MaxFaults <- 1,
  faults <- walletFaults
Liveness == INSTANCE LivenessKeeper WITH
  Windows <- {3, 6}, MinWindow <- 3, MaxWindow <- 9, Divisor <- 3,
  Configs <- LivenessConfigs, AlertAfter <- 2, MaxHead <- 3, MaxAttests <- 5,
  MaxCadence <- 1, MaxFaults <- 2, faults <- livenessFaults
Price == INSTANCE PriceKeeper WITH
  Keepers <- {"k1"}, Paymasters <- <<"p1", "p2">>, Broken <- {},
  MaxUpdates <- 1, MaxOverlap <- 2, MaxDay <- 2, MaxStale <- 4, MaxFailures <- 1,
  failures <- priceFaults
Mesh == INSTANCE GossipMesh WITH
  Nodes <- {"seed", "a", "b"}, Seeds <- {"seed"}, Joined <- {"seed", "a"},
  Faulty <- {"a"}, Leavers <- {"b"}, MaxFaults <- 1, faults <- meshFaults

walletVars == <<pc, fifo, nonce, sends, recovered, prevFee, sent, pool, mined, price,
    walletFaults>>
livenessVars == <<head, window, liveAt, status, landed, phase, armed, tick, tickFor, calls,
    cycle, sample, confirmedAtBlock, watchdogFailures, alerted, cadence,
    livenessFaults>>
priceVars == <<day, due, stale, mempool, updatesToday, lastDay, ticks, spent, priceFaults>>
meshVars == <<up, left, cut, peers, conn, net, dials, saved, seen, meshFaults>>
all == <<focus, walletVars, livenessVars, priceVars, meshVars>>
WalletAlone == focus = "wallet" /\ UNCHANGED
  <<focus, livenessVars, priceVars, meshVars>>
LivenessAlone == focus = "liveness" /\ UNCHANGED
  <<focus, walletVars, priceVars, meshVars>>
PriceAlone == focus = "price" /\ UNCHANGED
  <<focus, walletVars, livenessVars, meshVars>>
MeshAlone == focus = "mesh" /\ UNCHANGED
  <<focus, walletVars, livenessVars, priceVars>>

SliceInit ==
  /\ focus \in {"wallet", "liveness", "price", "mesh"}
  /\ Wallet!Init /\ (focus # "wallet" => price = 1)
  /\ Liveness!Init /\ (focus # "liveness" => window = 3)
  /\ Price!KeeperInit
  /\ Mesh!Init

SliceNext ==
  \/ WalletAlone /\ Wallet!Next
  \/ LivenessAlone /\ Liveness!Next
  \/ PriceAlone /\ Price!KeeperNext
  \/ MeshAlone /\ Mesh!Next

(* Each component has the fairness of its own specification.               *)
SliceSpec ==
  /\ SliceInit /\ [][SliceNext]_all
  /\ WF_walletVars(focus = "wallet" /\ Wallet!Mine)
  /\ WF_walletVars(focus = "wallet" /\ Wallet!PriceFalls)
  /\ \A s \in {"s1", "s2"} : WF_walletVars(focus = "wallet" /\ Wallet!SlashStep(s))
  /\ WF_walletVars(focus = "wallet" /\ Wallet!AttestStep("a1"))
  /\ WF_livenessVars(focus = "liveness" /\ Liveness!WatchdogFires)
  /\ WF_livenessVars(focus = "liveness" /\ (Liveness!ReadHead \/ Liveness!ReadState \/ Liveness!Advise))
  /\ WF_livenessVars(focus = "liveness" /\ Liveness!Tick)
  /\ \A n \in 1..5 : WF_livenessVars(focus = "liveness" /\ Liveness!AttestLands(n))
  /\ WF_priceVars(focus = "price" /\ Price!TickStart("k1", 1))
  /\ WF_priceVars(focus = "price" /\ \E t \in ticks : Price!TickStep(t))
  /\ WF_priceVars(focus = "price" /\ \E u \in mempool : Price!MineUpdate(u))
  /\ WF_priceVars(focus = "price" /\ Price!Midnight)
  /\ WF_meshVars(focus = "mesh" /\ Mesh!Work)

(* A slash that is asked for lands, unless something fails.                *)
SlashLands == Wallet!SlashLands

(* The wallet implements the promise the liveness keeper builds on.        *)
KeepsPromise == Wallet!KeepsPromise

(* The watchdog keeps the operator within its liveness budget.             *)
WatchdogKeepsLive == Liveness!WatchdogKeepsLive

(* A price that nears staleness is refreshed, unless the cap is spent.     *)
PriceRefreshed == Price!PriceRefreshed

(* The rosters settle, whoever fails, restarts or leaves.                  *)
RosterSettles == <>[](focus = "mesh" => Mesh!Settled)
============================================================================
