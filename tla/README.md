# Verification of YetAnotherAA-Validator

TLA+ models of the BLS validator contracts, of the DVT (distributed validator)
nodes and of the scripts around them, model-checked with TLC and, where marked,
proved with TLAPS for every value of the constants. `PROJECT.json` lists the
components, the runs, the source lines of every definition, the hazards, the
mutants and the theorems.

## The system

A smart account's user operation is authorised by an aggregate BLS signature of
DVT nodes. Three kinds of parts cooperate:

* **Contracts** (`contracts/src`). `AAStarValidator` keeps the registry of
  nodes, their keys and the stake behind them, and verifies aggregates.
  `AAStarCommitteeValidator` inherits it, commits to the active set in a sparse
  Merkle tree, freezes that set once per epoch and verifies committees drawn
  from the previous epoch's frozen set. `OverIssueFraudProofVerifier` checks
  the fraud proofs that slash guardians.
* **Nodes** (`src/modules`, NestJS). They sign user operations after a policy
  check and the owner's confirmation, gossip with each other, audit operators,
  co-sign and drive slashes, watch guardian slashes, attest their liveness,
  refresh prices, and serve relayers and payments. A node is one process with
  one event loop: handlers interleave at awaits.
* **Keepers and operations** (`deploy`, `scripts`). The committee keeper pins
  epochs; scripts report on it, enrol guardians, rotate the verifier and keep
  the tunnel up; the heartbeat opens and closes issues.

The parts meet in few places. The contracts share one state through inheritance
and ask the external stake Registry and its BLSAggregator, which change without
telling them. A node asks the chain (a call answers or fails), its peers (a
message is delayed, lost, repeated) and the remote signer. All writes of a node
to the chain share one wallet.

## Modules

State names are those of the source. A mapping with a default is a total
function, a boolean mapping a set, a struct a record. A revert is an action that
is not enabled; an early return is a branch of the action. In the nodes a step
is the stretch of a handler between two awaits. Mutated forms of a definition
stand before the definition they replace and are used by no specification.

| Module | Models | How |
| --- | --- | --- |
| `ValidatorRegistry` | `AAStarValidator.sol`: registry, locks, governance | one action per external function; the stake Registry is environment |
| `ActiveSet` | hooks, slot allocator, leaves and list checks of `AAStarCommitteeValidator.sol` | extends the registry: every registry step includes its hook |
| `SparseMerkle` | `_smtSet`, `getMerkleProof`, `_verifyMerkle` | a hash is a constructor term, so it is injective |
| `CommitteeMath`, `CommitteeCurve` | expected committee, quorum, draw threshold | operators, and a machine that walks over the pool sizes |
| `CommitteeValidator` | epochs, snapshots, exits, enrolment, validation | extends the active set; adds the block clock and the aggregator's exit ledger |
| `RoleWatch` | derivation of the audited role members (`audit.service`) | from events or the getter, at a pinned block, with failing reads and reorganisations |
| `OfflineAudit` | heartbeat ledger of `gossip.service`, the offline sweep of `audit.service` | three clocks; any past heartbeat may arrive at any time |
| `SlashDrive` | from a violation to an executed slash (`audit.service`, `proof-archive`) | memory and disk apart, a crash between any two steps, peers that slash too |
| `CoSign` | `gossip-quorum-cosigner` and its transport in `gossip.service` | one collector per call, faulty peers, caps, a changing validator set |
| `GossipMesh`, `GossipData` | peers and connections; the key/value state of `gossip.service` | |
| `FraudProof`, `GuardianWatcher` | pre-images, assembly and check of fraud proofs; the watcher and its store | the second extends the first; a crash between any two writes |
| `NodeIdentity` | `node.service`, `dashboard.service`, `node-key-consistency` | state file, process memory and chain apart |
| `Confirmation` | sign and confirm endpoints, `confirmation.service`, `notification.service` | one process per call |
| `PolicyGate`, `Relay`, `X402Facilitator` | `policy.service`, `relay.service`, the x402 service and guard | `NodeServices` puts the three side by side |
| `OperatorWallet`, `WalletPromise` | the wallet queue and the writes of `blockchain.service`; what callers rely on | the first refines the second |
| `LivenessKeeper`, `PriceKeeper` | `liveness-keeper`, `keeper.service` | the first builds on `WalletPromise` |
| `CommitteeKeeper` | the pinning keeper and the health check under `deploy` | redundant keepers, several calls per tick |
| `SnapshotLog` | replay of the event log and the pin-rate tool under `scripts` | |
| `HeartbeatAlerts`, `TunnelKeepalive` | the two shell scripts under `deploy` | one command per step |
| `GuardianEnrolment`, `VerifierRotation` | the enrolment and rotation scripts | transactions may fail, lag or be overtaken |
| `Operations` | the keeper, enrolment, rotation and tunnel side by side, with the curve | each has variables of its own |
| `MC*` | instances for TLC | |
| `*Proofs` | theorems | see below |

History variables record what the properties speak of and never guard a step of
the code: `freeze` (what was true when an epoch was pinned), `uses`, `approved`
and `signed` (what became of a token), `signedBy` and `crowdedOut` (of a co-sign
answer), `heard` (the latest heartbeat handled), `spentBefore` (a payment was
spent when its request came), `misreported`, `hurt`, `wronged`.

### Environment and abstraction

* A block hash is the block's number; hashes are injective; a signature verifies
  or does not. A runtime draw is an arbitrary function (`Draw`).
* The Registry rotates its aggregator forward only, and notices are filed with
  the aggregator in force. Both come from how the contract uses them.
* In `Confirmation` the policy's verdict is an input (`PolicyGate` models it); in
  `CoSign` `verifyAndSign` is one step and the answers of a connection are read
  in order. A faulty peer answers under its own key, or with a signature another
  node made for its slot: the message does not depend on who asks for it.
* In `SnapshotLog` an epoch is up at a block where `validate` can accept: both
  epochs pinned under this version and within their validity, and the frozen pool
  at the floor or above. The floor is scaled down to `MinCommittee`; validity ends
  only by a halt of the chain, since an epoch is far shorter than the exit delay.
* In `HeartbeatAlerts` closing on recovery posts a comment first, as `gh issue
  close --comment` does; a full issue refuses the comment and stays open.
* In `TunnelKeepalive` the token may be refused although the host is online, and
  compose may fail for a reason of its own, before or after it removes the tunnel.
* A heartbeat dropped by the verification budget counts as lost. The derived
  watch list of `OfflineAudit` is any set of role members (`RoleWatch` models
  how it is derived).
* In `SlashDrive` a peer queues a slash only when its own scan finds none
  executed; two nodes that queue at the same moment are a residual the source
  documents. The armed pipeline is dormant today (`audit.service.ts:1605-1608`).
* `GuardianWatcher` takes from the contract that a proposal is executed once and
  that its evidence names one token (`SlashConstants`).
* `CommitteeKeeper`: reads that follow one another in a tick without a decision
  between them are one step.
* `GossipMesh`: all nodes have one list of seeds; outages are shorter than the
  clean-up. The `sync` message that a peer gets when it joins is in `GossipData`.
* `RoleWatch` leaves out the cap on the number of events and the refusal to
  start from block 0. `PriceKeeper` does not share the wallet's queue.

## Runs

Components that do not interact are checked in one run as *slices*: the first
state picks a component (`focus`), which runs under its own specification while
the others rest in an initial state. A liveness property of one slice is stated
so that it holds trivially of the others. Deadlock is checked in `epochs`,
`offline` and `heartbeat_duplicate`; the slices of the other runs contain
components that really stop (a script that has ended, a bound that is reached).

| Run | Shows | Bounds, and why they are enough |
| --- | --- | --- |
| `epochs` | a frozen member is still bonded while its snapshot is in force; a snapshot can always be unblocked; a pin takes in exactly the eligible set | 1 staked node, blocks of 1 and 3 s, 5 blocks, exit delay 5, lengths 2 and 4, 2 aggregators: an exit, a restake and a rotation around two boundaries |
| `committee` | an accepted committee is a quorum of the frozen set (3 nodes that leave and come back in other slots, 5 blocks); from deployment on no order of setters makes a stale snapshot usable and the quorum view promises just what `validate` accepts (1 node, lengths 0, 2, 3, 2 configuration changes); the books and locks of the registry agree (3 ids, 2 keys, 2 operators, batches of 2 with a repeated entry, a legacy id beside a derived one); the incremental root and proofs are those of the leaves (depth 3: unset and cleared siblings on every level) | given with each slice: every lock, boundary and branch is crossed at least once in both directions |
| `signing` | a share is released on its own live approval, once and in time (2 tokens, 2 requests, time to live 2, restarts); the self-check publishes what was true of the current identity (2 identities, 2 boots, 2 dashboard jobs, 2 blocks); an allowed op is covered by every rule (batches of 2); the relay's broadcasts fit the quota (3 requests, 2 windows, limit 1); a payment settles once (3 requests, 2 schemes, another facilitator) | tokens and requests are symmetric, and no property of the run is temporal but an action property that is symmetric too; `RulesDistinct` leaves out policy configurations that differ by the names of addresses or in rules a disabled gate does not read |
| `offline` | nobody heard in time is accused; who stays silent is reported again and again; the role members the audit derives are those of the finalized chain | 2 operators, 2 nodes, clocks off by -1 and 1, the auditor's by -2 or 1, one place in the ledger, 2 verifications in flight; for the roles 2 users, 4 blocks, 2 events, chunks of 2 blocks that are halved, a failing read or a reorganisation |
| `services` | a slash lands although an attestation before it is stuck; the wallet implements `WalletPromise`; the watchdog alone keeps the operator live; prices are refreshed; the seeds' rosters settle | 2 slashes and 1 attestation, 3 sends; 5 attestations, windows 3 and 6; 2 overlapping ticks over 2 paymasters and 2 days; 3 nodes, one failing and one leaving |
| `watchers` | no slash of a guardian is skipped, every record tells what the chain held, every log settles; a slash is paid once and completed when queued; every co-sign proof is a sound quorum, caps drop no honest answer, every call ends; gossiped data converge | 3 logs in 2 blocks, 2 boots, 1 fault; 2 blocks with at most 2 troubles (`MaxDriveTroubles`: failed calls, restarts, peers and recoveries together); the node and 2 peers, one faulty, threshold 2, caps 1 and 2; 3 nodes in a line, 2 writers, a peer that joins anew and is synced |
| `operations` | the curve is sound for pools of 0..600, across all its branches; redundant keepers pin every epoch that stays open; the health report, the replayed log, the enrolment's and the rotation's results say what is so; alerts follow health; a repair never takes down what serves | 2 keepers, blocks 3 to 5, 2 versions; 8 blocks with 2 mutations, 1 bump and 1 halt of the chain, floor 1; 2 changes of health, comment cap 2; 2 files, 1 stranger; 3 machines, 3 troubles |

`pin_rate`, `gossip_roster`, `heartbeat_duplicate`, `confirmation_signer` and
`node_delete` end in a counterexample: see the disagreements below.

Each property of a passing run has a mutant of the code's model that violates it.

### Fairness

Safety needs none. Liveness assumes what the code's own timers and awaits
guarantee, never that a peer answers or a message arrives:

* `CoSign`: the collection timer fires and the coordinator's own awaits
  (re-reading a slot, aggregating) come back.
* `OfflineAudit`: the interval timer keeps firing, each await of a tick returns
  or fails, and (strong fairness) not every tick works on a stale block and not
  every chain read of an operator fails. A provider that fails for ever does
  silence the audit.
* `GuardianWatcher`: blocks are mined, the polling timer fires, and a process
  that stopped is started again with a configuration that passes the checks.
* `SlashDrive`: a step that can run runs, and a cooldown ends.
* `GossipMesh`, `GossipData`: the reconnect, gossip and clean-up intervals fire
  and a connection that is up delivers. Faults are finite in number.
* `OperatorWallet`: a transaction that pays enough is mined, a price spike ends,
  and each caller goes on. `LivenessKeeper`, `PriceKeeper`: their intervals fire.
* `CommitteeKeeper`: a keeper that runs goes on, its transactions are mined, and
  a node whose exit notice is due is evicted.
* `HeartbeatAlerts`: the scheduler starts a run and a run ends.
  `GuardianEnrolment`: a sent transaction is mined, and the operator who sees a
  failure runs the script again in broadcast mode (strong fairness).

Where a component may be interrupted for ever, a property has the form
`[]<>(...)`: it says that the state is reached again and again, not that it stays.

### Refinement

`OperatorWallet` implements `WalletPromise` (run `services`, `KeepsPromise`): a
caller's view of an attestation is called, confirmed or failed, and it ends. The
mapping forgets the queue, the nonces and the fee replacements. `LivenessKeeper`
is built on the abstract account, so that its watchdog holds for any wallet that
keeps the promise. The safety part, that every step of the wallet is a step or a
stutter of the promise, is also proved (`WalletKeepsPromise`). The layers of the
contract are related in the proofs: a step of `CommitteeValidator` is a step or a stutter of `ActiveSet`, and that of
`ValidatorRegistry`.

## Proofs

Each proof module proves `Spec => []Inv` for an inductive invariant and derives
the properties from it. The constants are arbitrary up to the named `ASSUME`s.
Most only give types and distinctness. Those that say more:

* `RegistryAssumption`: `NodeIdOf` is injective (a hash).
* `CurveAssumption`: the signer limit is at least 58 and the oversampling ratio
  between 1 and 8, as the contract's setter enforces.
* `CommitteeAssumption`: the least committee is at least 1 and the node limit at
  least 58, the largest quorum of the curve (3 and 100 in the contract). Only
  `ReadinessSound` needs that.
* `RoleAssumption`: the finality depth and the chunk of blocks are at least 1, as
  `configuration.ts` enforces.
* `SlashConstants`: a proposal is executed once, evidence names one token.
* `CoSignAssumption`: no two nodes share a slot. `CapsAssumption`: the caps of all
  connections fit the total. The defaults, 4 and 64 (`gossip.service.ts:856-858`),
  give that for up to sixteen peers; only `HonestNotCrowdedOut` uses it.
* `IdentityAssumption`: states created, imported or found on disk are whole
  `NodeState` records.
* `ServicesAssumption`, `OperationsAssumption`: the settings are numbers, the
  hour and the epoch are not empty, no seat is 0, the stranger is no validator.
* `DriveAssumption`: the slash lookback is a number of blocks. Modes and bounds are
  arbitrary.

| Module | Proves of a run's properties | Inductive invariant, and what it adds to the properties |
| --- | --- | --- |
| `ActiveSetProofs` | `CommitmentExact`; `RegistryConsistent`; also `StakedModeSealed` | `RegistryInv`: bootstrap marks only on registered ids: one that survived a removal would attach to a later staked node and break both locks. `ActiveInv`: finite sets, and `nextSlot = activeCount + Len(freeSlots)`: without it the allocator could hand out a used slot or run out early |
| `CommitteeProofs` | `FrozenStillBonded`, `PinsEligibleSet`, `CommitteeIsFrozenQuorum`, `ReadinessSound` | `CommitteeInv`: the frozen leaves of each pinned epoch are those of the nodes recorded then; where a pin in force lies in time and that each frozen operator's stake outlives it; nobody has given notice to a future aggregator; two epochs are shorter than the exit delay. For `ReadinessSound` also that a snapshot's count is that of its frozen leaves (`Commits`): a ready quorum is then a list of that length, taken from the frozen nodes, and `validate` accepts it |
| `SigningProofs` | `ReleasedOnApproval`, `ReleasedBeforeExpiry`, `PublishedIsTrue` | `ConfirmationInv`: each map entry is its token's own; how far a token and a call can have come with each other. `IdentityInv`, `StatesWhole`: loops of older generations may run on, one of this generation is about the state loaded, and what an attempt has read was true at the block it pinned |
| `NodeServicesProofs` | `AllowedIsCovered`, `SettlementSound`, `BroadcastsWithinQuota`; also `ConfirmedIsReal` of the liveness keeper | `GateInv`: while the registry is being asked, the floor has passed for every call and each question is the normalised call. `X402Inv`: the record of the contract names the key of each settlement of the node, and no two have one key. `RelayInv`: what a buyer was granted fits the full quotas of the hours past and the counter of this one. `LivenessInv`: a head the keeper has confirmed is one an attestation landed at. |
| `CoSignProofs` | `QuorumSound`, `HonestNotCrowdedOut`, and of `KeepsPromise` the safety part; also `SpendBounded` of the price keeper | `CoSignInv`: a signature that verifies is the signer's, who confirmed the violation or is faulty, a cached key belongs to the slot, each validation started is charged to one connection. `WalletInv`: what a caller was told of its call is what became of it, and nothing lands that nobody called. `PriceInv`: the count of the day and the ticks past its check fit the cap plus the overlap, and a broadcast is counted or about to be, unless midnight came between |
| `GuardianWatcherProofs` | `NoLogSkipped`, `RecordsTrue`; `RolesTrue` of `RoleWatch`; also `NoStaleOverwrite` of the gossiped data | `WatcherInv`: what the cursor passed is settled or queued. `TruthInv`: only mined blocks are read, under the aggregator's own domain. `RoleInv`: the ranges still to be read and the events already read are together the events up to the pinned block, which no reorganisation reaches. `DataTyped`: versions are numbers, wherever a datum is |
| `OfflineAuditProofs` | `HeardNotAccused`, `SlashPaidOnce` | `OfflineInv`: bounds on what is being verified, recorded and read, relative to the time it was sent. `DriveInv`: while the flag is up, or an attempt is about to raise it, no own slash is recent; a proposal beyond those that restarts and recoveries account for is one the node still holds or knows to be spent |
| `OperationsProofs` | `ReportsTrue`, `VerifiedAreSeated`, `ArtifactTells`, `NeverWorsens`, `CurveSound` | `KeeperInv`: an epoch a tick may report on was seen usable by it. `EnrolInv`: a batch past the gates is disjoint, so no file undoes another. `RotationInv`, `TunnelInv`: what the script read before it acted |

The theorems are about the components' own specifications, from their own initial
states. A slice is such a specification beside others at rest, with two
exceptions: `epochs` and the first slice of `committee` start from a deployment in
service and leave out part of the owner's setters, which the deployment and
registry slices exercise; and `MaxDriveTroubles` cuts the slash slice.

An induction over slots or list positions is written with the least-element
principle: if a property fails, take the least index at which it does
(`LeastNatural`); this is how `KeeperListAcceptedHolds` shows that the sorted list
a keeper builds is accepted, whatever the number of nodes.

Only model-checked, and why:

* liveness (`SilentReported`, `SlashLands`, `WatchdogKeepsLive`, `PriceRefreshed`,
  `RosterSettles`, `EveryLogSettles`, `QueuedCompleted`, `CallEnds`,
  `EventuallyConsistent`, `PinnedWhileOpen`, `IssuesFollowHealth`,
  `RetryCompletes`), the fairness of the refinement `KeepsPromise`, and
  `ServiceNotStuck`, which uses `ENABLED`: outside the reach of the prover;
* `TreeOpens`: the tree is computed by recursion on the depth;
  `LogTellsTruth`: sums and a replay over a log of any length.

Stated beside the modules and in no run: `SelfCheckConverges`, `RequestAnswered`,
`SettleAnswered`, `MembersWatched`, `TunnelRestored`, `NonceExclusive`,
`NoncesDistinct`, `PendingPinServes`, the type invariants, and (proved)
`UndeliveredOnlyUnaddressed`, `LedgerWithinRelevant`, `ConfirmedIsReal`, `SpendBounded`,
`NoStaleOverwrite` and the lemmas' parts.

## Where documentation and code disagree

1. `confirmation.service.ts:139` says a missing entry was "already consumed by a
   successful sign". The gate deletes the entry before it signs, so a failing
   required signer loses the approval (`confirmation_signer`, without restarts).
2. `dashboard.service.ts:238` allows a deletion only of a node that is not
   registered. The file is removed two awaits after the check (`node_delete`).
3. `COMMUNITY_OPERATORS.md:98-99` says every node converges on the full roster. A
   peer that is suspected while another joins is not told of it (`gossip_roster`).
4. `local-heartbeat.sh:270` promises one open issue per category. A failed read of
   an issue counts as an issue of somebody else (`heartbeat_duplicate`).
5. `check-pin-rate.mjs:218-220` wants no epoch charged because the window cut it.
   The first measured epoch is, when its predecessor's pin lies before the window
   (`pin_rate`).

Met while modelling, without a run of their own:

* Contract: the count that `AAStarValidator.sol:1129` describes is the length of a
  list that may hold stale entries; `AAStarCommitteeValidator.sol:590` describes
  another curve than line 607 computes; `quorum-classify.mjs:19-20` and
  `AAStarCommitteeValidator.sol:684` differ on when a pending pin serves.
* Signing: a send that fails late removes an entry already approved
  (`confirmation.service.ts:129`); a channel without an address of the contact
  counts as delivered (`notification.service.ts:25`), although
  `confirmation.service.ts:49` has the node refuse: `UndeliveredOnlyUnaddressed`
  shows that nothing else leaves an op waiting unasked; the native value of a token
  call is covered by the cap alone; `registerOnChain` stamps whatever identity is
  loaded when the receipt arrives.
* Payments: `tx.wait(1)` of the x402 settlement has no timeout, and a request
  answered as failed may still settle.
* Audit: heartbeats of an auditor whose clock is behind by more than
  `MAX_HEARTBEAT_SKEW_MS` are dropped as future-dated, so `HeardNotAccused` speaks
  of close clocks only. An offence repeated within the lookback is marked again;
  an unread pending flag may lead to a second proposal; a dry run archives its
  simulated proposal although `audit.service.ts:1247-1248` says it writes no
  durable state; an operator that recovers while queued stays flagged; a slash
  transaction never raises its fee.
* Keepers: the watchdog's 15 s deadline is shorter than the 20 s wait of
  `attestLiveness`; `tick()` has none. A read error in `refreshOne` ends the whole
  price tick although the comment says it never throws, and overlap at midnight
  may exceed the daily cap, up to `2 * (MaxUpdates + MaxOverlap - 1)`. A pin mined
  in the next epoch pins that epoch and the tick reports "pinned".
* Scripts: a `tx.wait` that throws leaves the rotation without an artifact; an
  unlabelled heartbeat issue stays open (`local-heartbeat.sh:432`). A full issue is
  never closed on recovery, because the close carries a comment (:469-471), although
  :448-449 wants the open set equal to the fault set: `IssuesFollowHealth` says that
  every issue that is not full is closed. The pin rate sees pins only, so blocks in
  which the frozen pool is below the floor or a set has outlived its validity count
  as served: `LogTellsTruth` says that no other downtime is hidden.
* Co-signing: a resend is told by signer, slot and signature
  (`gossip.service.ts:935`), not by "the FULL response" as :932 says. A response that
  carries an honest node's signature beside another message hash is dropped, and the
  node's own answer is then ignored as a resend of it; `HonestNotCrowdedOut` is about
  the caps, and `QuorumSound` and `CallEnds` hold all the same.
* Gossip: two data of the same millisecond may diverge; a late close handler drops
  the newer connection until the next reconnect; the join broadcast at start
  reaches nobody.

## Not modelled

* **Pairing, hash-to-curve, BLS arithmetic, keystore encryption, the Rust signer's
  key handling**: pure computation over large fields; a signature verifies or does
  not.
* **Dashboard pages, health and alert texts, controllers' DTOs, configuration
  parsing**: no protocol state. `gossip-validator.ts` is imported for its
  whitelist only.
* **One-shot scripts**: deployment, the fraud-drill export, tunnel and x402
  provisioning, the static lint `check-verifier-arming.mjs`. The transactions they
  send are actions of the contract modules.
* **Gas estimates and views without a consumer in the models.**
