----------------------------- MODULE Operations -----------------------------
(***************************************************************************)
(* The operator's scripts around the committee that act on the chain or on *)
(* a machine, side by side: each has variables of its own and none reads   *)
(* another's.                                                              *)
(***************************************************************************)
EXTENDS CommitteeCurve

CONSTANTS
  Nodes, Keepers, EpochLength, PIN_WINDOW, MinCommittee, Founders,
  FirstBlock, KeeperMaxBlock, MaxConfig, MaxChanges,     \* CommitteeKeeper
  Validators, Stranger, Seats, Keys, BatchSize, MaxStrangers,
                                                         \* GuardianEnrolment
  Verifiers, Expected, Delay, MaxTime,                   \* VerifierRotation
  Machines, MaxTroubles,                                 \* TunnelKeepalive
  MaxFaults

VARIABLES
  keeperBlock, armed, keeperVersion, pin, expired, members, leaving,
  keeperMempool, keeperAt, epoch, bn, list, reason, misreported,
  keeperSeen, changes, keeperFaults,
  batch, release, owner, seat, key, keyOwner, enrolMempool, enrolAt, mode,
  i, enrolReceipt, bad, outcome, enrolFaults, strangers,
  now, active, pending, readyAt, rotationAt, rotationSeen, broadcast,
  rotationReceipt, artifact, exit, rotationFaults,
  healthy, tunnel, internet, checkOnly, tunnelAt, code, hurt, troubles

Keeper == INSTANCE CommitteeKeeper WITH
  MaxBlock <- KeeperMaxBlock,
  block <- keeperBlock, version <- keeperVersion, mempool <- keeperMempool,
  at <- keeperAt, seen <- keeperSeen, faults <- keeperFaults
Enrol == INSTANCE GuardianEnrolment WITH
  Slots <- Seats,
  mempool <- enrolMempool, at <- enrolAt, receipt <- enrolReceipt,
  faults <- enrolFaults
Rotation == INSTANCE VerifierRotation WITH
  at <- rotationAt, seen <- rotationSeen,
  receipt <- rotationReceipt, faults <- rotationFaults
Tunnel == INSTANCE TunnelKeepalive WITH
  Nodes <- Machines, at <- tunnelAt

ASSUME OperationsAssumption == Keeper!KeeperConstants /\ Enrol!EnrolConstants

(* What the keeper and the health check report is what the contract does.  *)
ReportsTrue == Keeper!ReportsTrue

(* A verified batch seats as many guardians as it has files.               *)
VerifiedAreSeated == Enrol!VerifiedAreSeated

(* The read-back artifact tells what the apply transaction did.            *)
ArtifactTells == Rotation!ArtifactTells

(* The keepalive never turns a partial outage into a total one.            *)
NeverWorsens == Tunnel!NeverWorsens
=============================================================================
