---------------------------- MODULE CommitteeCurve -----------------------------
(***************************************************************************)
(* The committee arithmetic over the life of a deployment: the frozen pool *)
(* grows by one node at a time and the owner changes the oversampling.     *)
(***************************************************************************)
EXTENDS CommitteeMath

CONSTANTS
  MAX_SIGNERS,   \* MAX_NODE_COUNT: signers parsed in one validate()
  MaxPool,       \* bound: pool sizes considered
  Oversamples    \* bound: the <<num, den>> pairs considered

ASSUME CurveAssumption ==
  /\ MAX_SIGNERS \in Nat /\ MAX_SIGNERS >= 58
  /\ MaxPool \in Nat /\ MaxPool <= MAX_UINT
  /\ Oversamples \subseteq Nat \X (Nat \ {0})
  /\ \A over \in Oversamples : over[2] <= over[1] /\ over[1] <= 8 * over[2]

VARIABLES pool, oversample

mathVars == <<pool, oversample>>

MathInit == pool = 0 /\ oversample \in Oversamples

\* One more node in the pool
Grow ==
  /\ pool < MaxPool
  /\ pool' = pool + 1
  /\ UNCHANGED oversample

\* setOversample, whose requires are the range of Oversamples
ChangeOversample(over) ==
  /\ over # oversample
  /\ oversample' = over
  /\ UNCHANGED pool

MathNext == Grow \/ \E over \in Oversamples : ChangeOversample(over)

MathSpec == MathInit /\ [][MathNext]_mathVars

--------------------------------------------------------------------------------
(* Properties. *)

Quorum(n) == quorumOf(expectedCommittee(n))

\* The quorum of a non-empty pool can be met: it asks for at least one signer,
\* for no more signers than the pool has, and for no more than one validate()
\* call parses.
QuorumReachable ==
  pool >= 1 => /\ 1 <= Quorum(pool)
               /\ Quorum(pool) <= pool
               /\ Quorum(pool) <= MAX_SIGNERS

\* A pool that gains a node never needs fewer signers: the steps of the curve
\* at 8, 150 and 430 nodes are all upward.
QuorumMonotone == Quorum(pool) <= Quorum(pool + 1)

\* Whatever the oversampling, the draw aims at enough nodes for the quorum, its
\* threshold is positive, and it is MAX_UINT (everyone, no draw) exactly when
\* the target covers the pool: no finite threshold collides with that
\* sentinel, and none overflows.
DrawCoversQuorum ==
  LET m == expectedCommittee(pool)
      t == thresholdOf(pool, m, oversample)
  IN  pool >= 1 =>
        /\ Quorum(pool) <= drawTarget(m, oversample)
        /\ 0 < t /\ t <= MAX_UINT
        /\ t = MAX_UINT <=> drawTarget(m, oversample) >= pool

\* The curve is sound at every pool size: the quorum can be met, does not fall as
\* the pool grows, and the draw aims at enough nodes for it.
CurveSound == QuorumReachable /\ QuorumMonotone /\ DrawCoversQuorum
================================================================================
