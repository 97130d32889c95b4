----------------------------- MODULE CommitteeMath -----------------------------
(***************************************************************************)
(* The committee arithmetic of contracts/src/AAStarCommitteeValidator.sol: *)
(* how many signers an operation needs and how likely a node is drawn, as  *)
(* functions of the size of the frozen pool.                               *)
(***************************************************************************)
EXTENDS Integers

CONSTANT MAX_UINT   \* type(uint256).max, scaled down

ASSUME MathAssumption == MAX_UINT \in Nat

--------------------------------------------------------------------------------
\* Mutant: the cap at the pool size is missing
expectedUncapped(n) ==
  IF n <= 8 THEN n
  ELSE LET m == (n + 4) \div 5
       IN  IF m < 30 THEN 30 ELSE IF m > 86 THEN 86 ELSE m

\* expectedCommittee: the whole pool up to 8, then a fifth of it, between 30
\* and 86 and never more than the pool
expectedCommittee(n) ==
  IF n <= 8 THEN n
  ELSE LET fifth   == (n + 4) \div 5
           floored == IF fifth < 30 THEN 30 ELSE fifth
           capped  == IF floored > 86 THEN 86 ELSE floored
       IN  IF capped > n THEN n ELSE capped

\* _quorumOf: two thirds, rounded up
quorumOf(m) == (2 * m + 2) \div 3

\* The number of nodes the draw selects on average: oversample * m, rounded up
drawTarget(m, over) == (over[1] * m + over[2] - 1) \div over[2]

\* _thresholdOf: a node is drawn when its hash is below this; MAX_UINT stands
\* for the whole pool, without a draw
thresholdOf(n, m, over) ==
  IF n = 0 THEN 0
  ELSE IF drawTarget(m, over) >= n THEN MAX_UINT
  ELSE (MAX_UINT \div n) * drawTarget(m, over)
================================================================================
