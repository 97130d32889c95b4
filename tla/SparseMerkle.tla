------------------------------ MODULE SparseMerkle -----------------------------
(***************************************************************************)
(* The incremental sparse Merkle tree of AAStarCommitteeValidator.sol:     *)
(* _smtSet folds one leaf up to runningRoot, getMerkleProof reads the      *)
(* siblings back and _verifyMerkle folds a proof.  keccak256 is a pair     *)
(* constructor (injective, and never bytes32(0)); a bytes32 that is not a  *)
(* hash is a tuple of one number.  This is what lets ActiveSet speak of    *)
(* leaves where the contract has roots.                                    *)
(***************************************************************************)
EXTENDS Integers, Sequences

CONSTANTS Depth,    \* TREE_DEPTH
          NodeIds

Word(n)    == <<n>>
Hash(l, r) == <<l, r>>
Zero       == Word(0)
Levels     == 0..Depth
Index(l)   == 0..(2^(Depth - l) - 1)
Slots      == Index(0)

\* The constructor's empty-subtree hashes
zeros[l \in Levels] == IF l = 0 THEN Zero ELSE Hash(zeros[l - 1], zeros[l - 1])

VARIABLES
  smt,           \* level -> index -> bytes32, Zero where unset
  runningRoot,
  leaves         \* the leaves the callers asked for: slot -> node id or 0

vars == <<smt, runningRoot, leaves>>

Init ==
  /\ smt = [l \in Levels |-> [i \in Index(l) |-> Zero]]
  /\ runningRoot = zeros[Depth]
  /\ leaves = [s \in Slots |-> 0]

\* idx ^ 1
SiblingOf(i) == IF i % 2 = 0 THEN i + 1 ELSE i - 1

\* The sibling of node i of a level, unset entries read as empty subtrees
Sibling(l, i) ==
  LET sib == smt[l][SiblingOf(i)] IN IF sib = Zero THEN zeros[l] ELSE sib

\* One step of a fold: node i of a level with its sibling
Fold(i, cur, sib) == IF i % 2 = 0 THEN Hash(cur, sib) ELSE Hash(sib, cur)

SmtSet(slot, leaf) ==
  LET At(l) == slot \div 2^l
      cur[l \in Levels] == IF l = 0 THEN leaf
                           ELSE Fold(At(l - 1), cur[l - 1], Sibling(l - 1, At(l - 1)))
  IN  /\ smt' = [l \in Levels |-> [smt[l] EXCEPT ![At(l)] = cur[l]]]
      /\ runningRoot' = cur[Depth]

\* _onNodeActivated and _onNodeDeactivated, with the slot the allocator chose
Assign(slot, n) ==
  /\ leaves[slot] = 0
  /\ \A s \in Slots : leaves[s] # n
  /\ SmtSet(slot, Word(n))
  /\ leaves' = [leaves EXCEPT ![slot] = n]

Clear(slot) ==
  /\ leaves[slot] # 0
  /\ SmtSet(slot, Zero)
  /\ leaves' = [leaves EXCEPT ![slot] = 0]

Next == \E slot \in Slots : Clear(slot) \/ \E n \in NodeIds : Assign(slot, n)

Spec == Init /\ [][Next]_vars

--------------------------------------------------------------------------------
\* getMerkleProof for the node at a slot
MerkleProof(slot) == [l \in 0..(Depth - 1) |-> Sibling(l, slot \div 2^l)]

\* Mutant: the side is taken from the lowest bit at every level
VerifyUnshifted(root, slot, leaf, proof) ==
  LET cur[l \in Levels] == IF l = 0 THEN leaf ELSE Fold(slot, cur[l - 1], proof[l - 1])
  IN  cur[Depth] = root

\* _verifyMerkle
VerifyMerkle(root, slot, leaf, proof) ==
  LET cur[l \in Levels] ==
        IF l = 0 THEN leaf ELSE Fold(slot \div 2^(l - 1), cur[l - 1], proof[l - 1])
  IN  cur[Depth] = root

\* The tree computed from its leaves at once
Tree[l \in Levels] ==
  [i \in Index(l) |-> IF l = 0 THEN Word(leaves[i])
                      ELSE Hash(Tree[l - 1][2 * i], Tree[l - 1][2 * i + 1])]

--------------------------------------------------------------------------------
\* Whatever the order of assignments and clearings, with nodes of the tree
\* unset, set and cleared again, the running root is the root of the leaves.
RootOfLeaves == runningRoot = Tree[Depth][0]

\* A proof, made of any hashes of the tree, of node n at a slot is accepted
\* for exactly the node whose leaf is at that slot, and then the contract's own
\* proof is.
ProofIffLeaf ==
  LET hashes == UNION {{Tree[l][i] : i \in Index(l)} : l \in Levels}
      proofs == [0..(Depth - 1) -> hashes]
  IN  \A slot \in Slots, n \in NodeIds :
        /\ (\E proof \in proofs : VerifyMerkle(runningRoot, slot, Word(n), proof))
             <=> leaves[slot] = n
        /\ leaves[slot] = n =>
             VerifyMerkle(runningRoot, slot, Word(n), MerkleProof(slot))

\* The incremental tree commits to its leaves and opens to nothing else.
CommitmentOpens == RootOfLeaves /\ ProofIffLeaf
================================================================================
