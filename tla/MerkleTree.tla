----------------------------- MODULE MerkleTree -----------------------------
(***************************************************************************)
(* The fixed-depth Merkle tree of crypto/src/merkle.rs over the two hash   *)
(* domains of crypto/src/hash.rs.  A tree is the sequence of its leaves.   *)
(*                                                                         *)
(* A hash is the term of what was hashed, tagged with its domain byte, so  *)
(* two hashes are equal exactly when they hash the same bytes.  Positions  *)
(* count from 0, as in the code; leaf p is element p + 1 of the sequence.  *)
(***************************************************************************)
EXTENDS Naturals, Sequences

CONSTANTS
  MERKLE_DEPTH, \* 20 in the code
  Zero          \* the all-zero hash

ASSUME DepthAssumption == MERKLE_DEPTH \in Nat \ {0}

\* The leaves under a node: 1 << level.
Span[level \in 0..MERKLE_DEPTH] == IF level = 0 THEN 1 ELSE 2 * Span[level - 1]

MAX_LEAVES == Span[MERKLE_DEPTH]

HashLeaf(leaf) == <<"leaf", leaf>>

\* Faulty: a pair is hashed in sorted order.
HashUnordered(left, right) == <<"node", {left, right}>>

HashNode(left, right) == <<"node", left, right>>

\* What stands for an empty subtree of each height.
ZeroHash[level \in 0..MERKLE_DEPTH] ==
  IF level = 0 THEN HashLeaf(Zero)
  ELSE HashNode(ZeroHash[level - 1], ZeroHash[level - 1])

\* The hash of every node, by level and position.
NodeHash(leaves) ==
  LET node[level \in 0..MERKLE_DEPTH] ==
        [pos \in Nat |->
           IF pos * Span[level] >= Len(leaves) THEN ZeroHash[level]
           ELSE IF level = 0 THEN HashLeaf(leaves[pos + 1])
           ELSE HashNode(node[level - 1][2 * pos], node[level - 1][2 * pos + 1])]
  IN node

NodeAt(leaves, level, pos) == NodeHash(leaves)[level][pos]

Root(leaves) == NodeAt(leaves, MERKLE_DEPTH, 0)

\* Faulty: the sibling of a right child is taken on its right too.
NeighbourOnRight(pos) == pos + 1

\* pos ^ 1
Sibling(pos) == IF pos % 2 = 0 THEN pos + 1 ELSE pos - 1

\* The position above a leaf at every level: current >>= 1.
Path(index) ==
  LET current[level \in 0..MERKLE_DEPTH] ==
        IF level = 0 THEN index ELSE current[level - 1] \div 2
  IN current

\* MerkleTree::proof of a leaf that is there.
Proof(leaves, index) ==
  [siblings |-> [level \in 0..(MERKLE_DEPTH - 1) |->
                   NodeAt(leaves, level, Sibling(Path(index)[level]))],
   indices  |-> [level \in 0..(MERKLE_DEPTH - 1) |->
                   Path(index)[level] % 2 = 1]]

\* The hashes a proof leads through, from the leaf up,
Ascent(leaf, proof) ==
  LET current[level \in 0..MERKLE_DEPTH] ==
        IF level = 0 THEN HashLeaf(leaf)
        ELSE IF proof.indices[level - 1]
        THEN HashNode(proof.siblings[level - 1], current[level - 1])
        ELSE HashNode(current[level - 1], proof.siblings[level - 1])
  IN current

\* and the root it ends in.
Climb(leaf, proof) == Ascent(leaf, proof)[MERKLE_DEPTH]

\* Faulty: the all-zero leaf is looked up like any other.
VerifyAnyLeaf(root, leaf, proof) == Climb(leaf, proof) = root

VerifyProof(root, leaf, proof) ==
  /\ leaf # Zero
  /\ Climb(leaf, proof) = root
=============================================================================
