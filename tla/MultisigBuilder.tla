-------------------------- MODULE MultisigBuilder --------------------------
(***************************************************************************)
(* Enrollment in the SDK (sdk/src/multisig.rs): commitments are added one  *)
(* by one and finalize publishes the Merkle root, the threshold and the    *)
(* member count that create_multisig takes.  The builder outlives          *)
(* finalize, which only copies it.                                         *)
(***************************************************************************)
EXTENDS MerkleTree, Functions

CONSTANTS
  Commitment,    \* identity commitments
  MaxU8, MaxU32, \* largest threshold and member count (scaled down)
  None

ASSUME CommitmentsAssumption == Zero \notin Commitment

ASSUME BuilderWidths == MaxU8 \in Nat /\ MaxU32 \in Nat

VARIABLES
  m,        \* threshold
  added,    \* commitments the builder took, in order
  leaves,   \* leaves of its tree
  finalized \* the last MultisigFinalized, or None

vars == <<m, added, leaves, finalized>>

Init ==
  /\ m \in 0..MaxU8
  /\ added = <<>>
  /\ leaves = <<>>
  /\ finalized = None

\* Faulty: nobody looks for the commitment.
Unchecked(commitment) == TRUE

NotYetAdded(commitment) == commitment \notin Range(added)

\* MerkleTree::insert has a free slot.
HasRoom == Len(leaves) < MAX_LEAVES

AddMember(commitment) ==
  /\ NotYetAdded(commitment)
  /\ HasRoom
  /\ added' = Append(added, commitment)
  /\ leaves' = Append(leaves, commitment)
  /\ UNCHANGED <<m, finalized>>

\* add_member returns Err when the tree is full, after taking the commitment.
AddMemberToFullTree(commitment) ==
  /\ NotYetAdded(commitment)
  /\ ~ HasRoom
  /\ added' = Append(added, commitment)
  /\ UNCHANGED <<m, leaves, finalized>>

\* Faulty: the member count is cast to its width.
EnoughMembers == m > 0 /\ Len(added) > 0 /\ Len(added) >= m

Finalizable ==
  /\ Len(added) <= MaxU32
  /\ m > 0 /\ Len(added) > 0
  /\ Len(added) >= m

Finalize ==
  /\ Finalizable
  /\ finalized' = [members_root |-> Root(leaves), m |-> m, n |-> Len(added),
                   commitments |-> added, tree |-> leaves]
  /\ UNCHANGED <<m, added, leaves>>

Next ==
  \/ \E commitment \in Commitment :
       AddMember(commitment) \/ AddMemberToFullTree(commitment)
  \/ Finalize

Spec == Init /\ [][Next]_vars

\* MultisigFinalized::member_index.
MemberIndex(commitment) ==
  CHOOSE i \in 0..(Len(finalized.commitments) - 1) :
    finalized.commitments[i + 1] = commitment

\* MultisigFinalized::merkle_proof; it fails outside the tree.
HasMerkleProof(commitment) == MemberIndex(commitment) < Len(finalized.tree)

MerkleProof(commitment) == Proof(finalized.tree, MemberIndex(commitment))
-----------------------------------------------------------------------------

\* Type invariant.
TypeOK ==
  /\ m \in 0..MaxU8
  /\ added \in Seq(Commitment)
  /\ leaves \in Seq(Commitment)
  /\ finalized # None =>
       /\ finalized.m \in 1..MaxU8 /\ finalized.n \in 1..MaxU32
       /\ finalized.m <= finalized.n

Enrolled == finalized # None

\* Whoever is a leaf of a finalized tree has a proof that verifies against
\* the published root, found through the index the builder gave them,
\* whatever was added or refused since.
EnrolledCanProve ==
  Enrolled =>
    \A commitment \in Range(finalized.tree) :
      /\ HasMerkleProof(commitment)
      /\ VerifyProof(finalized.members_root, commitment,
                     MerkleProof(commitment))

\* The hashes an outsider can read off the tree.
Nodes == {NodeAt(leaves, at[1], at[2]) :
            at \in {a \in (0..MERKLE_DEPTH) \X (0..(MAX_LEAVES - 1)) :
                      (a[2] + 1) * Span[a[1]] <= MAX_LEAVES}}

\* Proofs put together from the hashes of the tree, in any order.
Proofs == [siblings : [0..(MERKLE_DEPTH - 1) -> Nodes \cup {Zero}],
           indices  : [0..(MERKLE_DEPTH - 1) -> BOOLEAN]]

\* No proof made of the tree's own hashes shows anything but a leaf to be
\* enrolled: neither an outsider's commitment, nor an empty slot, nor an
\* inner node presented as a leaf.
OnlyEnrolledProve ==
  \A leaf \in Commitment \cup {Zero} \cup Nodes, proof \in Proofs :
    VerifyProof(Root(leaves), leaf, proof) => leaf \in Range(leaves)

\* The leaf sequences the builder can come to.
Enrollments ==
  UNION {Injection(1..n, Commitment) : n \in 0..MAX_LEAVES}

\* The root names one member list: no other enrollment has the same root.
RootCommitsToMembers ==
  \A other \in Enrollments : Root(other) = Root(leaves) => other = leaves

\* No commitment fills two leaves.
OneLeafEach == IsInjective(leaves)

\* "the position MerkleTree::insert assigned when they were added": whoever
\* the finalized instance counts and indexes has a Merkle proof.
CountedCanProve ==
  Enrolled =>
    \A commitment \in Range(finalized.commitments) :
      HasMerkleProof(commitment)
=============================================================================
