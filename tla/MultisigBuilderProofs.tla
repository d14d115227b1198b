----------------------- MODULE MultisigBuilderProofs -----------------------
(***************************************************************************)
(* Proofs about MultisigBuilder for every tree depth and any number of     *)
(* commitments.                                                            *)
(***************************************************************************)
EXTENDS MultisigBuilder, MerkleTreeProofs, FiniteSetTheorems

\* The tree holds the commitments the builder took first, each once, and
\* falls behind only when it is full.
TreeIsPrefix ==
  /\ Len(leaves) <= Len(added)
  /\ \A i \in 1..Len(leaves) : leaves[i] = added[i]
  /\ Len(leaves) < Len(added) => ~ HasRoom
  /\ IsInjective(added)
  /\ Len(leaves) <= MAX_LEAVES

\* What was finalized is such a tree with its root, however the builder went
\* on.
FinalizedTree ==
  finalized # None =>
    /\ finalized.commitments \in Seq(Commitment)
    /\ IsInjective(finalized.commitments)
    /\ finalized.n = Len(finalized.commitments)
    /\ finalized.tree \in Seq(Commitment)
    /\ Len(finalized.tree) <= Len(finalized.commitments)
    /\ Len(finalized.tree) <= MAX_LEAVES
    /\ \A i \in 1..Len(finalized.tree) :
         finalized.tree[i] = finalized.commitments[i]
    /\ finalized.members_root = Root(finalized.tree)

IInv == TypeOK /\ TreeIsPrefix /\ FinalizedTree

-----------------------------------------------------------------------------

\* Adding a commitment that is not there keeps a sequence free of repeats.
LEMMA AppendInjective ==
  ASSUME NEW S, NEW s \in Seq(S), NEW c \in S, IsInjective(s), c \notin Range(s)
  PROVE  IsInjective(Append(s, c))
BY DEF IsInjective, Range

\* Every call of the builder keeps the invariant.
LEMMA BuilderStep == IInv /\ [Next]_vars => IInv'
<1>. SUFFICES ASSUME IInv, [Next]_vars PROVE IInv'
  OBVIOUS
<1>. USE DEF IInv
<1>0. Len(leaves) \in Nat /\ Len(added) \in Nat /\ MAX_LEAVES \in Nat
  BY MaxLeavesPositive DEF TypeOK
<1>1. ASSUME NEW commitment \in Commitment, AddMember(commitment)
      PROVE  IInv'
  <2>1. TypeOK'
    BY <1>1 DEF TypeOK, AddMember
  <2>2. Len(added) = Len(leaves)
    BY <1>1 DEF TreeIsPrefix, AddMember, TypeOK
  <2>3. IsInjective(added')
    BY <1>1, AppendInjective DEF TypeOK, TreeIsPrefix, AddMember, NotYetAdded
  <2>4. Len(leaves') <= MAX_LEAVES
    BY <1>0, <1>1 DEF TypeOK, AddMember, HasRoom
  <2>5. FinalizedTree'
    BY <1>1 DEF FinalizedTree, AddMember
  <2>6. TreeIsPrefix'
    BY <1>1, <2>1, <2>2, <2>3, <2>4 DEF TypeOK, TreeIsPrefix, AddMember
  <2>. QED
    BY <2>1, <2>5, <2>6
<1>2. ASSUME NEW commitment \in Commitment, AddMemberToFullTree(commitment)
      PROVE  IInv'
  <2>1. TypeOK'
    BY <1>2 DEF TypeOK, AddMemberToFullTree
  <2>2. IsInjective(added')
    BY <1>2, AppendInjective
       DEF TypeOK, TreeIsPrefix, AddMemberToFullTree, NotYetAdded
  <2>3. TreeIsPrefix'
    BY <1>2, <2>1, <2>2
       DEF TypeOK, TreeIsPrefix, AddMemberToFullTree, HasRoom
  <2>4. FinalizedTree'
    BY <1>2 DEF FinalizedTree, AddMemberToFullTree
  <2>. QED
    BY <2>1, <2>3, <2>4
<1>3. CASE Finalize
  <2>1. TypeOK'
    BY <1>3, BuilderWidths DEF TypeOK, Finalize, Finalizable
  <2>2. TreeIsPrefix'
    BY <1>3 DEF TreeIsPrefix, Finalize, HasRoom
  <2>3. FinalizedTree'
    BY <1>3 DEF TypeOK, TreeIsPrefix, FinalizedTree, Finalize
  <2>. QED
    BY <2>1, <2>2, <2>3
<1>4. CASE UNCHANGED vars
  BY <1>4 DEF vars, TypeOK, TreeIsPrefix, FinalizedTree, HasRoom
<1>. QED
  BY <1>1, <1>2, <1>3, <1>4 DEF Next

\* Through any calls, and after a refused one, the tree is a prefix of what
\* the builder took, behind it only when full, and so is the tree that was
\* finalized, with its root.
THEOREM BuilderInvariant == Spec => []IInv
<1>1. Init => IInv
  BY MaxLeavesPositive
     DEF Init, IInv, TypeOK, TreeIsPrefix, FinalizedTree, IsInjective
<1>. QED
  BY <1>1, BuilderStep, PTL DEF Spec

\* No commitment ever fills two leaves.
THEOREM OneLeafAlways == Spec => []OneLeafEach
<1>1. IInv => OneLeafEach
  BY DEF IInv, TypeOK, TreeIsPrefix, OneLeafEach, IsInjective
<1>. QED
  BY <1>1, BuilderInvariant, PTL

\* What finalize publishes is a valid threshold for create_multisig.
THEOREM BuilderTypeCorrect == Spec => []TypeOK
<1>1. IInv => TypeOK
  BY DEF IInv
<1>. QED
  BY <1>1, BuilderInvariant, PTL
-----------------------------------------------------------------------------

\* The index of a leaf of the finalized tree is its position there.
LEMMA MemberIndexFound ==
  ASSUME FinalizedTree, finalized # None, NEW i \in 1..Len(finalized.tree)
  PROVE  MemberIndex(finalized.tree[i]) = i - 1
<1>. DEFINE c == finalized.commitments
            leaf == finalized.tree[i]
            Found(j) == c[j + 1] = leaf
<1>1. /\ c \in Seq(Commitment) /\ IsInjective(c) /\ Len(c) \in Nat
      /\ i \in 1..Len(c) /\ c[i] = leaf
  BY DEF FinalizedTree
<1>2. i - 1 \in 0..(Len(c) - 1) /\ Found(i - 1)
  BY <1>1
<1>3. ASSUME NEW j \in 0..(Len(c) - 1), Found(j) PROVE j = i - 1
  <2>1. j + 1 \in DOMAIN c /\ i \in DOMAIN c /\ c[j + 1] = c[i]
    BY <1>1, <1>3
  <2>. HIDE DEF c
  <2>2. j + 1 = i
    BY <1>1, <2>1 DEF IsInjective
  <2>. QED
    BY <1>1, <2>2
<1>4. MemberIndex(leaf) = CHOOSE j \in 0..(Len(c) - 1) : Found(j)
  BY DEF MemberIndex
<1>. HIDE DEF Found, c
<1>. QED
  BY <1>2, <1>3, <1>4

\* Every leaf of a finalized tree proves itself against the published root
\* through the index member_index gives for it, for every depth and however
\* the builder went on after finalize.
THEOREM EnrolledAlwaysProve == Spec => []EnrolledCanProve
<1>1. IInv => EnrolledCanProve
  <2>. SUFFICES ASSUME IInv, Enrolled, NEW leaf \in Range(finalized.tree)
                PROVE  /\ HasMerkleProof(leaf)
                       /\ VerifyProof(finalized.members_root, leaf,
                                      MerkleProof(leaf))
    BY DEF EnrolledCanProve
  <2>. DEFINE tree == finalized.tree
  <2>1. /\ finalized # None /\ FinalizedTree
        /\ tree \in Seq(Commitment) /\ Len(tree) \in Nat
        /\ Len(tree) <= MAX_LEAVES /\ finalized.members_root = Root(tree)
    BY DEF IInv, FinalizedTree, Enrolled
  <2>2. PICK i \in 1..Len(tree) : leaf = tree[i]
    BY <2>1 DEF Range
  <2>3. MemberIndex(leaf) = i - 1
    BY <2>1, <2>2, MemberIndexFound
  <2>4. i - 1 \in Nat /\ i - 1 < Len(tree) /\ (i - 1) + 1 = i
    BY <2>1
  <2>. HIDE DEF tree
  <2>5. Climb(tree[(i - 1) + 1], Proof(tree, i - 1)) = Root(tree)
    BY <2>1, <2>4, LeafClimbsToRoot
  <2>6. leaf # Zero
    BY <2>1, <2>2, CommitmentsAssumption
  <2>. QED
    BY <2>1, <2>2, <2>3, <2>4, <2>5, <2>6
       DEF tree, HasMerkleProof, MerkleProof, VerifyProof
<1>. QED
  BY <1>1, BuilderInvariant, PTL

\* Nothing but a leaf verifies against the root to be published.
THEOREM OnlyEnrolledEverProve == Spec => []OnlyEnrolledProve
<1>1. IInv => OnlyEnrolledProve
  <2>. SUFFICES ASSUME IInv, NEW leaf, NEW proof,
                       VerifyProof(Root(leaves), leaf, proof)
                PROVE  leaf \in Range(leaves)
    BY DEF OnlyEnrolledProve
  <2>1. leaves \in Seq(Commitment) /\ Len(leaves) <= MAX_LEAVES
    BY DEF IInv, TypeOK, TreeIsPrefix
  <2>. QED
    BY <2>1, VerifiesExactlyLeaves, CommitmentsAssumption
<1>. QED
  BY <1>1, BuilderInvariant, PTL

\* A sequence has at most as many elements as it is long.
LEMMA RangeAtMostLength ==
  ASSUME NEW S, NEW s \in Seq(S), NEW n \in Nat, Len(s) <= n
  PROVE  Cardinality(Range(s)) <= n
<1>1. Len(s) \in Nat /\ DOMAIN s = 1..Len(s)
  OBVIOUS
<1>2. s \in Surjection(1..Len(s), Range(s))
  BY <1>1 DEF Surjection, Range
<1>3. Cardinality(Range(s)) <= Len(s)
  BY <1>1, <1>2, FS_SurjCardinalityBound DEF ExistsSurjection
<1>4. Cardinality(Range(s)) \in Nat
  <2>1. \A k \in Nat : IsFiniteSet(1..k)
    BY FS_Interval
  <2>2. IsFiniteSet(Range(s))
    BY <1>1, <1>2, <2>1, FS_Surjection
  <2>. QED
    BY <2>2, FS_CardinalityType
<1>. QED
  BY <1>1, <1>3, <1>4

\* Against the root that was published exactly its leaves verify, and they
\* are at most n: no more commitments can ever approve than were counted.
PublishedRootExact ==
  Enrolled =>
    /\ \A leaf :
         (\E proof : VerifyProof(finalized.members_root, leaf, proof)) <=>
           leaf \in Range(finalized.tree)
    /\ Cardinality(Range(finalized.tree)) <= finalized.n

\* So it is for every finalized multisig, for every depth.
THEOREM PublishedRootIsExact == Spec => []PublishedRootExact
<1>1. IInv => PublishedRootExact
  <2>. SUFFICES ASSUME IInv, Enrolled
                PROVE  PublishedRootExact
    BY DEF PublishedRootExact
  <2>1. /\ finalized.tree \in Seq(Commitment)
        /\ Len(finalized.tree) <= MAX_LEAVES
        /\ finalized.members_root = Root(finalized.tree)
        /\ Len(finalized.tree) \in Nat /\ finalized.n \in Nat
        /\ Len(finalized.tree) <= finalized.n
    BY DEF IInv, FinalizedTree, Enrolled
  <2>2. Cardinality(Range(finalized.tree)) <= finalized.n
    BY <2>1, RangeAtMostLength
  <2>3. \A leaf :
          (\E proof : VerifyProof(finalized.members_root, leaf, proof)) <=>
            leaf \in Range(finalized.tree)
    BY <2>1, VerifiesExactlyLeaves, CommitmentsAssumption
  <2>. QED
    BY <2>1, <2>2, <2>3 DEF PublishedRootExact
<1>. QED
  BY <1>1, BuilderInvariant, PTL

\* No other member list has the root.
THEOREM RootAlwaysCommits == Spec => []RootCommitsToMembers
<1>1. IInv => RootCommitsToMembers
  <2>. SUFFICES ASSUME IInv, NEW other \in Enrollments,
                       Root(other) = Root(leaves)
                PROVE  other = leaves
    BY DEF RootCommitsToMembers
  <2>1. PICK n \in 0..MAX_LEAVES : other \in Injection(1..n, Commitment)
    BY DEF Enrollments
  <2>2. n \in Nat /\ other \in [1..n -> Commitment]
    BY <2>1, MaxLeavesPositive DEF Injection
  <2>3. other \in Seq(Commitment) /\ Len(other) = n
    BY <2>2
  <2>4. leaves \in Seq(Commitment) /\ Len(leaves) <= MAX_LEAVES
    BY DEF IInv, TypeOK, TreeIsPrefix
  <2>5. Len(other) <= MAX_LEAVES
    BY <2>1, <2>3, MaxLeavesPositive
  <2>. QED
    BY <2>3, <2>4, <2>5, RootNamesLeaves, CommitmentsAssumption
<1>. QED
  BY <1>1, BuilderInvariant, PTL
=============================================================================
