-------------------------- MODULE MerkleTreeProofs --------------------------
(***************************************************************************)
(* Proofs about MerkleTree for every depth and any leaves: the path of a   *)
(* leaf climbs to the root, nothing but a leaf climbs to it, and no other  *)
(* leaves have it.  Each goes level by level, so the recursive functions   *)
(* of the module are first shown to satisfy their recursion equations.     *)
(***************************************************************************)
EXTENDS MerkleTree, Functions, TLAPS, WellFoundedInduction

Level == 0..MERKLE_DEPTH

\* A set that holds 0 and every successor of its numbers holds all numbers.
LEMMA NatsInductive ==
  ASSUME NEW S, 0 \in S, \A n \in Nat : n \in S => n + 1 \in S
  PROVE  \A n \in Nat : n \in S
<1>. DEFINE T == Nat \ S
            R == OpToRel(<, Nat)
<1>. SUFFICES ASSUME T # {} PROVE FALSE
  OBVIOUS
<1>1. IsWellFoundedOn(R, Nat) /\ T \subseteq Nat
  BY NatLessThanWellFounded
<1>2. \A i, j \in Nat : i < j => <<i, j>> \in R
  BY DEF OpToRel
<1>. HIDE DEF R
<1>3. PICK x \in T : \A y \in T : <<y, x>> \notin R
  <2>. HIDE DEF T
  <2>. QED
    BY <1>1, WFMin
<1>4. x - 1 \in T /\ x - 1 < x
  OBVIOUS
<1>. QED
  BY <1>2, <1>3, <1>4

\* Upwards through the levels of the tree,
LEMMA LevelsUpwards ==
  ASSUME NEW S, 0 \in S,
         \A l \in 1..MERKLE_DEPTH : l - 1 \in S => l \in S
  PROVE  \A l \in Level : l \in S
<1>. DEFINE T == {n \in Nat : n \in Level => n \in S}
<1>1. 0 \in T
  OBVIOUS
<1>2. ASSUME NEW n \in Nat, n \in T PROVE n + 1 \in T
  <2>1. CASE n + 1 \in Level
    <3>1. n + 1 \in 1..MERKLE_DEPTH /\ n \in Level /\ (n + 1) - 1 = n
      BY <2>1, DepthAssumption DEF Level
    <3>. QED
      BY <1>2, <3>1
  <2>. QED
    BY <2>1
<1>3. \A n \in Nat : n \in T
  <2>. HIDE DEF T
  <2>. QED
    BY <1>1, <1>2, NatsInductive
<1>. QED
  BY <1>3, DepthAssumption DEF Level

\* and downwards.
LEMMA LevelsDownwards ==
  ASSUME NEW S, MERKLE_DEPTH \in S,
         \A l \in 1..MERKLE_DEPTH : l \in S => l - 1 \in S
  PROVE  \A l \in Level : l \in S
<1>. DEFINE T == {n \in Nat : n \in Level => MERKLE_DEPTH - n \in S}
<1>1. 0 \in T
  BY DepthAssumption
<1>2. ASSUME NEW n \in Nat, n \in T PROVE n + 1 \in T
  <2>1. CASE n + 1 \in Level
    <3>1. /\ MERKLE_DEPTH - n \in 1..MERKLE_DEPTH /\ n \in Level
          /\ (MERKLE_DEPTH - n) - 1 = MERKLE_DEPTH - (n + 1)
      BY <2>1, DepthAssumption DEF Level
    <3>. QED
      BY <1>2, <3>1
  <2>. QED
    BY <2>1
<1>3. \A n \in Nat : n \in T
  <2>. HIDE DEF T
  <2>. QED
    BY <1>1, <1>2, NatsInductive
<1>4. ASSUME NEW l \in Level PROVE l \in S
  <2>1. /\ MERKLE_DEPTH - l \in Nat /\ MERKLE_DEPTH - l \in Level
        /\ MERKLE_DEPTH - (MERKLE_DEPTH - l) = l
    BY DepthAssumption DEF Level
  <2>. QED
    BY <1>3, <2>1
<1>. QED
  BY <1>4
-----------------------------------------------------------------------------

\* The recursion equations: each function is built level by level.
SpanDef(f, l) == IF l = 0 THEN 1 ELSE 2 * f[l - 1]

\* What Span is at a level, from the level below.
LEMMA SpanEquation ==
  Span = [l \in Level |-> SpanDef(Span, l)]
<1>. DEFINE Built(n) == \E f : f = [l \in 0..n |-> SpanDef(f, l)]
            S == {n \in Nat : Built(n)}
<1>1. Built(0)
  <2>. DEFINE g == [l \in 0..0 |-> 1]
  <2>1. g = [l \in 0..0 |-> SpanDef(g, l)]
    BY DEF SpanDef
  <2>. QED
    BY <2>1
<1>2. ASSUME NEW n \in Nat, Built(n) PROVE Built(n + 1)
  <2>1. PICK f : f = [l \in 0..n |-> SpanDef(f, l)]
    BY <1>2
  <2>. DEFINE g == [l \in 0..(n + 1) |-> SpanDef(f, l)]
  <2>2. \A l \in 0..n : g[l] = f[l]
    BY <2>1
  <2>3. g = [l \in 0..(n + 1) |-> SpanDef(f, l)]
    OBVIOUS
  <2>. HIDE DEF g
  <2>4. \A l \in 0..(n + 1) : SpanDef(g, l) = SpanDef(f, l)
    BY <2>2 DEF SpanDef
  <2>. QED
    BY <2>3, <2>4
<1>3. Built(MERKLE_DEPTH)
  <2>1. \A n \in Nat : n \in S
    <3>1. 0 \in S /\ \A n \in Nat : n \in S => n + 1 \in S
      BY <1>1, <1>2
    <3>. HIDE DEF S
    <3>. QED
      BY <3>1, NatsInductive
  <2>. QED
    BY <2>1, DepthAssumption
<1>. QED
  BY <1>3 DEF Span, SpanDef, Level

ZeroHashDef(f, l) ==
  IF l = 0 THEN HashLeaf(Zero) ELSE HashNode(f[l - 1], f[l - 1])

\* What zero_hashes is at a level, from the level below.
LEMMA ZeroHashEquation ==
  ZeroHash = [l \in Level |-> ZeroHashDef(ZeroHash, l)]
<1>. DEFINE Built(n) == \E f : f = [l \in 0..n |-> ZeroHashDef(f, l)]
            S == {n \in Nat : Built(n)}
<1>1. Built(0)
  <2>. DEFINE g == [l \in 0..0 |-> HashLeaf(Zero)]
  <2>1. g = [l \in 0..0 |-> ZeroHashDef(g, l)]
    BY DEF ZeroHashDef
  <2>. QED
    BY <2>1
<1>2. ASSUME NEW n \in Nat, Built(n) PROVE Built(n + 1)
  <2>1. PICK f : f = [l \in 0..n |-> ZeroHashDef(f, l)]
    BY <1>2
  <2>. DEFINE g == [l \in 0..(n + 1) |-> ZeroHashDef(f, l)]
  <2>2. \A l \in 0..n : g[l] = f[l]
    BY <2>1
  <2>3. g = [l \in 0..(n + 1) |-> ZeroHashDef(f, l)]
    OBVIOUS
  <2>. HIDE DEF g
  <2>4. \A l \in 0..(n + 1) : ZeroHashDef(g, l) = ZeroHashDef(f, l)
    BY <2>2 DEF ZeroHashDef
  <2>. QED
    BY <2>3, <2>4
<1>3. Built(MERKLE_DEPTH)
  <2>1. \A n \in Nat : n \in S
    <3>1. 0 \in S /\ \A n \in Nat : n \in S => n + 1 \in S
      BY <1>1, <1>2
    <3>. HIDE DEF S
    <3>. QED
      BY <3>1, NatsInductive
  <2>. QED
    BY <2>1, DepthAssumption
<1>. QED
  BY <1>3 DEF ZeroHash, ZeroHashDef, Level

NodeDef(leaves, f, l) ==
  [pos \in Nat |->
     IF pos * Span[l] >= Len(leaves) THEN ZeroHash[l]
     ELSE IF l = 0 THEN HashLeaf(leaves[pos + 1])
     ELSE HashNode(f[l - 1][2 * pos], f[l - 1][2 * pos + 1])]

\* What node_at is at a level, from the level below.
LEMMA NodeHashEquation ==
  ASSUME NEW leaves
  PROVE  NodeHash(leaves) = [l \in Level |-> NodeDef(leaves, NodeHash(leaves), l)]
<1>. DEFINE Built(n) == \E f : f = [l \in 0..n |-> NodeDef(leaves, f, l)]
            S == {n \in Nat : Built(n)}
<1>1. Built(0)
  <2>. DEFINE g == [l \in 0..0 |-> [pos \in Nat |->
                              IF pos * Span[0] >= Len(leaves) THEN ZeroHash[0]
                              ELSE HashLeaf(leaves[pos + 1])]]
  <2>1. g = [l \in 0..0 |-> NodeDef(leaves, g, l)]
    BY DEF NodeDef
  <2>. QED
    BY <2>1
<1>2. ASSUME NEW n \in Nat, Built(n) PROVE Built(n + 1)
  <2>1. PICK f : f = [l \in 0..n |-> NodeDef(leaves, f, l)]
    BY <1>2
  <2>. DEFINE g == [l \in 0..(n + 1) |-> NodeDef(leaves, f, l)]
  <2>2. \A l \in 0..n : g[l] = f[l]
    BY <2>1
  <2>3. g = [l \in 0..(n + 1) |-> NodeDef(leaves, f, l)]
    OBVIOUS
  <2>. HIDE DEF g
  <2>4. \A l \in 0..(n + 1) : NodeDef(leaves, g, l) = NodeDef(leaves, f, l)
    BY <2>2 DEF NodeDef
  <2>. QED
    BY <2>3, <2>4
<1>3. Built(MERKLE_DEPTH)
  <2>1. \A n \in Nat : n \in S
    <3>1. 0 \in S /\ \A n \in Nat : n \in S => n + 1 \in S
      BY <1>1, <1>2
    <3>. HIDE DEF S
    <3>. QED
      BY <3>1, NatsInductive
  <2>. QED
    BY <2>1, DepthAssumption
<1>. QED
  BY <1>3 DEF NodeHash, NodeDef, Level

PathDef(index, f, l) == IF l = 0 THEN index ELSE f[l - 1] \div 2

\* Where proof stands at a level, from the level below.
LEMMA PathEquation ==
  ASSUME NEW index
  PROVE  Path(index) = [l \in Level |-> PathDef(index, Path(index), l)]
<1>. DEFINE Built(n) == \E f : f = [l \in 0..n |-> PathDef(index, f, l)]
            S == {n \in Nat : Built(n)}
<1>1. Built(0)
  <2>. DEFINE g == [l \in 0..0 |-> index]
  <2>1. g = [l \in 0..0 |-> PathDef(index, g, l)]
    BY DEF PathDef
  <2>. QED
    BY <2>1
<1>2. ASSUME NEW n \in Nat, Built(n) PROVE Built(n + 1)
  <2>1. PICK f : f = [l \in 0..n |-> PathDef(index, f, l)]
    BY <1>2
  <2>. DEFINE g == [l \in 0..(n + 1) |-> PathDef(index, f, l)]
  <2>2. \A l \in 0..n : g[l] = f[l]
    BY <2>1
  <2>3. g = [l \in 0..(n + 1) |-> PathDef(index, f, l)]
    OBVIOUS
  <2>. HIDE DEF g
  <2>4. \A l \in 0..(n + 1) : PathDef(index, g, l) = PathDef(index, f, l)
    BY <2>2 DEF PathDef
  <2>. QED
    BY <2>3, <2>4
<1>3. Built(MERKLE_DEPTH)
  <2>1. \A n \in Nat : n \in S
    <3>1. 0 \in S /\ \A n \in Nat : n \in S => n + 1 \in S
      BY <1>1, <1>2
    <3>. HIDE DEF S
    <3>. QED
      BY <3>1, NatsInductive
  <2>. QED
    BY <2>1, DepthAssumption
<1>. QED
  BY <1>3 DEF Path, PathDef, Level

AscentDef(leaf, proof, f, l) ==
  IF l = 0 THEN HashLeaf(leaf)
  ELSE IF proof.indices[l - 1]
  THEN HashNode(proof.siblings[l - 1], f[l - 1])
  ELSE HashNode(f[l - 1], proof.siblings[l - 1])

\* What verify_proof has computed at a level, from the level below.
LEMMA AscentEquation ==
  ASSUME NEW leaf, NEW proof
  PROVE  Ascent(leaf, proof) = [l \in Level |-> AscentDef(leaf, proof, Ascent(leaf, proof), l)]
<1>. DEFINE Built(n) == \E f : f = [l \in 0..n |-> AscentDef(leaf, proof, f, l)]
            S == {n \in Nat : Built(n)}
<1>1. Built(0)
  <2>. DEFINE g == [l \in 0..0 |-> HashLeaf(leaf)]
  <2>1. g = [l \in 0..0 |-> AscentDef(leaf, proof, g, l)]
    BY DEF AscentDef
  <2>. QED
    BY <2>1
<1>2. ASSUME NEW n \in Nat, Built(n) PROVE Built(n + 1)
  <2>1. PICK f : f = [l \in 0..n |-> AscentDef(leaf, proof, f, l)]
    BY <1>2
  <2>. DEFINE g == [l \in 0..(n + 1) |-> AscentDef(leaf, proof, f, l)]
  <2>2. \A l \in 0..n : g[l] = f[l]
    BY <2>1
  <2>3. g = [l \in 0..(n + 1) |-> AscentDef(leaf, proof, f, l)]
    OBVIOUS
  <2>. HIDE DEF g
  <2>4. \A l \in 0..(n + 1) : AscentDef(leaf, proof, g, l) = AscentDef(leaf, proof, f, l)
    BY <2>2 DEF AscentDef
  <2>. QED
    BY <2>3, <2>4
<1>3. Built(MERKLE_DEPTH)
  <2>1. \A n \in Nat : n \in S
    <3>1. 0 \in S /\ \A n \in Nat : n \in S => n + 1 \in S
      BY <1>1, <1>2
    <3>. HIDE DEF S
    <3>. QED
      BY <3>1, NatsInductive
  <2>. QED
    BY <2>1, DepthAssumption
<1>. QED
  BY <1>3 DEF Ascent, AscentDef, Level
-----------------------------------------------------------------------------

\* The span of a level doubles from one.
LEMMA SpanDoubles ==
  /\ Span[0] = 1
  /\ \A l \in 1..MERKLE_DEPTH : Span[l] = 2 * Span[l - 1]
<1>1. \A l \in Level : Span[l] = SpanDef(Span, l)
  BY SpanEquation
<1>. QED
  BY <1>1, DepthAssumption DEF SpanDef, Level

\* A node has leaves under it at every level,
LEMMA SpanPositive == \A l \in Level : Span[l] \in Nat \ {0}
<1>. DEFINE S == {l \in Level : Span[l] \in Nat \ {0}}
<1>1. 0 \in S
  BY SpanDoubles, DepthAssumption DEF Level
<1>2. ASSUME NEW l \in 1..MERKLE_DEPTH, l - 1 \in S PROVE l \in S
  BY <1>2, SpanDoubles, DepthAssumption DEF Level
<1>3. \A l \in Level : l \in S
  <2>. HIDE DEF S
  <2>. QED
    BY <1>1, <1>2, LevelsUpwards
<1>. QED
  BY <1>3

\* and so has the root.
LEMMA MaxLeavesPositive == MAX_LEAVES \in Nat \ {0}
BY SpanPositive, DepthAssumption DEF MAX_LEAVES, Level

\* A node without leaves is the zero hash of its level,
LEMMA EmptyNode ==
  ASSUME NEW leaves, NEW l \in Level, NEW pos \in Nat,
         pos * Span[l] >= Len(leaves)
  PROVE  NodeAt(leaves, l, pos) = ZeroHash[l]
<1>1. NodeHash(leaves)[l] = NodeDef(leaves, NodeHash(leaves), l)
  BY NodeHashEquation
<1>. QED
  BY <1>1 DEF NodeAt, NodeDef

\* a node at the bottom is the hash of its leaf,
LEMMA LeafNode ==
  ASSUME NEW leaves, NEW pos \in Nat, Len(leaves) \in Nat
  PROVE  NodeAt(leaves, 0, pos) =
           HashLeaf(IF pos < Len(leaves) THEN leaves[pos + 1] ELSE Zero)
<1>0. 0 \in Level
  BY DepthAssumption DEF Level
<1>1. NodeHash(leaves)[0] = NodeDef(leaves, NodeHash(leaves), 0)
  BY <1>0, NodeHashEquation
<1>2. ZeroHash[0] = HashLeaf(Zero)
  BY <1>0, ZeroHashEquation DEF ZeroHashDef
<1>3. pos * Span[0] = pos
  BY SpanDoubles
<1>. QED
  BY <1>1, <1>2, <1>3 DEF NodeAt, NodeDef

\* and any other, empty or not, is the hash of the two nodes under it.
LEMMA NodeSplits ==
  ASSUME NEW leaves, Len(leaves) \in Nat,
         NEW l \in 1..MERKLE_DEPTH, NEW pos \in Nat
  PROVE  NodeAt(leaves, l, pos) = HashNode(NodeAt(leaves, l - 1, 2 * pos),
                                           NodeAt(leaves, l - 1, 2 * pos + 1))
<1>. DEFINE s == Span[l - 1]
<1>1. l \in Level /\ l - 1 \in Level /\ l # 0
  BY DepthAssumption DEF Level
<1>2. s \in Nat \ {0} /\ Span[l] = 2 * s
  BY <1>1, SpanDoubles, SpanPositive
<1>3. CASE pos * Span[l] >= Len(leaves)
  <2>. HIDE DEF s
  <2>1. (2 * pos) * s >= Len(leaves) /\ (2 * pos + 1) * s >= Len(leaves)
    <3>1. pos * (2 * s) = (2 * pos) * s /\ (2 * pos + 1) * s = (2 * pos) * s + s
      BY <1>2
    <3>2. (2 * pos) * s \in Nat
      BY <1>2
    <3>. QED
      BY <1>2, <1>3, <3>1, <3>2
  <2>2. /\ NodeAt(leaves, l - 1, 2 * pos) = ZeroHash[l - 1]
        /\ NodeAt(leaves, l - 1, 2 * pos + 1) = ZeroHash[l - 1]
    BY <1>1, <2>1, EmptyNode DEF s
  <2>3. ZeroHash[l] = HashNode(ZeroHash[l - 1], ZeroHash[l - 1])
    BY <1>1, ZeroHashEquation DEF ZeroHashDef
  <2>. QED
    BY <1>1, <1>3, <2>2, <2>3, EmptyNode
<1>4. CASE ~ (pos * Span[l] >= Len(leaves))
  <2>1. NodeHash(leaves)[l] = NodeDef(leaves, NodeHash(leaves), l)
    BY <1>1, NodeHashEquation
  <2>. QED
    BY <1>1, <1>4, <2>1 DEF NodeAt, NodeDef
<1>. QED
  BY <1>3, <1>4
-----------------------------------------------------------------------------

\* The path of a leaf halves at every level, and never starts beyond it.
LEMMA PathHalves ==
  ASSUME NEW index
  PROVE  /\ Path(index)[0] = index
         /\ \A l \in 1..MERKLE_DEPTH :
              Path(index)[l] = Path(index)[l - 1] \div 2
BY PathEquation, DepthAssumption DEF PathDef, Level

\* The node proof stands at starts at or before the leaf.
LEMMA PathBelow ==
  ASSUME NEW index \in Nat
  PROVE  \A l \in Level : /\ Path(index)[l] \in Nat
                          /\ Path(index)[l] * Span[l] <= index
<1>. DEFINE S == {l \in Level : /\ Path(index)[l] \in Nat
                               /\ Path(index)[l] * Span[l] <= index}
<1>1. 0 \in S
  BY PathHalves, SpanDoubles, DepthAssumption DEF Level
<1>2. ASSUME NEW l \in 1..MERKLE_DEPTH, l - 1 \in S PROVE l \in S
  <2>. DEFINE p == Path(index)[l - 1]
              s == Span[l - 1]
  <2>1. l \in Level /\ l - 1 \in Level
    BY DepthAssumption DEF Level
  <2>2. p \in Nat /\ s \in Nat /\ p * s <= index
    BY <1>2, <2>1, SpanPositive
  <2>3. Path(index)[l] = p \div 2 /\ Span[l] = 2 * s
    BY PathHalves, SpanDoubles
  <2>. HIDE DEF p, s
  <2>4. p \div 2 \in Nat /\ 2 * (p \div 2) <= p
    BY <2>2
  <2>5. (p \div 2) * (2 * s) <= p * s
    <3>. DEFINE q == p \div 2
    <3>1. q \in Nat /\ p - 2 * q \in Nat
      BY <2>2, <2>4
    <3>. HIDE DEF q
    <3>2. p * s = q * (2 * s) + (p - 2 * q) * s /\ (p - 2 * q) * s \in Nat
      BY <2>2, <3>1
    <3>3. q * (2 * s) \in Nat
      BY <2>2, <3>1
    <3>. QED
      BY <3>2, <3>3 DEF q
  <2>6. (p \div 2) * (2 * s) \in Nat /\ p * s \in Nat
    BY <2>2, <2>4
  <2>. QED
    BY <2>1, <2>2, <2>3, <2>4, <2>5, <2>6
<1>3. \A l \in Level : l \in S
  <2>. HIDE DEF S
  <2>. QED
    BY <1>1, <1>2, LevelsUpwards
<1>. QED
  BY <1>3

\* The path of a leaf of the tree ends in position 0.
LEMMA PathToRoot ==
  ASSUME NEW index \in Nat, index < MAX_LEAVES
  PROVE  Path(index)[MERKLE_DEPTH] = 0
<1>. DEFINE p == Path(index)[MERKLE_DEPTH]
<1>1. p \in Nat /\ p * MAX_LEAVES <= index
  BY PathBelow, DepthAssumption DEF MAX_LEAVES, Level
<1>. HIDE DEF p
<1>2. ASSUME p # 0 PROVE FALSE
  <2>1. p - 1 \in Nat /\ p * MAX_LEAVES = MAX_LEAVES + (p - 1) * MAX_LEAVES
    BY <1>1, <1>2, MaxLeavesPositive
  <2>2. (p - 1) * MAX_LEAVES \in Nat
    BY <2>1, MaxLeavesPositive
  <2>. QED
    BY <1>1, <2>1, <2>2, MaxLeavesPositive
<1>. QED
  BY <1>2 DEF p

\* What a proof leads through, from one level to the next.
LEMMA AscentSteps ==
  ASSUME NEW leaf, NEW proof
  PROVE  /\ Ascent(leaf, proof)[0] = HashLeaf(leaf)
         /\ \A l \in 1..MERKLE_DEPTH :
              Ascent(leaf, proof)[l] =
                IF proof.indices[l - 1]
                THEN HashNode(proof.siblings[l - 1], Ascent(leaf, proof)[l - 1])
                ELSE HashNode(Ascent(leaf, proof)[l - 1], proof.siblings[l - 1])
BY AscentEquation, DepthAssumption DEF AscentDef, Level
-----------------------------------------------------------------------------

\* Completeness: the proof of a leaf leads through the nodes above the leaf
\* to the root of the tree (proof and verify_proof agree).
THEOREM LeafClimbsToRoot ==
  ASSUME NEW leaves, Len(leaves) \in Nat, Len(leaves) <= MAX_LEAVES,
         NEW index \in Nat, index < Len(leaves)
  PROVE  Climb(leaves[index + 1], Proof(leaves, index)) = Root(leaves)
<1>. DEFINE leaf == leaves[index + 1]
            proof == Proof(leaves, index)
            path == Path(index)
            S == {l \in Level : Ascent(leaf, proof)[l] =
                                  NodeAt(leaves, l, path[l])}
<1>1. 0 \in S
  BY AscentSteps, PathHalves, LeafNode, DepthAssumption DEF Level
<1>2. ASSUME NEW l \in 1..MERKLE_DEPTH, l - 1 \in S PROVE l \in S
  <2>. DEFINE q == path[l]
              c == path[l - 1]
  <2>1. l \in Level /\ l - 1 \in Level /\ l - 1 \in 0..(MERKLE_DEPTH - 1)
    BY DepthAssumption DEF Level
  <2>2. c \in Nat /\ q \in Nat /\ q = c \div 2
    BY <2>1, PathBelow, PathHalves
  <2>3. /\ proof.siblings[l - 1] = NodeAt(leaves, l - 1, Sibling(c))
        /\ proof.indices[l - 1] = (c % 2 = 1)
    BY <2>1 DEF Proof
  <2>4. Ascent(leaf, proof)[l - 1] = NodeAt(leaves, l - 1, c)
    BY <1>2
  <2>5. NodeAt(leaves, l, q) = HashNode(NodeAt(leaves, l - 1, 2 * q),
                                        NodeAt(leaves, l - 1, 2 * q + 1))
    BY <2>2, NodeSplits
  <2>6. Ascent(leaf, proof)[l] =
          IF proof.indices[l - 1]
          THEN HashNode(proof.siblings[l - 1], Ascent(leaf, proof)[l - 1])
          ELSE HashNode(Ascent(leaf, proof)[l - 1], proof.siblings[l - 1])
    BY AscentSteps
  <2>. HIDE DEF leaf, proof, q, c
  <2>7. CASE c % 2 = 1
    <3>1. c = 2 * q + 1 /\ Sibling(c) = 2 * q
      BY <2>2, <2>7 DEF Sibling
    <3>2. Ascent(leaf, proof)[l] = NodeAt(leaves, l, q)
      BY <2>3, <2>4, <2>5, <2>6, <2>7, <3>1
    <3>. QED
      BY <2>1, <3>2 DEF q
  <2>8. CASE c % 2 # 1
    <3>1. c = 2 * q /\ Sibling(c) = 2 * q + 1
      BY <2>2, <2>8 DEF Sibling
    <3>2. Ascent(leaf, proof)[l] = NodeAt(leaves, l, q)
      BY <2>3, <2>4, <2>5, <2>6, <2>8, <3>1
    <3>. QED
      BY <2>1, <3>2 DEF q
  <2>. QED
    BY <2>7, <2>8
<1>3. \A l \in Level : l \in S
  <2>. HIDE DEF S
  <2>. QED
    BY <1>1, <1>2, LevelsUpwards
<1>4. Climb(leaf, proof) = NodeAt(leaves, MERKLE_DEPTH, path[MERKLE_DEPTH])
  BY <1>3, DepthAssumption DEF Climb, Level
<1>5. path[MERKLE_DEPTH] = 0
  BY PathToRoot, MaxLeavesPositive
<1>. QED
  BY <1>4, <1>5 DEF Root

\* Soundness: whatever siblings and sides a proof is made of, what climbs to
\* the root of a tree is one of its leaves, or the all-zero hash that fills
\* its empty slots; verify_proof refuses the latter.
THEOREM OnlyLeavesClimb ==
  ASSUME NEW leaves, Len(leaves) \in Nat, NEW leaf, NEW proof,
         Climb(leaf, proof) = Root(leaves)
  PROVE  \/ \E i \in 1..Len(leaves) : leaf = leaves[i]
         \/ leaf = Zero
<1>. DEFINE A == Ascent(leaf, proof)
            S == {l \in Level :
                    \E pos \in Nat : A[l] = NodeAt(leaves, l, pos)}
<1>1. MERKLE_DEPTH \in S
  BY DepthAssumption DEF Climb, Root, Level
<1>2. ASSUME NEW l \in 1..MERKLE_DEPTH, l \in S PROVE l - 1 \in S
  <2>1. l - 1 \in Level
    BY DepthAssumption DEF Level
  <2>2. PICK pos \in Nat : A[l] = NodeAt(leaves, l, pos)
    BY <1>2
  <2>3. A[l] = HashNode(NodeAt(leaves, l - 1, 2 * pos),
                        NodeAt(leaves, l - 1, 2 * pos + 1))
    BY <2>2, NodeSplits
  <2>4. \E other : A[l] \in {HashNode(other, A[l - 1]), HashNode(A[l - 1], other)}
    BY AscentSteps
  <2>5. A[l - 1] \in {NodeAt(leaves, l - 1, 2 * pos),
                      NodeAt(leaves, l - 1, 2 * pos + 1)}
    <3>. HIDE DEF A
    <3>. QED
      BY <2>3, <2>4 DEF HashNode
  <2>6. 2 * pos \in Nat /\ 2 * pos + 1 \in Nat
    OBVIOUS
  <2>. HIDE DEF A
  <2>. QED
    BY <2>1, <2>5, <2>6
<1>3. 0 \in S
  <2>. HIDE DEF S
  <2>1. \A l \in Level : l \in S
    BY <1>1, <1>2, LevelsDownwards
  <2>. QED
    BY <2>1, DepthAssumption DEF Level
<1>4. PICK pos \in Nat : HashLeaf(leaf) = NodeAt(leaves, 0, pos)
  BY <1>3, AscentSteps
<1>5. leaf = IF pos < Len(leaves) THEN leaves[pos + 1] ELSE Zero
  BY <1>4, LeafNode DEF HashLeaf
<1>. QED
  BY <1>5

\* Membership: there is a proof that verify_proof takes for exactly the
\* leaves.  So the models of the verifier, of the prover and of the demo's
\* accounts may let a root be the set of its leaves.
THEOREM VerifiesExactlyLeaves ==
  ASSUME NEW S, NEW s \in Seq(S), Zero \notin S, Len(s) <= MAX_LEAVES, NEW leaf
  PROVE  (\E proof : VerifyProof(Root(s), leaf, proof)) <=> leaf \in Range(s)
<1>0. Len(s) \in Nat /\ DOMAIN s = 1..Len(s)
  OBVIOUS
<1>1. ASSUME NEW proof, VerifyProof(Root(s), leaf, proof)
      PROVE  leaf \in Range(s)
  <2>1. leaf # Zero /\ Climb(leaf, proof) = Root(s)
    BY <1>1 DEF VerifyProof
  <2>2. \E i \in 1..Len(s) : leaf = s[i]
    BY <1>0, <2>1, OnlyLeavesClimb
  <2>. QED
    BY <1>0, <2>2 DEF Range
<1>2. ASSUME leaf \in Range(s)
      PROVE  \E proof : VerifyProof(Root(s), leaf, proof)
  <2>1. PICK i \in 1..Len(s) : leaf = s[i]
    BY <1>0, <1>2 DEF Range
  <2>2. i - 1 \in Nat /\ i - 1 < Len(s) /\ (i - 1) + 1 = i
    BY <1>0
  <2>3. Climb(leaf, Proof(s, i - 1)) = Root(s)
    BY <1>0, <2>1, <2>2, LeafClimbsToRoot
  <2>4. leaf # Zero
    BY <2>1
  <2>. QED
    BY <2>3, <2>4 DEF VerifyProof
<1>. QED
  BY <1>1, <1>2

\* Commitment: two trees with one root have the same leaves, in the same
\* order, unless one of them holds the all-zero hash as a leaf.
THEOREM RootNamesLeaves ==
  ASSUME NEW S, NEW s \in Seq(S), NEW t \in Seq(S), Zero \notin S,
         Len(s) <= MAX_LEAVES, Len(t) <= MAX_LEAVES,
         Root(s) = Root(t)
  PROVE  s = t
<1>. DEFINE Under(l, pos) == pos * Span[l] < MAX_LEAVES
            L == {l \in Level : \A pos \in Nat :
                    Under(l, pos) => NodeAt(s, l, pos) = NodeAt(t, l, pos)}
<1>0. Len(s) \in Nat /\ Len(t) \in Nat
  OBVIOUS
<1>1. MERKLE_DEPTH \in L
  <2>1. ASSUME NEW pos \in Nat, Under(MERKLE_DEPTH, pos) PROVE pos = 0
    <3>1. CASE pos # 0
      <4>1. pos - 1 \in Nat /\ pos * MAX_LEAVES = MAX_LEAVES + (pos - 1) * MAX_LEAVES
        BY <3>1, MaxLeavesPositive
      <4>2. (pos - 1) * MAX_LEAVES \in Nat /\ pos * MAX_LEAVES < MAX_LEAVES
        BY <2>1, <4>1, MaxLeavesPositive DEF MAX_LEAVES
      <4>. QED
        BY <4>1, <4>2, MaxLeavesPositive
    <3>. QED
      BY <3>1
  <2>. HIDE DEF Under
  <2>. QED
    BY <2>1, DepthAssumption DEF Root, Level
<1>2. ASSUME NEW l \in 1..MERKLE_DEPTH, l \in L PROVE l - 1 \in L
  <2>1. l - 1 \in Level /\ l \in Level
    BY DepthAssumption DEF Level
  <2>2. ASSUME NEW pos \in Nat, Under(l - 1, pos)
        PROVE  NodeAt(s, l - 1, pos) = NodeAt(t, l - 1, pos)
    <3>. DEFINE q == pos \div 2
                w == Span[l - 1]
    <3>1. q \in Nat /\ (pos = 2 * q \/ pos = 2 * q + 1)
      OBVIOUS
    <3>2. w \in Nat /\ Span[l] = 2 * w
      BY <2>1, SpanDoubles, SpanPositive
    <3>3. pos * w < MAX_LEAVES
      BY <2>2
    <3>. HIDE DEF q, w
    <3>4. q * (2 * w) <= pos * w
      <4>1. q * (2 * w) = (2 * q) * w /\ (2 * q + 1) * w = (2 * q) * w + w
        BY <3>1, <3>2
      <4>2. (2 * q) * w \in Nat
        BY <3>1, <3>2
      <4>. QED
        BY <3>1, <3>2, <4>1, <4>2
    <3>5. Under(l, q)
      <4>1. q * (2 * w) \in Nat /\ pos * w \in Nat
        BY <3>1, <3>2
      <4>. QED
        BY <3>2, <3>3, <3>4, <4>1, MaxLeavesPositive
    <3>6. NodeAt(s, l, q) = NodeAt(t, l, q)
      BY <1>2, <3>1, <3>5
    <3>7. /\ NodeAt(s, l - 1, 2 * q) = NodeAt(t, l - 1, 2 * q)
          /\ NodeAt(s, l - 1, 2 * q + 1) = NodeAt(t, l - 1, 2 * q + 1)
      BY <1>0, <3>1, <3>6, NodeSplits DEF HashNode
    <3>. QED
      BY <3>1, <3>7
  <2>. QED
    BY <2>1, <2>2
<1>3. 0 \in L
  <2>. HIDE DEF L
  <2>1. \A l \in Level : l \in L
    BY <1>1, <1>2, LevelsDownwards
  <2>. QED
    BY <2>1, DepthAssumption DEF Level
<1>4. ASSUME NEW pos \in Nat, pos < MAX_LEAVES
      PROVE  (IF pos < Len(s) THEN s[pos + 1] ELSE Zero) =
             (IF pos < Len(t) THEN t[pos + 1] ELSE Zero)
  <2>1. NodeAt(s, 0, pos) = NodeAt(t, 0, pos)
    BY <1>3, <1>4, SpanDoubles
  <2>. QED
    BY <1>0, <2>1, LeafNode DEF HashLeaf
<1>5. \A u \in Seq(S) : \A pos \in Nat : pos < Len(u) => u[pos + 1] # Zero
  OBVIOUS
<1>6. Len(s) = Len(t)
  <2>1. CASE Len(s) < Len(t)
    BY <1>0, <1>4, <1>5, <2>1, MaxLeavesPositive
  <2>2. CASE Len(t) < Len(s)
    BY <1>0, <1>4, <1>5, <2>2, MaxLeavesPositive
  <2>. QED
    BY <1>0, <2>1, <2>2
<1>7. ASSUME NEW i \in 1..Len(s) PROVE s[i] = t[i]
  <2>1. i - 1 \in Nat /\ i - 1 < Len(s) /\ i - 1 < MAX_LEAVES /\ (i - 1) + 1 = i
    BY <1>0, MaxLeavesPositive
  <2>. QED
    BY <1>4, <1>6, <2>1
<1>. QED
  BY <1>6, <1>7
=============================================================================
