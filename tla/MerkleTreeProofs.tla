--------------------------- MODULE MerkleTreeProofs ---------------------------
(***************************************************************************)
(* Proofs about the Merkle tree of MerkleProof by induction over its       *)
(* levels: the root is the one the recursive reference gives, and it       *)
(* determines the batch.                                                   *)
(*                                                                         *)
(* Induction is the well-foundedness of the order of the naturals, stated  *)
(* for sets: the set of the numbers that satisfy a claim is all of Nat.    *)
(***************************************************************************)
EXTENDS MerkleProofProofs, WellFoundedInduction

-----------------------------------------------------------------------------
(* Induction and powers of two.                                             *)

LEMMA LeastNumber ==
  ASSUME NEW S \in SUBSET Nat, S # {}
  PROVE  \E m \in S : \A n \in S : m <= n
<1> DEFINE R == {pair \in Nat \X Nat : pair[1] < pair[2]}
<1>1. IsWellFoundedOn(R, Nat)
  BY NatLessThanWellFounded DEF OpToRel
<1> HIDE DEF R
<1>2. PICK m \in S : \A n \in S : <<n, m>> \notin R
  BY <1>1, WFMin
<1>3. \A n \in S : ~ (n < m)
  BY <1>2 DEF R
<1> QED
  BY <1>3

LEMMA InductionOverSet ==
  ASSUME NEW S, 0 \in S, \A n \in Nat : n \in S => n + 1 \in S
  PROVE  Nat \subseteq S
<1> SUFFICES ASSUME Nat \ S # {} PROVE FALSE
  OBVIOUS
<1>1. PICK m \in Nat \ S : \A n \in Nat \ S : m <= n
  BY LeastNumber
<1>2. m - 1 \in Nat /\ m - 1 \notin S
  <2>1. m # 0
    BY <1>1
  <2> QED
    BY <1>1, <2>1
<1> QED
  BY <1>1, <1>2

\* Adding an element doubles the number of subsets.
LEMMA PowerOfTwo ==
  ASSUME NEW n \in Nat
  PROVE  /\ 2 ^ n \in Nat \ {0}
         /\ 2 ^ (n + 1) = 2 * 2 ^ n
<1> DEFINE S == 1 .. n
           T == 1 .. n + 1
           A == SUBSET S
           B == {X \cup {n + 1} : X \in A}
<1>1. /\ IsFiniteSet(S) /\ Cardinality(S) = n
      /\ IsFiniteSet(T) /\ Cardinality(T) = n + 1
  BY FS_Interval
<1>2. /\ IsFiniteSet(A) /\ Cardinality(A) = 2 ^ n
      /\ IsFiniteSet(SUBSET T) /\ Cardinality(SUBSET T) = 2 ^ (n + 1)
  BY <1>1, FS_SUBSET
<1>3. n + 1 \notin S /\ T = S \cup {n + 1}
  OBVIOUS
<1>4. SUBSET T = A \cup B
  <2>1. ASSUME NEW X \in SUBSET T PROVE X \in A \cup B
    <3>1. CASE n + 1 \in X
      <4>1. X \ {n + 1} \in A /\ X = (X \ {n + 1}) \cup {n + 1}
        BY <1>3, <3>1
      <4> QED
        BY <4>1
    <3>2. CASE n + 1 \notin X
      BY <1>3, <3>2
    <3> QED
      BY <3>1, <3>2
  <2>2. ASSUME NEW X \in A \cup B PROVE X \in SUBSET T
    BY <1>3
  <2> QED
    BY <2>1, <2>2
<1>5. A \cap B = {}
  BY <1>3
<1>6. ExistsBijection(A, B)
  <2> DEFINE f == [X \in A |-> X \cup {n + 1}]
  <2>1. \A X, Y \in A : f[X] = f[Y] => X = Y
    BY <1>3
  <2>2. \A Y \in B : \E X \in A : f[X] = Y
    OBVIOUS
  <2>3. f \in [A -> B]
    OBVIOUS
  <2>4. f \in Bijection(A, B)
    BY <2>1, <2>2, <2>3 DEF Bijection, Injection, Surjection, IsInjective
  <2> QED
    BY <2>4 DEF ExistsBijection
<1>7. IsFiniteSet(B) /\ Cardinality(B) = Cardinality(A)
  BY <1>2, <1>6, FS_Bijection
<1>8. Cardinality(SUBSET T) = Cardinality(A) + Cardinality(B) - Cardinality(A \cap B)
  BY <1>2, <1>4, <1>7, FS_Union
<1>9. Cardinality(A) \in Nat /\ Cardinality(A \cap B) = 0
  BY <1>2, <1>5, FS_CardinalityType, FS_EmptySet
<1>10. Cardinality(A) # 0
  BY <1>2, FS_EmptySet
<1> QED
  BY <1>2, <1>7, <1>8, <1>9, <1>10

LEMMA PowerExceeds ==
  ASSUME NEW n \in Nat
  PROVE  n < 2 ^ n
<1> DEFINE S == {m \in Nat : m < 2 ^ m}
<1>1. 0 \in S
  <2>1. 2 ^ 0 \in Nat \ {0}
    BY PowerOfTwo
  <2> QED
    BY <2>1
<1>2. ASSUME NEW m \in Nat, m \in S PROVE m + 1 \in S
  BY <1>2, PowerOfTwo
<1> QED
  BY <1>1, <1>2, InductionOverSet

LEMMA PowerGrows ==
  ASSUME NEW m \in Nat, NEW n \in Nat, m <= n
  PROVE  2 ^ m <= 2 ^ n
<1> DEFINE S == {d \in Nat : 2 ^ m <= 2 ^ (m + d)}
<1>1. 0 \in S
  BY PowerOfTwo
<1>2. ASSUME NEW d \in Nat, d \in S PROVE d + 1 \in S
  <2>1. 2 ^ (m + d) \in Nat /\ 2 ^ ((m + d) + 1) = 2 * 2 ^ (m + d) /\ 2 ^ m \in Nat
    BY PowerOfTwo
  <2>2. (m + d) + 1 = m + (d + 1)
    OBVIOUS
  <2> QED
    BY <1>2, <2>1, <2>2
<1>3. n - m \in Nat /\ m + (n - m) = n
  OBVIOUS
<1>4. Nat \subseteq S
  <2> HIDE DEF S
  <2> QED
    BY <1>1, <1>2, InductionOverSet
<1>5. n - m \in S
  BY <1>3, <1>4
<1> QED
  BY <1>3, <1>5

-----------------------------------------------------------------------------
(* The reference is what its recursive definition says.                     *)

\* A level of blocks depends on the blocks of half the size only, and the
\* first level on nothing.
LEMMA FirstBlockLevel ==
  \A b, c : BlockLevel(0, b) = BlockLevel(0, c)
BY DEF BlockLevel

\* Functions that follow the definition up to level m exist for every m.
LEMMA BlocksExist ==
  ASSUME NEW m \in Nat
  PROVE  \E f : \A k \in 0 .. m : f[k] = BlockLevel(k, f[k - 1])
<1> DEFINE Follows(f, n) == \A k \in 0 .. n : f[k] = BlockLevel(k, f[k - 1])
           S == {n \in Nat : \E f : Follows(f, n)}
<1>1. 0 \in S
  <2> DEFINE f == [k \in 0 .. 0 |-> BlockLevel(0, 0)]
  <2>1. Follows(f, 0)
    BY FirstBlockLevel
  <2> QED
    BY <2>1
<1>2. ASSUME NEW n \in Nat, n \in S PROVE n + 1 \in S
  <2>1. PICK f : Follows(f, n)
    BY <1>2
  <2> DEFINE g == [k \in 0 .. n + 1 |-> IF k = n + 1 THEN BlockLevel(n + 1, f[n]) ELSE f[k]]
  <2>2. \A k \in 0 .. n : g[k] = f[k]
    OBVIOUS
  <2>3. g[n + 1] = BlockLevel(n + 1, g[n])
    BY <2>2
  <2>4. ASSUME NEW k \in 1 .. n PROVE g[k] = BlockLevel(k, g[k - 1])
    BY <2>1, <2>2
  <2>5. g[0] = BlockLevel(0, g[0 - 1])
    BY <2>1, <2>2, FirstBlockLevel
  <2>6. Follows(g, n + 1)
    <3> SUFFICES ASSUME NEW k \in 0 .. n + 1 PROVE g[k] = BlockLevel(k, g[k - 1])
      OBVIOUS
    <3> HIDE DEF g
    <3>1. CASE k = n + 1
      BY <2>3, <3>1
    <3>2. CASE k = 0
      BY <2>5, <3>2
    <3>3. CASE k \in 1 .. n
      BY <2>4, <3>3
    <3> QED
      BY <3>1, <3>2, <3>3
  <2> HIDE DEF g
  <2> QED
    BY <2>6
<1>3. m \in S
  BY <1>1, <1>2, InductionOverSet
<1> QED
  BY <1>3

LEMMA BlockDefined ==
  Block = [k \in 0 .. MaxBatch |-> BlockLevel(k, Block[k - 1])]
<1>1. PICK f : \A k \in 0 .. MaxBatch : f[k] = BlockLevel(k, f[k - 1])
  BY BlocksExist, BoundAssumption
<1> DEFINE g == [k \in 0 .. MaxBatch |-> f[k]]
<1>2. ASSUME NEW k \in 0 .. MaxBatch PROVE g[k] = BlockLevel(k, g[k - 1])
  <2>1. CASE k = 0
    BY <1>1, <2>1, FirstBlockLevel
  <2>2. CASE k # 0
    BY <1>1, <2>2, BoundAssumption
  <2> QED
    BY <2>1, <2>2
<1>3. g = [k \in 0 .. MaxBatch |-> BlockLevel(k, g[k - 1])]
  BY <1>2
<1> HIDE DEF g
<1> QED
  BY <1>3 DEF Block

-----------------------------------------------------------------------------
(* The levels of the anchored tree are the levels of the reference.         *)

\* A level of the tree has a node for every block that holds a leaf, and the
\* nodes are the digests of the blocks.
LevelFits(k) ==
    /\ k \in 0 .. MaxBatch
    /\ \A i \in Nat : i < anchor.level[k].width <=> i * 2 ^ k < Size
    /\ \A i \in 0 .. anchor.level[k].width - 1 : anchor.level[k].node[i] = Block[k][i]

LEMMA LeavesFit ==
  ASSUME IsTree(anchor), Size \in 1 .. MaxBatch
  PROVE  LevelFits(0)
<1>1. \A i \in Nat : i * 2 ^ 0 = i
  OBVIOUS
<1>2. Block[0] = BlockLevel(0, Block[0 - 1])
  BY BlockDefined, BoundAssumption
<1>3. \A i \in 0 .. Size - 1 : Block[0][i] = Committed(i)
  BY <1>2, BoundAssumption DEF BlockLevel
<1>4. 0 \in 0 .. MaxBatch
  BY BoundAssumption
<1>5. \A i \in Nat : i < Size <=> i * 2 ^ 0 < Size
  BY <1>1
<1> QED
  BY <1>3, <1>4, <1>5 DEF LevelFits, Size, Committed

\* A block of the next size whose first half holds a leaf.
LEMMA BlockOfNextLevel ==
  ASSUME NEW k \in 0 .. MaxBatch - 1, NEW i \in 0 .. MaxBatch, (2 * i) * 2 ^ k < Size
  PROVE  Block[k + 1][i] = IF (2 * i + 1) * 2 ^ k < Size
                           THEN Hash(Block[k][2 * i], Block[k][2 * i + 1])
                           ELSE Hash(Block[k][2 * i], Block[k][2 * i])
<1>1. k + 1 \in 0 .. MaxBatch /\ (k + 1) - 1 = k /\ k + 1 # 0
  BY BoundAssumption
<1>2. Block[k + 1] = BlockLevel(k + 1, Block[(k + 1) - 1])
  BY <1>1, BlockDefined
<1>3. Block[k + 1] = BlockLevel(k + 1, Block[k])
  BY <1>1, <1>2
<1>4. 2 * i * 2 ^ ((k + 1) - 1) < Size
  BY <1>1
<1> QED
  BY <1>1, <1>3, <1>4 DEF BlockLevel

LEMMA NextLevelFits ==
  ASSUME IsTree(anchor), Size \in 1 .. MaxBatch,
         NEW k \in 0 .. anchor.height - 1, LevelFits(k)
  PROVE  LevelFits(k + 1)
<1> DEFINE l == anchor.level[k]
           w == l.width
           P == 2 ^ k
<1>1. /\ w \in Nat \ {0} /\ w > 1
      /\ anchor.level[k + 1] = NextLevel(l)
      /\ k \in Nat
  BY DEF IsTree
<1>2. P \in Nat /\ 2 ^ (k + 1) = 2 * P
  BY <1>1, PowerOfTwo
<1>3. /\ k \in 0 .. MaxBatch
      /\ \A i \in Nat : i < w <=> i * P < Size
      /\ \A i \in 0 .. w - 1 : l.node[i] = Block[k][i]
  BY DEF LevelFits
<1>4. Size \in Nat /\ Size <= MaxBatch /\ MaxBatch \in Nat
  BY BoundAssumption
<1>5. k + 1 \in 0 .. MaxBatch
  <2>1. k < P /\ 1 * P < Size
    BY <1>1, <1>3, PowerExceeds
  <2> QED
    BY <1>1, <1>2, <1>4, <2>1
<1>6. /\ NextLevel(l).width = (w + 1) \div 2
      /\ NextLevel(l).width \in Nat \ {0}
      /\ \A i \in 0 .. NextLevel(l).width - 1 :
           NextLevel(l).node[i] = Hash(l.node[2 * i], RightChild(l, 2 * i))
  BY <1>1, NextLevelNodes
<1>7. ASSUME NEW i \in Nat
      PROVE  i < NextLevel(l).width <=> i * 2 ^ (k + 1) < Size
  <2>1. i < (w + 1) \div 2 <=> 2 * i < w
    BY <1>1
  <2>2. 2 * i < w <=> (2 * i) * P < Size
    BY <1>3
  <2>3. (2 * i) * P = i * (2 * P)
    BY <1>2
  <2> QED
    BY <1>2, <1>6, <2>1, <2>2, <2>3
<1>8. ASSUME NEW i \in 0 .. NextLevel(l).width - 1
      PROVE  NextLevel(l).node[i] = Block[k + 1][i]
  <2>1. 2 * i \in 0 .. w - 1 /\ 2 * i + 1 \in Nat /\ i \in Nat
    BY <1>1, <1>6
  <2>2. (2 * i) * P < Size
    <3>1. 2 * i \in Nat /\ 2 * i < w
      BY <1>1, <2>1
    <3>2. 2 * i < w <=> (2 * i) * P < Size
      BY <1>3, <3>1
    <3> QED
      BY <3>1, <3>2
  <2>3. i \in 0 .. MaxBatch
    <3>1. P # 0 /\ P \in Nat
      BY <1>1, PowerOfTwo
    <3>2. 2 * i <= (2 * i) * P
      BY <2>1, <3>1
    <3> QED
      BY <1>4, <2>1, <2>2, <3>1, <3>2
  <2>4. Block[k + 1][i] = IF (2 * i + 1) * P < Size
                          THEN Hash(Block[k][2 * i], Block[k][2 * i + 1])
                          ELSE Hash(Block[k][2 * i], Block[k][2 * i])
    BY <1>1, <1>4, <1>5, <2>2, <2>3, BlockOfNextLevel
  <2>5. 2 * i + 1 < w <=> (2 * i + 1) * P < Size
    BY <1>3, <2>1
  <2>6. RightChild(l, 2 * i) = IF 2 * i + 1 < w THEN l.node[2 * i + 1] ELSE l.node[2 * i]
    BY DEF RightChild
  <2>7. NextLevel(l).node[i] = Hash(l.node[2 * i], RightChild(l, 2 * i))
    BY <1>6
  <2>8. l.node[2 * i] = Block[k][2 * i]
    BY <1>3, <2>1
  <2>9. CASE 2 * i + 1 < w
    <3>1. l.node[2 * i + 1] = Block[k][2 * i + 1]
      BY <1>1, <1>3, <2>1, <2>9
    <3> QED
      BY <2>4, <2>5, <2>6, <2>7, <2>8, <2>9, <3>1
  <2>10. CASE ~ (2 * i + 1 < w)
    BY <2>4, <2>5, <2>6, <2>7, <2>8, <2>10
  <2> QED
    BY <2>9, <2>10
<1> QED
  BY <1>1, <1>5, <1>7, <1>8 DEF LevelFits

LEMMA EveryLevelFits ==
  ASSUME IsTree(anchor), Size \in 1 .. MaxBatch, NEW k \in 0 .. anchor.height
  PROVE  LevelFits(k)
<1> DEFINE S == {j \in Nat : j <= anchor.height => LevelFits(j)}
<1>1. 0 \in S
  BY LeavesFit
<1>2. ASSUME NEW j \in Nat, j \in S PROVE j + 1 \in S
  <2>1. CASE j + 1 <= anchor.height
    <3>1. j \in 0 .. anchor.height - 1 /\ LevelFits(j)
      BY <1>2, <2>1 DEF IsTree
    <3> QED
      BY <3>1, NextLevelFits
  <2> QED
    BY <2>1
<1>3. Nat \subseteq S
  <2> HIDE DEF S
  <2> QED
    BY <1>1, <1>2, InductionOverSet
<1> QED
  BY <1>3 DEF IsTree

-----------------------------------------------------------------------------
(* The published root.                                                      *)

\* The batch keeps the size with which the service selected it.
LEMMA BatchSize == Spec => [](Size \in 1 .. MaxBatch)
<1>1. Init => Size \in 1 .. MaxBatch
  BY DEF Init, NewTree, LeafLevel, Size
<1>2. ASSUME Inv, [Next]_vars PROVE Size' = Size
  <2>1. CASE BuildAnchor
    <3>1. anchor'.level[0] = anchor.level[0]
      BY <1>2, <2>1, GrownTree DEF BuildAnchor, Inv, TypeOK, IsTree
    <3> QED
      BY <3>1 DEF Size
  <2>2. CASE UNCHANGED anchor
    BY <2>2 DEF Size
  <2>3. BuildAnchor \/ UNCHANGED anchor
    BY <1>2
    DEF Next, vars, MarkAnchored, NewRecord, Reissue, ReadRecord, ListBatch, BuildTree,
        StartProof, AddSibling, StartVerification, FoldSibling, Answer
  <2> QED
    BY <2>1, <2>2, <2>3
<1>3. Inv /\ [Next]_vars /\ Size \in 1 .. MaxBatch => (Size \in 1 .. MaxBatch)'
  BY <1>2
<1> QED
  BY <1>1, <1>3, Invariance, PTL DEF Spec

\* For batches of every size, the loop of build_merkle_tree ends with the root
\* that the recursive definition of the padded tree gives (merkle.py:90-116).
THEOREM RootIsReferenceAlways == Spec => []RootIsReference
<1>1. ASSUME Inv, Size \in 1 .. MaxBatch, Complete(anchor)
      PROVE  Root(anchor) = Block[CHOOSE h \in 0 .. MaxBatch :
                                    2 ^ h >= Size /\ \A g \in 0 .. h - 1 : 2 ^ g < Size][0]
  <2> DEFINE H == anchor.height
             Least(h) == 2 ^ h >= Size /\ \A g \in 0 .. h - 1 : 2 ^ g < Size
  <2>1. /\ IsTree(anchor) /\ H \in Nat
        /\ anchor.level[H].width = 1
        /\ \A g \in 0 .. H - 1 : anchor.level[g].width > 1
    BY SMTT(30), <1>1 DEF Inv, TypeOK, IsTree, Complete, Top
  <2>2. ASSUME NEW k \in 0 .. H
        PROVE  1 < anchor.level[k].width <=> 2 ^ k < Size
    <3>1. LevelFits(k) /\ 2 ^ k \in Nat
      BY <1>1, <2>1, EveryLevelFits, PowerOfTwo
    <3>2. 1 < anchor.level[k].width <=> 1 * 2 ^ k < Size
      BY <3>1 DEF LevelFits
    <3> QED
      BY <3>1, <3>2
  <2>3. /\ H \in 0 .. MaxBatch
        /\ anchor.level[H].node[0] = Block[H][0]
    <3>1. LevelFits(H)
      BY <1>1, <2>1, EveryLevelFits
    <3> QED
      BY <2>1, <3>1 DEF LevelFits
  <2>4. Least(H)
    BY <1>1, <2>1, <2>2, PowerOfTwo
  <2>5. ASSUME NEW h \in 0 .. MaxBatch, Least(h) PROVE h = H
    <3>1. ~ (h < H)
      BY <2>3, <2>4, <2>5, PowerOfTwo, <1>1
    <3>2. ~ (H < h)
      BY <2>3, <2>4, <2>5, PowerOfTwo, <1>1
    <3> QED
      BY <2>1, <3>1, <3>2
  <2> HIDE DEF Least
  <2>6. H = CHOOSE h \in 0 .. MaxBatch : Least(h)
    BY <2>3, <2>4, <2>5
  <2> QED
    BY <2>3, <2>6 DEF Least, Root, Top
<1>2. Inv /\ Size \in 1 .. MaxBatch => RootIsReference
  BY <1>1 DEF RootIsReference
<1> QED
  BY <1>2, Invariance, BatchSize, PTL

-----------------------------------------------------------------------------
(* A root determines its batch.                                             *)

\* No two nodes of a level are the same digest.
LevelDistinct(l) ==
    \A i, j \in 0 .. l.width - 1 : l.node[i] = l.node[j] => i = j

SameLevel(l, m) ==
    l.width = m.width /\ \A i \in 0 .. l.width - 1 : l.node[i] = m.node[i]

LEMMA NextLevelDistinct ==
  ASSUME NEW l, l.width \in Nat \ {0}, LevelDistinct(l)
  PROVE  LevelDistinct(NextLevel(l))
<1> SUFFICES ASSUME NEW i \in 0 .. NextLevel(l).width - 1,
                    NEW j \in 0 .. NextLevel(l).width - 1,
                    NextLevel(l).node[i] = NextLevel(l).node[j]
             PROVE  i = j
  BY DEF LevelDistinct
<1>1. 2 * i \in 0 .. l.width - 1 /\ 2 * j \in 0 .. l.width - 1
  BY NextLevelNodes
<1>2. l.node[2 * i] = l.node[2 * j]
  BY NextLevelNodes, HashInjective
<1>3. 2 * i = 2 * j
  BY <1>1, <1>2 DEF LevelDistinct
<1> QED
  BY <1>1, <1>3, NextLevelNodes

LEMMA LevelsDistinct ==
  ASSUME NEW t, IsTree(t), LevelDistinct(t.level[0]), NEW k \in 0 .. t.height
  PROVE  LevelDistinct(t.level[k])
<1> DEFINE S == {j \in Nat : j <= t.height => LevelDistinct(t.level[j])}
<1>1. 0 \in S
  OBVIOUS
<1>2. ASSUME NEW j \in Nat, j \in S PROVE j + 1 \in S
  <2>1. CASE j + 1 <= t.height
    <3>1. /\ j \in 0 .. t.height /\ LevelDistinct(t.level[j])
          /\ t.level[j].width \in Nat \ {0}
          /\ t.level[j + 1] = NextLevel(t.level[j])
      BY <1>2, <2>1 DEF IsTree
    <3> QED
      BY <3>1, NextLevelDistinct
  <2> QED
    BY <2>1
<1>3. Nat \subseteq S
  <2> HIDE DEF S
  <2> QED
    BY <1>1, <1>2, InductionOverSet
<1> QED
  BY <1>3 DEF IsTree

\* A level padded with a copy of its last node is never the same as one that
\* really has the copy.
LEMMA NotPadded ==
  ASSUME NEW l, l.width \in Nat \ {0}, NEW m, m.width \in Nat \ {0},
         LevelDistinct(m), SameLevel(NextLevel(l), NextLevel(m))
  PROVE  ~ (l.width < m.width)
<1> SUFFICES ASSUME l.width < m.width PROVE FALSE
  OBVIOUS
<1> DEFINE i == NextLevel(l).width - 1
<1>1. /\ (l.width + 1) \div 2 = (m.width + 1) \div 2
      /\ NextLevel(l).width = (l.width + 1) \div 2
      /\ i \in 0 .. NextLevel(l).width - 1
      /\ i \in 0 .. NextLevel(m).width - 1
      /\ NextLevel(l).node[i] = NextLevel(m).node[i]
  BY NextLevelNodes DEF SameLevel
<1>2. l.width = 2 * i + 1 /\ m.width = 2 * i + 2 /\ i \in Nat
  <2>1. ASSUME NEW v \in Nat \ {0}, NEW w \in Nat \ {0}, v < w, (v + 1) \div 2 = (w + 1) \div 2
        PROVE  LET h == (v + 1) \div 2 - 1 IN v = 2 * h + 1 /\ w = 2 * h + 2 /\ h \in Nat
    BY <2>1
  <2> QED
    BY <1>1, <2>1
<1> HIDE DEF i
<1>3. /\ NextLevel(l).node[i] = Hash(l.node[2 * i], RightChild(l, 2 * i))
      /\ NextLevel(m).node[i] = Hash(m.node[2 * i], RightChild(m, 2 * i))
  BY <1>1, NextLevelNodes
<1>4. RightChild(l, 2 * i) = l.node[2 * i] /\ RightChild(m, 2 * i) = m.node[2 * i + 1]
  BY <1>2 DEF RightChild
<1>5. m.node[2 * i] = m.node[2 * i + 1]
  <2>1. Hash(l.node[2 * i], l.node[2 * i]) = Hash(m.node[2 * i], m.node[2 * i + 1])
    BY <1>1, <1>3, <1>4
  <2> QED
    BY <2>1, HashInjective
<1>6. 2 * i \in 0 .. m.width - 1 /\ 2 * i + 1 \in 0 .. m.width - 1
  BY <1>2
<1> QED
  BY <1>2, <1>5, <1>6 DEF LevelDistinct

LEMMA SameBelow ==
  ASSUME NEW l, l.width \in Nat \ {0}, NEW m, m.width \in Nat \ {0},
         LevelDistinct(l), LevelDistinct(m), SameLevel(NextLevel(l), NextLevel(m))
  PROVE  SameLevel(l, m)
<1>1. SameLevel(NextLevel(m), NextLevel(l))
  BY DEF SameLevel
<1>2. l.width = m.width
  BY <1>1, NotPadded
<1>3. ASSUME NEW i \in 0 .. l.width - 1 PROVE l.node[i] = m.node[i]
  <2> DEFINE p == i \div 2
  <2>1. p \in 0 .. NextLevel(l).width - 1 /\ p \in 0 .. NextLevel(m).width - 1
    BY <1>2, NextLevelNodes
  <2>2. Hash(l.node[2 * p], RightChild(l, 2 * p)) = Hash(m.node[2 * p], RightChild(m, 2 * p))
    BY <2>1, NextLevelNodes DEF SameLevel
  <2>3. /\ l.node[2 * p] = m.node[2 * p]
        /\ RightChild(l, 2 * p) = RightChild(m, 2 * p)
    BY <2>2, HashInjective
  <2>4. CASE i % 2 = 0
    BY <2>3, <2>4
  <2>5. CASE i % 2 # 0
    <3>1. i = 2 * p + 1
      BY <2>5
    <3>2. RightChild(l, 2 * p) = l.node[i] /\ RightChild(m, 2 * p) = m.node[i]
      BY <1>2, <3>1 DEF RightChild
    <3> QED
      BY <2>3, <3>2
  <2> QED
    BY <2>4, <2>5
<1> QED
  BY <1>2, <1>3 DEF SameLevel

\* The levels of two complete trees with the same root agree from the top down.
LEMMA SameFromTop ==
  ASSUME NEW t, NEW u, IsTree(t), IsTree(u), Complete(t), Complete(u),
         LevelDistinct(t.level[0]), LevelDistinct(u.level[0]), Root(t) = Root(u),
         NEW d \in Nat, d <= t.height, d <= u.height
  PROVE  SameLevel(t.level[t.height - d], u.level[u.height - d])
<1> DEFINE Same(e) == SameLevel(t.level[t.height - e], u.level[u.height - e])
           S == {e \in Nat : e <= t.height /\ e <= u.height => Same(e)}
<1>1. t.height \in Nat /\ u.height \in Nat
  BY DEF IsTree
<1>2. 0 \in S
  <2>1. t.level[t.height].width = 1 /\ u.level[u.height].width = 1
    <3>1. t.height \in 0 .. t.height /\ u.height \in 0 .. u.height
      BY <1>1
    <3>2. t.level[t.height].width \in Nat \ {0} /\ u.level[u.height].width \in Nat \ {0}
      BY <3>1 DEF IsTree
    <3> QED
      BY <3>2 DEF Complete, Top
  <2>2. SameLevel(t.level[t.height], u.level[u.height])
    BY <2>1 DEF SameLevel, Root, Top
  <2>3. t.height - 0 = t.height /\ u.height - 0 = u.height
    BY <1>1
  <2> QED
    BY <2>2, <2>3
<1>3. ASSUME NEW e \in Nat, e \in S PROVE e + 1 \in S
  <2>1. CASE e + 1 <= t.height /\ e + 1 <= u.height
    <3> DEFINE j == t.height - (e + 1)
               k == u.height - (e + 1)
    <3>1. /\ j \in 0 .. t.height - 1 /\ j + 1 = t.height - e
          /\ k \in 0 .. u.height - 1 /\ k + 1 = u.height - e
          /\ j \in 0 .. t.height /\ k \in 0 .. u.height
      BY <1>1, <2>1
    <3>2. Same(e)
      BY <1>1, <1>3, <2>1
    <3> HIDE DEF j, k
    <3>3. /\ t.level[j].width \in Nat \ {0} /\ t.level[j + 1] = NextLevel(t.level[j])
          /\ u.level[k].width \in Nat \ {0} /\ u.level[k + 1] = NextLevel(u.level[k])
      BY <3>1 DEF IsTree
    <3>4. SameLevel(NextLevel(t.level[j]), NextLevel(u.level[k]))
      BY <3>1, <3>2, <3>3
    <3>5. LevelDistinct(t.level[j]) /\ LevelDistinct(u.level[k])
      BY <3>1, LevelsDistinct
    <3>6. SameLevel(t.level[j], u.level[k])
      BY <3>3, <3>4, <3>5, SameBelow
    <3> QED
      BY <3>6 DEF j, k
  <2> QED
    BY <2>1
<1>4. Nat \subseteq S
  <2> HIDE DEF S
  <2> QED
    BY <1>2, <1>3, InductionOverSet
<1> QED
  BY <1>4

\* The leaves of one tree are never inner nodes of the other.
LEMMA NotLower ==
  ASSUME NEW t, NEW u, IsTree(t), IsTree(u), Complete(t), Complete(u),
         LevelDistinct(t.level[0]), LevelDistinct(u.level[0]), Root(t) = Root(u),
         NEW r, t.level[0].node[0] = HashLeaf(r)
  PROVE  ~ (t.height < u.height)
<1> SUFFICES ASSUME t.height < u.height PROVE FALSE
  OBVIOUS
<1> DEFINE k == u.height - t.height - 1
<1>1. /\ t.height \in Nat /\ u.height \in Nat
      /\ t.height <= t.height /\ t.height <= u.height
      /\ t.height - t.height = 0 /\ u.height - t.height = k + 1
      /\ k \in 0 .. u.height - 1 /\ k \in 0 .. u.height
  BY DEF IsTree
<1>2. SameLevel(t.level[t.height - t.height], u.level[u.height - t.height])
  BY <1>1, SameFromTop
<1> HIDE DEF k
<1>3. SameLevel(t.level[0], u.level[k + 1])
  BY <1>1, <1>2
<1>4. /\ u.level[k].width \in Nat \ {0} /\ u.level[k + 1] = NextLevel(u.level[k])
      /\ t.level[0].width \in Nat \ {0}
  BY <1>1 DEF IsTree
<1>5. HashLeaf(r) = NextLevel(u.level[k]).node[0]
  BY <1>3, <1>4 DEF SameLevel
<1>6. 0 \in 0 .. NextLevel(u.level[k]).width - 1
  BY <1>4, NextLevelNodes
<1>7. NextLevel(u.level[k]).node[0] = Hash(u.level[k].node[2 * 0], RightChild(u.level[k], 2 * 0))
  BY <1>4, <1>6, NextLevelNodes
<1> QED
  BY <1>5, <1>7, HashInjective

\* Two batches of different receipts have different roots, whatever their
\* sizes, although an odd level is padded with a copy of its last node: so a
\* root stands for its batch (merkle.py:90-116, service.py:238-247).  With
\* equal receipts in a batch it would not: <<a, b, c>> and <<a, b, c, c>> have
\* the same root.
THEOREM RootDeterminesBatch ==
  ASSUME NEW n \in Nat \ {0}, NEW h \in [0 .. n - 1 -> Receipts],
         NEW m \in Nat \ {0}, NEW g \in [0 .. m - 1 -> Receipts],
         \A i, j \in 0 .. n - 1 : h[i] = h[j] => i = j,
         \A i, j \in 0 .. m - 1 : g[i] = g[j] => i = j,
         NEW t, IsTree(t), Complete(t), t.level[0] = LeafLevel(h, n),
         NEW u, IsTree(u), Complete(u), u.level[0] = LeafLevel(g, m),
         Root(t) = Root(u)
  PROVE  n = m /\ h = g
<1>1. /\ t.level[0].width = n /\ \A i \in 0 .. n - 1 : t.level[0].node[i] = HashLeaf(h[i])
      /\ u.level[0].width = m /\ \A i \in 0 .. m - 1 : u.level[0].node[i] = HashLeaf(g[i])
  BY DEF LeafLevel
<1>2. LevelDistinct(t.level[0]) /\ LevelDistinct(u.level[0])
  BY <1>1, HashInjective DEF LevelDistinct
<1>3. t.level[0].node[0] = HashLeaf(h[0]) /\ u.level[0].node[0] = HashLeaf(g[0])
  BY <1>1
<1>4. t.height \in Nat /\ u.height \in Nat
  BY DEF IsTree
<1>5. t.height = u.height
  <2>1. ~ (t.height < u.height)
    BY <1>2, <1>3, NotLower
  <2>2. ~ (u.height < t.height)
    BY <1>2, <1>3, NotLower
  <2> QED
    BY <1>4, <2>1, <2>2
<1>6. SameLevel(t.level[t.height - t.height], u.level[u.height - t.height])
  BY <1>2, <1>4, <1>5, SameFromTop
<1>7. SameLevel(t.level[0], u.level[0])
  BY <1>4, <1>5, <1>6
<1>8. n = m /\ \A i \in 0 .. n - 1 : h[i] = g[i]
  BY <1>1, <1>7, HashInjective DEF SameLevel
<1> QED
  BY <1>8
=============================================================================
