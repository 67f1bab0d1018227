-------------------------- MODULE MerkleProofProofs --------------------------
(***************************************************************************)
(* Proofs about MerkleProof for batches, listings and tables of any size.  *)
(* No induction over the tree is needed: the loops are steps, and Inv      *)
(* relates the digest folded so far to the level it has reached.           *)
(***************************************************************************)
EXTENDS MerkleProof, FiniteSetTheorems, TLAPS

-----------------------------------------------------------------------------
(* Digests and levels.                                                      *)

\* SHA-256 as a term: injective, and no leaf is the digest of a pair.
LEMMA HashInjective ==
    /\ \A a, b, c, d : Hash(a, b) = Hash(c, d) => a = c /\ b = d
    /\ \A r, s : HashLeaf(r) = HashLeaf(s) => r = s
    /\ \A r, a, b : HashLeaf(r) # Hash(a, b)
  BY DEF Hash, HashLeaf

\* The nodes of the next level.
LEMMA NextLevelNodes ==
    ASSUME NEW l, l.width \in Nat \ {0}
    PROVE  /\ NextLevel(l).width = (l.width + 1) \div 2
           /\ NextLevel(l).width \in Nat \ {0}
           /\ \A i \in 0 .. NextLevel(l).width - 1 :
                NextLevel(l).node[i] = Hash(l.node[2 * i], RightChild(l, 2 * i))
  BY DEF NextLevel

\* Folding a node with its sibling gives its parent.
LEMMA FoldGivesParent ==
    ASSUME NEW l, l.width \in Nat \ {0}, NEW i \in 0 .. l.width - 1
    PROVE  Fold(l.node[i], Sibling(l, i), i) = NextLevel(l).node[i \div 2]
  <1>1. i \div 2 \in 0 .. NextLevel(l).width - 1
    BY NextLevelNodes
  <1>2. CASE i % 2 = 0
    <2>1. 2 * (i \div 2) = i
      BY <1>2
    <2>. QED
      BY <1>1, <1>2, <2>1, NextLevelNodes DEF Fold, Sibling
  <1>3. CASE i % 2 # 0
    <2>1. 2 * (i \div 2) = i - 1
      BY <1>3
    <2>2. RightChild(l, i - 1) = l.node[i]
      BY DEF RightChild
    <2>. QED
      BY <1>1, <1>3, <2>1, <2>2, NextLevelNodes DEF Fold, Sibling
  <1>. QED
    BY <1>2, <1>3

\* A fold that gives a node of the next level started from one of its children.
LEMMA ParentComesFromChild ==
    ASSUME NEW l, l.width \in Nat \ {0}, NEW p \in 0 .. NextLevel(l).width - 1,
           NEW current, NEW sibling, NEW i \in Nat,
           Fold(current, sibling, i) = NextLevel(l).node[p]
    PROVE  \E q \in 0 .. l.width - 1 : current = l.node[q]
  <1>1. NextLevel(l).node[p] = Hash(l.node[2 * p], RightChild(l, 2 * p))
    BY NextLevelNodes
  <1>2. 2 * p \in 0 .. l.width - 1
    BY NextLevelNodes
  <1>3. current = l.node[2 * p] \/ current = RightChild(l, 2 * p)
    BY <1>1, HashInjective DEF Fold
  <1>4. \/ RightChild(l, 2 * p) = l.node[2 * p]
        \/ /\ 2 * p + 1 \in 0 .. l.width - 1
           /\ RightChild(l, 2 * p) = l.node[2 * p + 1]
    BY <1>2 DEF RightChild
  <1>. QED
    BY <1>2, <1>3, <1>4

\* A fold that gives the parent of the node at i started from that node.
LEMMA ParentComesFromPath ==
    ASSUME NEW l, l.width \in Nat \ {0}, NEW i \in 0 .. l.width - 1,
           NEW current, NEW sibling,
           Fold(current, sibling, i) = NextLevel(l).node[i \div 2]
    PROVE  current = l.node[i]
  <1>1. NextLevel(l).node[i \div 2]
          = Hash(l.node[2 * (i \div 2)], RightChild(l, 2 * (i \div 2)))
    BY NextLevelNodes
  <1>2. CASE i % 2 = 0
    <2>1. 2 * (i \div 2) = i
      BY <1>2
    <2>. QED
      BY <1>1, <1>2, <2>1, HashInjective DEF Fold
  <1>3. CASE i % 2 # 0
    <2>1. 2 * (i \div 2) = i - 1
      BY <1>3
    <2>2. RightChild(l, i - 1) = l.node[i]
      BY DEF RightChild
    <2>. QED
      BY <1>1, <1>3, <2>1, <2>2, HashInjective DEF Fold
  <1>. QED
    BY <1>2, <1>3

\* One round of the loop adds a level and keeps the others.
LEMMA GrownTree ==
    ASSUME NEW t, IsTree(t), ~ Complete(t)
    PROVE  /\ IsTree(Grown(t))
           /\ Grown(t).height = t.height + 1
           /\ \A k \in 0 .. t.height : Grown(t).level[k] = t.level[k]
           /\ Grown(t).level[t.height + 1] = NextLevel(t.level[t.height])
           /\ t.level[t.height].width > 1
  <1> DEFINE g == Grown(t)
  <1>1. /\ t.height \in Nat
        /\ t.level[t.height].width \in Nat \ {0}
        /\ t.level[t.height].width > 1
    BY DEF IsTree, Complete, Top
  <1>2. /\ g.height = t.height + 1
        /\ \A k \in 0 .. t.height : g.level[k] = t.level[k]
        /\ g.level[t.height + 1] = NextLevel(t.level[t.height])
    BY <1>1 DEF Grown, Top
  <1>3. NextLevel(t.level[t.height]).width \in Nat \ {0}
    BY <1>1, NextLevelNodes
  <1>4. \A k \in 0 .. g.height : g.level[k].width \in Nat \ {0}
    BY <1>1, <1>2, <1>3 DEF IsTree
  <1>5. ASSUME NEW k \in 0 .. g.height - 1
        PROVE  g.level[k].width > 1 /\ g.level[k + 1] = NextLevel(g.level[k])
    BY <1>1, <1>2 DEF IsTree
  <1>. QED
    BY <1>1, <1>2, <1>4, <1>5 DEF IsTree

-----------------------------------------------------------------------------
(* Initial states.                                                          *)

LEMMA InitInv == Init => Inv
  <1>. SUFFICES ASSUME NEW n \in 1 .. MaxBatch,
                       NEW h \in [0 .. n - 1 -> Receipts],
                       \A i, j \in 0 .. n - 1 : h[i] = h[j] => i = j,
                       rows = [p \in 0 .. n - 1 |-> [receipt |-> h[p], anchored |-> FALSE]],
                       newer = 0,
                       anchor = NewTree(LeafLevel(h, n)),
                       tree = NewTree(LeafLevel(h, n)),
                       call = NoCall,
                       proof = NewProof(0)
                PROVE  Inv
    BY DEF Init
  <1> USE BoundAssumption
  <1>1. /\ anchor.height = 0
        /\ anchor.level[0].width = n
        /\ \A p \in 0 .. n - 1 : anchor.level[0].node[p] = HashLeaf(h[p])
        /\ tree = anchor
    BY DEF NewTree, LeafLevel
  <1>2. IsTree(anchor) /\ IsTree(tree)
    BY <1>1 DEF IsTree
  <1>3. Positions = 0 .. n - 1
    BY <1>1 DEF Positions, Size
  <1>4. TypeOK
    <2>1. IsCall(call)
      BY <1>3 DEF NoCall, CallSteps, IsCall
    <2>. QED
      BY <1>2, <1>3, <2>1 DEF TypeOK
  <1>5. ReceiptsKnown
    BY <1>1, <1>3, HashInjective
    DEF ReceiptsKnown, KnownAs, Committed, NoCall, Rebuilding
  <1>6. TreeFits /\ ProofFollowsPath /\ FoldFollowsPath /\ AnswerCompares
    BY DEF TreeFits, ProofFollowsPath, FoldFollowsPath, AnswerCompares, NoCall,
           Rebuilding, Folding
  <1>. QED
    BY <1>4, <1>5, <1>6 DEF Inv

-----------------------------------------------------------------------------
(* The service and the rows.                                                *)

\* The call and what it has built are left alone.
LEMMA KeepsCall ==
    ASSUME Inv, UNCHANGED <<anchor, tree, call, proof>>
    PROVE  (TreeFits /\ ProofFollowsPath /\ FoldFollowsPath /\ AnswerCompares)'
  BY DEF Inv, TreeFits, ProofFollowsPath, FoldFollowsPath, FoldIsInjective,
         AnswerCompares, Intact, Committed, Complete, Top, Root

LEMMA BuildAnchorInv ==
    ASSUME Inv, BuildAnchor
    PROVE  Inv'
  <1>1. /\ ~ Complete(anchor)
        /\ anchor' = Grown(anchor)
        /\ UNCHANGED <<rows, newer, tree, call, proof>>
    BY DEF BuildAnchor
  <1>2. /\ IsTree(anchor')
        /\ anchor'.level[0] = anchor.level[0]
    BY <1>1, GrownTree DEF Inv, TypeOK, IsTree
  <1>3. call.step \notin {"list"} \cup Rebuilding
    BY <1>1 DEF Inv, ReceiptsKnown
  <1>4. Positions' = Positions /\ \A p : Committed(p)' = Committed(p)
    BY <1>2 DEF Positions, Size, Committed
  <1>5. TypeOK'
    BY <1>1, <1>2, <1>4 DEF Inv, TypeOK, IsCall
  <1>6. ReceiptsKnown'
    BY <1>1, <1>3, <1>4 DEF Inv, ReceiptsKnown, KnownAs, Rebuilding
  <1>7. (TreeFits /\ ProofFollowsPath /\ FoldFollowsPath /\ AnswerCompares)'
    BY <1>1, <1>3 DEF TreeFits, ProofFollowsPath, FoldFollowsPath, AnswerCompares,
                      Rebuilding, Folding
  <1>. QED
    BY <1>5, <1>6, <1>7 DEF Inv

LEMMA MarkAnchoredInv ==
    ASSUME Inv, MarkAnchored
    PROVE  Inv'
  <1>1. /\ Complete(anchor)
        /\ UNCHANGED <<newer, anchor, tree, call, proof>>
    BY DEF MarkAnchored
  <1>2. PICK S \in SUBSET Positions :
          rows' = [p \in Positions |->
                     IF p \in S THEN [rows[p] EXCEPT !.anchored = TRUE] ELSE rows[p]]
    BY DEF MarkAnchored
  <1>3. /\ rows' \in [Positions -> [receipt : Receipts, anchored : BOOLEAN]]
        /\ \A p \in Positions : rows'[p].receipt = rows[p].receipt
    BY <1>2 DEF Inv, TypeOK
  <1>4. TypeOK'
    BY <1>1, <1>3 DEF Inv, TypeOK, Positions, Size, IsCall
  <1>5. ReceiptsKnown'
    BY <1>1, <1>3
    DEF Inv, ReceiptsKnown, KnownAs, Positions, Size, Committed, Complete, Top
  <1>. QED
    BY <1>1, <1>4, <1>5, KeepsCall DEF Inv

LEMMA ReissueInv ==
    ASSUME Inv, NEW p \in Positions, NEW h \in Receipts, Reissue(p, h)
    PROVE  Inv'
  <1>1. /\ \A q \in Positions : Committed(q) # HashLeaf(h)
        /\ rows' = [rows EXCEPT ![p].receipt = h]
        /\ UNCHANGED <<newer, anchor, tree, call, proof>>
    BY DEF Reissue
  <1>2. /\ rows' \in [Positions -> [receipt : Receipts, anchored : BOOLEAN]]
        /\ rows'[p].receipt = h
        /\ \A q \in Positions : q # p => rows'[q].receipt = rows[q].receipt
        /\ \A q \in Positions : rows'[q].anchored = rows[q].anchored
    BY <1>1 DEF Inv, TypeOK
  <1>3. TypeOK'
    BY <1>1, <1>2 DEF Inv, TypeOK, Positions, Size, IsCall
  <1>4. ReceiptsKnown'
    BY <1>1, <1>2
    DEF Inv, ReceiptsKnown, KnownAs, Positions, Size, Committed, Complete, Top
  <1>. QED
    BY <1>1, <1>3, <1>4, KeepsCall DEF Inv

LEMMA NewRecordInv ==
    ASSUME Inv, NewRecord
    PROVE  Inv'
  <1>1. newer' \in 0 .. MaxNewer /\ UNCHANGED <<rows, anchor, tree, call, proof>>
    BY BoundAssumption DEF NewRecord, Inv, TypeOK
  <1>2. TypeOK'
    BY <1>1 DEF Inv, TypeOK, Positions, Size, IsCall
  <1>3. ReceiptsKnown'
    BY <1>1 DEF Inv, ReceiptsKnown, KnownAs, Positions, Size, Committed, Complete, Top
  <1>. QED
    BY <1>1, <1>2, <1>3, KeepsCall DEF Inv

-----------------------------------------------------------------------------
(* The proof endpoint.                                                      *)

\* A step of the endpoint leaves the batch and the rows alone.
LEMMA KeepsBatch ==
    ASSUME UNCHANGED <<rows, newer, anchor>>
    PROVE  /\ Positions' = Positions
           /\ \A p : Committed(p)' = Committed(p)
           /\ Complete(anchor)' = Complete(anchor)
  BY DEF Positions, Size, Committed, Complete, Top

\* What is left to show of the first two parts of the invariant.
LEMMA KeepsTypes ==
    ASSUME Inv, UNCHANGED <<rows, newer, anchor>>, IsTree(tree)',
           IsCall(call'),
           call'.step \in {"list"} \cup Rebuilding =>
             Complete(anchor) /\ KnownAs(call'.receipt, call'.record)
    PROVE  TypeOK' /\ ReceiptsKnown'
  <1>1. TypeOK'
    BY KeepsBatch DEF Inv, TypeOK, IsTree, IsCall
  <1>2. ReceiptsKnown'
    BY KeepsBatch DEF Inv, ReceiptsKnown, KnownAs, Rebuilding
  <1>. QED
    BY <1>1, <1>2

LEMMA ReadRecordInv ==
    ASSUME Inv, NEW p \in Positions, ReadRecord(p)
    PROVE  Inv'
  <1>1. /\ call' = IF rows[p].anchored
                    THEN [NoCall EXCEPT !.step = "list", !.record = p,
                                        !.receipt = rows[p].receipt]
                    ELSE [NoCall EXCEPT !.step = "refused"]
        /\ UNCHANGED <<rows, newer, anchor, tree>>
    BY DEF ReadRecord
  <1>2. rows[p].receipt \in Receipts /\ 0 \in Positions
    BY DEF Inv, TypeOK, Positions, IsTree, Size
  <1>3. /\ IsCall(call')
        /\ call'.step \notin Rebuilding
        /\ call'.step = "list" =>
             rows[p].anchored /\ call'.receipt = rows[p].receipt /\ call'.record = p
    BY <1>1, <1>2 DEF NoCall, CallSteps, Rebuilding, IsCall
  <1>4. call'.step \in {"list"} \cup Rebuilding =>
          Complete(anchor) /\ KnownAs(call'.receipt, call'.record)
    BY <1>3 DEF Inv, ReceiptsKnown
  <1>5. TypeOK' /\ ReceiptsKnown'
    <2>1. IsTree(tree)'
      BY <1>1 DEF Inv, TypeOK, IsTree
    <2>. QED
      BY <1>1, <1>3, <1>4, <2>1, KeepsTypes
  <1>6. (TreeFits /\ ProofFollowsPath /\ FoldFollowsPath /\ AnswerCompares)'
    BY <1>3 DEF TreeFits, ProofFollowsPath, FoldFollowsPath, AnswerCompares,
                Rebuilding, Folding
  <1>. QED
    BY <1>5, <1>6 DEF Inv

\* The rebuilt batch is not empty and not larger than the batch.
LEMMA ListedCount ==
    ASSUME Inv, call.record \in Listed
    PROVE  /\ Cardinality(Listed) \in 1 .. Size
           /\ Cardinality(Before(call.record)) \in 0 .. Cardinality(Listed) - 1
  <1>1. Size \in Nat \ {0}
    BY DEF Inv, TypeOK, IsTree, Size
  <1>2. IsFiniteSet(Positions) /\ Cardinality(Positions) = Size
    BY <1>1, FS_Interval DEF Positions
  <1>3. IsFiniteSet(Listed) /\ Cardinality(Listed) <= Size
    BY <1>2, FS_Subset DEF Listed
  <1>4. /\ IsFiniteSet(Before(call.record))
        /\ Cardinality(Before(call.record)) <= Cardinality(Listed)
        /\ Cardinality(Listed) = Cardinality(Before(call.record)) =>
             Listed = Before(call.record)
    BY <1>3, FS_Subset DEF Before
  <1>5. Listed # Before(call.record)
    BY <1>1 DEF Before, Listed, Positions
  <1>. QED
    BY <1>1, <1>3, <1>4, <1>5, FS_CardinalityType

LEMMA ListBatchInv ==
    ASSUME Inv, ListBatch
    PROVE  Inv'
  <1>1. call.step = "list" /\ UNCHANGED <<rows, newer, anchor>>
    BY DEF ListBatch
  <1>2. Complete(anchor) /\ KnownAs(call.receipt, call.record)
    BY <1>1 DEF Inv, ReceiptsKnown
  <1>3. CASE call.record \notin Listed
    <2>1. call' = [call EXCEPT !.step = "refused"] /\ UNCHANGED <<tree, proof>>
      BY <1>3 DEF ListBatch
    <2>2. /\ IsCall(call')
          /\ call'.step = "refused"
      BY <2>1 DEF Inv, TypeOK, CallSteps, IsCall
    <2>3. IsTree(tree)'
      BY <2>1 DEF Inv, TypeOK, IsTree
    <2>4. TypeOK' /\ ReceiptsKnown'
      BY <1>1, <2>2, <2>3, KeepsTypes DEF Rebuilding
    <2>5. (TreeFits /\ ProofFollowsPath /\ FoldFollowsPath /\ AnswerCompares)'
      BY <2>2 DEF TreeFits, ProofFollowsPath, FoldFollowsPath, AnswerCompares,
                  Rebuilding, Folding
    <2>. QED
      BY <2>4, <2>5 DEF Inv
  <1>4. CASE call.record \in Listed
    <2> DEFINE n == Cardinality(Listed)
               f == [i \in 0 .. n - 1 |-> rows[IthListed(i)].receipt]
    <2>1. /\ tree' = NewTree(LeafLevel(f, n))
          /\ proof' = NewProof(Cardinality(Before(call.record)))
          /\ call' = [call EXCEPT !.step = "build"]
      BY <1>4 DEF ListBatch
    <2>2. n \in 1 .. Size /\ Cardinality(Before(call.record)) \in 0 .. n - 1
      BY <1>4, ListedCount
    <2>3. Size \in Nat \ {0} /\ anchor.height \in Nat
      BY DEF Inv, TypeOK, IsTree, Size
    <2>4. /\ tree'.height = 0
          /\ tree'.level[0].width = n
          /\ proof'.length = 0
          /\ proof'.at[0] \in 0 .. n - 1
      BY <2>1, <2>2 DEF NewTree, LeafLevel, NewProof
    <2>5. /\ IsCall(call')
          /\ call'.step = "build"
          /\ call'.receipt = call.receipt /\ call'.record = call.record
      BY <2>1 DEF Inv, TypeOK, CallSteps, IsCall
    <2>6. IsTree(tree)'
      BY <2>2, <2>3, <2>4 DEF IsTree
    <2>7. TypeOK' /\ ReceiptsKnown'
      BY <1>1, <1>2, <2>5, <2>6, KeepsTypes
    <2>8. TreeFits'
      BY <1>1, <2>2, <2>3, <2>4 DEF TreeFits, Size
    <2>9. ProofFollowsPath'
      BY <2>2, <2>3, <2>4, <2>5 DEF ProofFollowsPath, Folding
    <2>10. FoldFollowsPath' /\ AnswerCompares'
      BY <2>5 DEF FoldFollowsPath, AnswerCompares, Folding
    <2>. QED
      BY <2>7, <2>8, <2>9, <2>10 DEF Inv
  <1>. QED
    BY <1>3, <1>4

LEMMA BuildTreeInv ==
    ASSUME Inv, BuildTree
    PROVE  Inv'
  <1> DEFINE h == tree.height
  <1>1. /\ call.step = "build" /\ ~ Complete(tree)
        /\ tree' = Grown(tree)
        /\ UNCHANGED <<rows, newer, anchor, call, proof>>
    BY DEF BuildTree
  <1>2. IsTree(tree) /\ IsTree(anchor)
    BY DEF Inv, TypeOK
  <1>3. /\ IsTree(tree')
        /\ tree'.height = h + 1
        /\ \A k \in 0 .. h : tree'.level[k] = tree.level[k]
        /\ tree'.level[h + 1] = NextLevel(tree.level[h])
        /\ tree.level[h].width > 1
    BY <1>1, <1>2, GrownTree
  <1>4. /\ h \in Nat /\ h <= anchor.height
        /\ \A k \in 0 .. h : tree.level[k].width <= anchor.level[k].width
        /\ tree.level[0] = anchor.level[0] =>
             \A k \in 0 .. h : tree.level[k] = anchor.level[k]
    BY <1>1, <1>2 DEF Inv, TreeFits, Rebuilding, IsTree
  <1>5. Complete(anchor) /\ KnownAs(call.receipt, call.record)
    BY <1>1 DEF Inv, ReceiptsKnown, Rebuilding
  <1>6. h < anchor.height
    <2>1. anchor.level[h].width > 1
      BY <1>2, <1>3, <1>4 DEF IsTree
    <2>. QED
      BY <1>2, <1>4, <1>5, <2>1 DEF IsTree, Complete, Top
  <1>7. anchor.level[h + 1] = NextLevel(anchor.level[h])
    BY <1>2, <1>4, <1>6 DEF IsTree
  <1>8. tree'.level[h + 1].width <= anchor.level[h + 1].width
    <2>1. tree.level[h].width \in Nat \ {0} /\ anchor.level[h].width \in Nat \ {0}
      BY <1>2, <1>4, <1>6 DEF IsTree
    <2>2. tree.level[h].width <= anchor.level[h].width
      BY <1>4
    <2>. QED
      BY <1>3, <1>7, <2>1, <2>2, NextLevelNodes
  <1>9. TypeOK' /\ ReceiptsKnown'
    <2>1. IsTree(tree)' /\ IsCall(call')
      BY <1>1, <1>3 DEF IsTree, Inv, TypeOK
    <2>. QED
      BY <1>1, <1>5, <2>1, KeepsTypes
  <1>10. TreeFits'
    <2>1. tree'.height <= anchor'.height
      BY <1>1, <1>2, <1>3, <1>4, <1>6 DEF IsTree
    <2>2. \A k \in 0 .. tree'.height : tree'.level[k].width <= anchor'.level[k].width
      BY <1>1, <1>3, <1>4, <1>8
    <2>3. tree'.level[0] = anchor'.level[0] =>
            \A k \in 0 .. tree'.height : tree'.level[k] = anchor'.level[k]
      BY <1>1, <1>3, <1>4, <1>7
    <2>. QED
      BY <2>1, <2>2, <2>3 DEF TreeFits
  <1>11. ProofFollowsPath'
    <2>1. /\ proof.length \in 0 .. h
          /\ \A j \in 0 .. proof.length : proof.at[j] \in 0 .. tree.level[j].width - 1
          /\ \A j \in 0 .. proof.length - 1 :
               /\ proof.at[j + 1] = proof.at[j] \div 2
               /\ proof.sibling[j] = Sibling(tree.level[j], proof.at[j])
      BY <1>1 DEF Inv, ProofFollowsPath, Rebuilding
    <2>2. call'.step = "build"
      BY <1>1
    <2>. QED
      BY SMTT(30), <1>1, <1>3, <1>4, <2>1, <2>2 DEF ProofFollowsPath, Folding, Sibling, RightChild
  <1>12. FoldFollowsPath' /\ AnswerCompares'
    BY <1>1 DEF FoldFollowsPath, AnswerCompares, Folding
  <1>. QED
    BY <1>9, <1>10, <1>11, <1>12 DEF Inv

\* What the trees give the steps that do not build one.
LEMMA KeepsTrees ==
    ASSUME Inv, UNCHANGED <<rows, newer, anchor, tree>>, IsCall(call'),
           call.step \in Rebuilding, call'.step \in Rebuilding,
           call'.receipt = call.receipt, call'.record = call.record
    PROVE  TypeOK' /\ ReceiptsKnown' /\ TreeFits'
  <1>1. IsTree(tree)'
    BY DEF Inv, TypeOK, IsTree
  <1>2. Complete(anchor) /\ KnownAs(call.receipt, call.record)
    BY DEF Inv, ReceiptsKnown
  <1>3. TypeOK' /\ ReceiptsKnown'
    BY <1>1, <1>2, KeepsTypes
  <1>4. TreeFits'
    BY DEF Inv, TreeFits
  <1>. QED
    BY <1>3, <1>4

LEMMA StartProofInv ==
    ASSUME Inv, StartProof
    PROVE  Inv'
  <1>1. /\ call.step = "build" /\ Complete(tree)
        /\ call' = [call EXCEPT !.step = "prove"]
        /\ UNCHANGED <<rows, newer, anchor, tree, proof>>
    BY DEF StartProof
  <1>2. /\ IsCall(call')
        /\ call'.step = "prove"
        /\ call'.receipt = call.receipt /\ call'.record = call.record
    BY <1>1 DEF Inv, TypeOK, IsCall, CallSteps
  <1>3. TypeOK' /\ ReceiptsKnown' /\ TreeFits'
    BY <1>1, <1>2, KeepsTrees DEF Rebuilding
  <1>4. ProofFollowsPath'
    BY <1>1, <1>2 DEF Inv, ProofFollowsPath, Rebuilding, Folding, Complete, Top
  <1>5. FoldFollowsPath' /\ AnswerCompares'
    BY <1>2 DEF FoldFollowsPath, AnswerCompares, Folding
  <1>. QED
    BY <1>3, <1>4, <1>5 DEF Inv

LEMMA AddSiblingInv ==
    ASSUME Inv, AddSibling
    PROVE  Inv'
  <1> DEFINE m == proof.length
  <1>1. /\ call.step = "prove"
        /\ m < tree.height
        /\ proof' = [length  |-> m + 1,
                     sibling |-> [j \in 0 .. m |->
                                    IF j < m THEN proof.sibling[j]
                                    ELSE Sibling(tree.level[m], proof.at[m])],
                     at      |-> [j \in 0 .. m + 1 |->
                                    IF j <= m THEN proof.at[j] ELSE proof.at[m] \div 2]]
        /\ UNCHANGED <<rows, newer, anchor, tree, call>>
    BY DEF AddSibling
  <1>2. TypeOK' /\ ReceiptsKnown' /\ TreeFits'
    BY <1>1, KeepsTrees DEF Rebuilding, Inv, TypeOK
  <1>3. /\ m \in 0 .. tree.height
        /\ \A j \in 0 .. m : proof.at[j] \in 0 .. tree.level[j].width - 1
        /\ \A j \in 0 .. m - 1 :
             /\ proof.at[j + 1] = proof.at[j] \div 2
             /\ proof.sibling[j] = Sibling(tree.level[j], proof.at[j])
        /\ Complete(tree)
    BY <1>1 DEF Inv, ProofFollowsPath, Rebuilding
  <1>4. /\ tree.height \in Nat
        /\ tree.level[m].width \in Nat \ {0}
        /\ tree.level[m + 1] = NextLevel(tree.level[m])
    BY <1>1, <1>3 DEF Inv, TypeOK, IsTree
  <1>5. proof.at[m] \div 2 \in 0 .. tree.level[m + 1].width - 1
    <2>1. tree.level[m + 1].width = (tree.level[m].width + 1) \div 2
      BY <1>4, NextLevelNodes
    <2>2. proof.at[m] \in 0 .. tree.level[m].width - 1
      BY <1>3
    <2>. QED
      BY <1>4, <2>1, <2>2
  <1>6. /\ proof'.length = m + 1 /\ m \in Nat
        /\ \A j \in 0 .. m : proof'.at[j] = proof.at[j]
        /\ proof'.at[m + 1] = proof.at[m] \div 2
        /\ \A j \in 0 .. m - 1 : proof'.sibling[j] = proof.sibling[j]
        /\ proof'.sibling[m] = Sibling(tree.level[m], proof.at[m])
    BY <1>1, <1>3
  <1>7. ProofFollowsPath'
    <2>1. proof'.length \in 0 .. tree'.height
      BY <1>1, <1>3, <1>4, <1>6
    <2>2. ASSUME NEW j \in 0 .. proof'.length
          PROVE  proof'.at[j] \in 0 .. tree'.level[j].width - 1
      <3>1. tree' = tree
        BY <1>1
      <3>2. CASE j = m + 1
        BY <1>5, <1>6, <3>1, <3>2
      <3>3. CASE j # m + 1
        <4>1. j \in 0 .. m
          BY <1>6, <3>3
        <4>. QED
          BY <1>3, <1>6, <3>1, <4>1
      <3>. QED
        BY <3>2, <3>3
    <2>3. ASSUME NEW j \in 0 .. proof'.length - 1
          PROVE  /\ proof'.at[j + 1] = proof'.at[j] \div 2
                 /\ proof'.sibling[j] = Sibling(tree'.level[j], proof'.at[j])
      <3>1. CASE j = m
        BY <1>1, <1>6, <3>1
      <3>2. CASE j # m
        <4>1. j \in 0 .. m - 1 /\ j + 1 \in 0 .. m
          BY <1>6, <3>2
        <4>2. tree' = tree
          BY <1>1
        <4>3. proof'.at[j] = proof.at[j] /\ proof'.at[j + 1] = proof.at[j + 1]
          BY <1>6, <4>1
        <4>4. proof.at[j + 1] = proof.at[j] \div 2
              /\ proof.sibling[j] = Sibling(tree.level[j], proof.at[j])
          BY <1>3, <4>1
        <4>. QED
          BY <1>6, <4>1, <4>2, <4>3, <4>4
      <3>. QED
        BY <3>1, <3>2
    <2>4. Complete(tree)'
      BY <1>1, <1>3 DEF Complete, Top
    <2>5. call'.step = "prove"
      BY <1>1
    <2>. QED
      BY <2>1, <2>2, <2>3, <2>4, <2>5 DEF ProofFollowsPath, Folding
  <1>8. FoldFollowsPath' /\ AnswerCompares'
    BY <1>1 DEF FoldFollowsPath, AnswerCompares, Folding
  <1>. QED
    BY <1>2, <1>7, <1>8 DEF Inv

LEMMA StartVerificationInv ==
    ASSUME Inv, StartVerification
    PROVE  Inv'
  <1>1. /\ call.step = "prove"
        /\ proof.length = tree.height
        /\ call' = [call EXCEPT !.step = "fold", !.folded = 0, !.idx = proof.at[0],
                                !.current = HashLeaf(call.receipt)]
        /\ UNCHANGED <<rows, newer, anchor, tree, proof>>
    BY DEF StartVerification
  <1>2. /\ tree.height \in Nat /\ tree.level[0].width \in Nat \ {0}
        /\ anchor.height \in Nat
    BY DEF Inv, TypeOK, IsTree
  <1>3. /\ \A j \in 0 .. proof.length : proof.at[j] \in 0 .. tree.level[j].width - 1
        /\ Complete(tree)
    BY <1>1 DEF Inv, ProofFollowsPath, Rebuilding
  <1>4. proof.at[0] \in Nat
    BY <1>1, <1>2, <1>3
  <1>5. /\ IsCall(call')
        /\ call'.step = "fold" /\ call'.folded = 0 /\ call'.idx = proof.at[0]
        /\ call'.current = HashLeaf(call.receipt)
        /\ call'.receipt = call.receipt /\ call'.record = call.record
    BY <1>1, <1>4 DEF Inv, TypeOK, IsCall, CallSteps
  <1>6. TypeOK' /\ ReceiptsKnown' /\ TreeFits'
    BY <1>1, <1>5, KeepsTrees DEF Rebuilding
  <1>7. ProofFollowsPath'
    BY <1>1, <1>3, <1>5
    DEF Inv, ProofFollowsPath, Rebuilding, Folding, Complete, Top, Sibling, RightChild
  <1>8. FoldFollowsPath'
    <2>1. FoldIsInjective'
      <3>. SUFFICES ASSUME NEW d \in 0 .. anchor'.height - call'.folded,
                           NEW p \in 0 .. anchor'.level[call'.folded + d].width - 1,
                           call'.current = anchor'.level[call'.folded + d].node[p]
                    PROVE  \E q \in 0 .. anchor'.level[d].width - 1 :
                             anchor'.level[d].node[q] = HashLeaf(call'.receipt)
        BY DEF FoldIsInjective
      <3>1. call'.folded + d = d
        BY <1>1, <1>2, <1>5
      <3>. QED
        BY <1>5, <3>1
    <2>2. call'.current = anchor'.level[call'.folded].node[call'.idx] =>
            Committed(proof.at[0])' = HashLeaf(call'.receipt)
      BY <1>1, <1>5 DEF Committed
    <2>3. Intact' => call'.current = tree'.level[call'.folded].node[call'.idx]
      BY <1>1, <1>5 DEF Intact
    <2>. QED
      BY <1>1, <1>2, <1>5, <2>1, <2>2, <2>3 DEF FoldFollowsPath
  <1>9. AnswerCompares'
    BY <1>5 DEF AnswerCompares
  <1>. QED
    BY <1>6, <1>7, <1>8, <1>9 DEF Inv

LEMMA FoldSiblingInv ==
    ASSUME Inv, FoldSibling
    PROVE  Inv'
  <1> DEFINE k == call.folded
             current == Fold(call.current, proof.sibling[k], call.idx)
  <1>1. /\ call.step = "fold"
        /\ k < proof.length
        /\ call' = [call EXCEPT !.current = current, !.idx = call.idx \div 2,
                                !.folded = k + 1]
        /\ UNCHANGED <<rows, newer, anchor, tree, proof>>
    BY DEF FoldSibling
  <1>2. /\ IsTree(tree) /\ IsTree(anchor) /\ IsCall(call)
    BY DEF Inv, TypeOK
  <1>3. /\ k \in 0 .. proof.length
        /\ call.idx = proof.at[k]
        /\ FoldIsInjective
        /\ call.current = anchor.level[k].node[call.idx] =>
             Committed(proof.at[0]) = HashLeaf(call.receipt)
        /\ Intact => call.current = tree.level[k].node[call.idx]
    BY <1>1 DEF Inv, FoldFollowsPath, Folding
  <1>4. /\ proof.length = tree.height
        /\ \A j \in 0 .. proof.length : proof.at[j] \in 0 .. tree.level[j].width - 1
        /\ \A j \in 0 .. proof.length - 1 :
             /\ proof.at[j + 1] = proof.at[j] \div 2
             /\ proof.sibling[j] = Sibling(tree.level[j], proof.at[j])
        /\ Complete(tree)
    BY <1>1 DEF Inv, ProofFollowsPath, Rebuilding, Folding
  <1>5. /\ tree.height <= anchor.height
        /\ tree.level[k].width <= anchor.level[k].width
    BY <1>1, <1>3, <1>4 DEF Inv, TreeFits, Rebuilding
  <1>6. /\ k \in Nat /\ tree.height \in Nat /\ anchor.height \in Nat
        /\ k < tree.height /\ k < anchor.height
        /\ tree.level[k].width \in Nat \ {0} /\ anchor.level[k].width \in Nat \ {0}
        /\ tree.level[k + 1] = NextLevel(tree.level[k])
        /\ anchor.level[k + 1] = NextLevel(anchor.level[k])
    BY <1>1, <1>2, <1>3, <1>4, <1>5 DEF IsTree
  <1>7. /\ call.idx \in 0 .. tree.level[k].width - 1
        /\ call.idx \in 0 .. anchor.level[k].width - 1
        /\ call.idx \div 2 = proof.at[k + 1]
        /\ proof.sibling[k] = Sibling(tree.level[k], call.idx)
    BY <1>3, <1>4, <1>5, <1>6
  <1>8. /\ IsCall(call')
        /\ call'.step = "fold" /\ call'.folded = k + 1 /\ call'.idx = call.idx \div 2
        /\ call'.current = current
        /\ call'.receipt = call.receipt /\ call'.record = call.record
    <2>1. call.idx \div 2 \in Nat /\ k + 1 \in Nat
      BY <1>6, <1>7
    <2>2. /\ call'.step = "fold" /\ call'.folded = k + 1 /\ call'.idx = call.idx \div 2
          /\ call'.current = current
          /\ call'.receipt = call.receipt /\ call'.record = call.record
          /\ call' = [step |-> "fold", record |-> call.record, receipt |-> call.receipt,
                      folded |-> k + 1, idx |-> call.idx \div 2, current |-> current,
                      valid |-> call.valid]
      BY <1>1, <1>2 DEF IsCall
    <2>3. call.record \in Positions /\ call.receipt \in Receipts \cup {None}
            /\ call.valid \in BOOLEAN /\ "fold" \in CallSteps
      BY <1>2 DEF IsCall, CallSteps
    <2>. QED
      BY <2>1, <2>2, <2>3 DEF IsCall
  <1>9. TypeOK' /\ ReceiptsKnown' /\ TreeFits'
    BY <1>1, <1>8, KeepsTrees DEF Rebuilding
  <1>10. ProofFollowsPath'
    BY <1>1, <1>4, <1>8
    DEF Inv, ProofFollowsPath, Rebuilding, Folding, Complete, Top, Sibling, RightChild
  <1>11. FoldIsInjective'
    <2>. SUFFICES ASSUME NEW d \in 0 .. anchor.height - (k + 1),
                         NEW p \in 0 .. anchor.level[k + 1 + d].width - 1,
                         current = anchor.level[k + 1 + d].node[p]
                  PROVE  \E q \in 0 .. anchor.level[d].width - 1 :
                           anchor.level[d].node[q] = HashLeaf(call.receipt)
      BY <1>1, <1>8 DEF FoldIsInjective
    <2>1. /\ d \in Nat /\ k + d \in 0 .. anchor.height - 1 /\ d \in 0 .. anchor.height - k
          /\ k + 1 + d = (k + d) + 1
      BY <1>6
    <2>2. /\ anchor.level[k + d].width \in Nat \ {0}
          /\ anchor.level[k + 1 + d] = NextLevel(anchor.level[k + d])
      BY <1>2, <2>1 DEF IsTree
    <2>3. PICK q \in 0 .. anchor.level[k + d].width - 1 :
            call.current = anchor.level[k + d].node[q]
      BY <1>7, <2>2, ParentComesFromChild
    <2>. QED
      BY <1>3, <2>1, <2>3 DEF FoldIsInjective
  <1>12. current = anchor.level[k + 1].node[call.idx \div 2] =>
           Committed(proof.at[0]) = HashLeaf(call.receipt)
    BY <1>3, <1>6, <1>7, ParentComesFromPath
  <1>13. Intact => current = tree.level[k + 1].node[call.idx \div 2]
    BY <1>3, <1>6, <1>7, FoldGivesParent
  <1>14. FoldFollowsPath'
    <2>1. call'.folded \in 0 .. proof'.length /\ call'.idx = proof'.at[call'.folded]
      BY <1>1, <1>4, <1>6, <1>7, <1>8
    <2>2. call'.current = anchor'.level[call'.folded].node[call'.idx] =>
            Committed(proof.at[0])' = HashLeaf(call'.receipt)
      BY <1>1, <1>8, <1>12 DEF Committed
    <2>3. Intact' => call'.current = tree'.level[call'.folded].node[call'.idx]
      BY <1>1, <1>8, <1>13 DEF Intact
    <2>. QED
      BY <1>11, <2>1, <2>2, <2>3 DEF FoldFollowsPath
  <1>15. AnswerCompares'
    BY <1>8 DEF AnswerCompares
  <1>. QED
    BY <1>9, <1>10, <1>14, <1>15 DEF Inv

LEMMA AnswerInv ==
    ASSUME Inv, Answer
    PROVE  Inv'
  <1>1. /\ call.step = "fold"
        /\ call.folded = proof.length
        /\ call' = [call EXCEPT !.step = "answered", !.valid = call.current = Root(anchor)]
        /\ UNCHANGED <<rows, newer, anchor, tree, proof>>
    BY DEF Answer
  <1>2. IsCall(call)
    BY DEF Inv, TypeOK
  <1>3. /\ call'.step = "answered" /\ call'.folded = call.folded /\ call'.idx = call.idx
        /\ call'.current = call.current
        /\ call'.valid <=> call.current = Root(anchor)
        /\ call'.receipt = call.receipt /\ call'.record = call.record
    BY <1>1, <1>2 DEF IsCall
  <1>4. IsCall(call')
    <2>1. ASSUME NEW b \in BOOLEAN
          PROVE  IsCall([call EXCEPT !.step = "answered", !.valid = b])
      BY <1>2 DEF IsCall, CallSteps
    <2>2. (call.current = Root(anchor)) \in BOOLEAN
      OBVIOUS
    <2>. QED
      BY <1>1, <2>1, <2>2, Zenon
  <1>5. TypeOK' /\ ReceiptsKnown' /\ TreeFits'
    BY <1>1, <1>3, <1>4, KeepsTrees DEF Rebuilding
  <1>6. ProofFollowsPath'
    BY <1>1, <1>3
    DEF Inv, ProofFollowsPath, Rebuilding, Folding, Complete, Top, Sibling, RightChild
  <1>7. FoldFollowsPath'
    BY <1>1, <1>3 DEF Inv, FoldFollowsPath, Folding, FoldIsInjective, Intact, Committed
  <1>8. AnswerCompares'
    BY <1>1, <1>3 DEF AnswerCompares, Root, Top
  <1>. QED
    BY <1>5, <1>6, <1>7, <1>8 DEF Inv

-----------------------------------------------------------------------------
(* Theorems.                                                                *)

LEMMA StepInv == Inv /\ [Next]_vars => Inv'
  <1>. SUFFICES ASSUME Inv, [Next]_vars PROVE Inv'
    OBVIOUS
  <1>1. CASE BuildAnchor
    BY <1>1, BuildAnchorInv
  <1>2. CASE MarkAnchored
    BY <1>2, MarkAnchoredInv
  <1>3. CASE NewRecord
    BY <1>3, NewRecordInv
  <1>4. CASE \E p \in Positions, h \in Receipts : Reissue(p, h)
    BY <1>4, ReissueInv
  <1>5. CASE \E p \in Positions : ReadRecord(p)
    BY <1>5, ReadRecordInv
  <1>6. CASE ListBatch
    BY <1>6, ListBatchInv
  <1>7. CASE BuildTree
    BY <1>7, BuildTreeInv
  <1>8. CASE StartProof
    BY <1>8, StartProofInv
  <1>9. CASE AddSibling
    BY <1>9, AddSiblingInv
  <1>10. CASE StartVerification
    BY <1>10, StartVerificationInv
  <1>11. CASE FoldSibling
    BY <1>11, FoldSiblingInv
  <1>12. CASE Answer
    BY <1>12, AnswerInv
  <1>13. CASE UNCHANGED vars
    <2>1. UNCHANGED <<rows, newer, anchor, tree, call, proof>>
      BY <1>13 DEF vars
    <2>2. TypeOK'
      BY <2>1 DEF Inv, TypeOK, IsTree, IsCall, Positions, Size
    <2>3. ReceiptsKnown'
      BY <2>1 DEF Inv, ReceiptsKnown, KnownAs, Positions, Size, Committed, Complete, Top
    <2>. QED
      BY <2>1, <2>2, <2>3, KeepsCall DEF Inv
  <1>. QED
    BY <1>1, <1>2, <1>3, <1>4, <1>5, <1>6, <1>7, <1>8, <1>9, <1>10, <1>11, <1>12,
       <1>13 DEF Next

\* The invariant holds of batches, listings and tables of any size.
THEOREM Invariance == Spec => []Inv
  BY InitInv, StepInv, PTL DEF Spec

\* The trees are well formed level by level, and rows and calls have their types.
THEOREM TypeCorrect == Spec => []TypeOK
  <1>1. Inv => TypeOK
    BY DEF Inv
  <1>. QED
    BY <1>1, Invariance, PTL

\* A level of one node that is not the top does not exist.
LEMMA AnchorHeight ==
    ASSUME Inv, NEW k \in 0 .. anchor.height, anchor.level[k].width <= 1
    PROVE  k = anchor.height
  <1>1. anchor.height \in Nat
    BY DEF Inv, TypeOK, IsTree
  <1>2. \A j \in 0 .. anchor.height - 1 : anchor.level[j].width > 1
    BY DEF Inv, TypeOK, IsTree
  <1>3. anchor.level[k].width \in Nat
    BY DEF Inv, TypeOK, IsTree
  <1>. QED
    BY <1>1, <1>2, <1>3

\* What an answered call has folded.
LEMMA AnsweredFold ==
    ASSUME Inv, call.step = "answered"
    PROVE  /\ tree.height \in Nat /\ anchor.height \in Nat
           /\ call.folded = tree.height /\ tree.height <= anchor.height
           /\ tree.level[tree.height].width = 1
           /\ call.idx = 0
           /\ Complete(anchor) /\ anchor.level[anchor.height].width = 1
           /\ proof.at[0] \in Positions
  <1>1. /\ IsTree(tree) /\ IsTree(anchor)
        /\ tree.height <= anchor.height
        /\ \A k \in 0 .. tree.height : tree.level[k].width <= anchor.level[k].width
        /\ \A j \in 0 .. proof.length : proof.at[j] \in 0 .. tree.level[j].width - 1
        /\ proof.length = tree.height /\ Complete(tree) /\ Complete(anchor)
        /\ call.folded = proof.length /\ call.idx = proof.at[call.folded]
    BY DEF Inv, TypeOK, ReceiptsKnown, TreeFits, ProofFollowsPath, FoldFollowsPath,
           AnswerCompares, Rebuilding, Folding
  <1>2. /\ tree.height \in Nat /\ anchor.height \in Nat
        /\ tree.level[tree.height].width = 1
        /\ anchor.level[anchor.height].width = 1
    BY <1>1 DEF IsTree, Complete, Top
  <1>3. proof.at[0] \in Positions
    <2>1. tree.level[0].width \in Nat /\ anchor.level[0].width \in Nat
      BY <1>1, <1>2 DEF IsTree
    <2>. QED
      BY <1>1, <1>2, <2>1 DEF Positions, Size
  <1>. QED
    BY <1>1, <1>2, <1>3

\* Soundness of the proof endpoint: whatever happened to the rows and however
\* much of the batch the listing lost, a proof that is said to be valid is a
\* proof that this record's receipt was anchored (proof.py:135-139).
THEOREM ValidIsCommittedAlways == Spec => []ValidIsCommitted
  <1>1. ASSUME Inv, call.step = "answered", call.valid
        PROVE  /\ proof.at[0] = call.record
               /\ HashLeaf(call.receipt) = Committed(call.record)
    <2> DEFINE H == anchor.height
               d == H - call.folded
    <2>1. /\ H \in Nat /\ d \in 0 .. H /\ call.folded + d = H
          /\ call.idx = 0 /\ anchor.level[H].width = 1
          /\ proof.at[0] \in Positions
      BY <1>1, AnsweredFold
    <2>2. call.current = anchor.level[H].node[0]
      BY <1>1 DEF Inv, AnswerCompares, Root, Top
    <2>3. /\ FoldIsInjective
          /\ call.current = anchor.level[call.folded].node[call.idx] =>
               Committed(proof.at[0]) = HashLeaf(call.receipt)
      BY <1>1 DEF Inv, FoldFollowsPath, Folding
    <2>4. PICK q \in 0 .. anchor.level[d].width - 1 :
            anchor.level[d].node[q] = HashLeaf(call.receipt)
      BY <2>1, <2>2, <2>3 DEF FoldIsInjective
    <2>5. d = 0
      <3>1. SUFFICES ASSUME d # 0 PROVE FALSE
        OBVIOUS
      <3>2. PICK e \in 0 .. H - 1 : e + 1 = d
        <4>1. d - 1 \in 0 .. H - 1 /\ (d - 1) + 1 = d
          BY <2>1, <3>1
        <4>. QED
          BY <4>1
      <3>3. /\ anchor.level[e].width \in Nat \ {0}
            /\ anchor.level[e + 1] = NextLevel(anchor.level[e])
        BY <1>1, <2>1 DEF Inv, TypeOK, IsTree
      <3>4. /\ q \in 0 .. NextLevel(anchor.level[e]).width - 1
            /\ NextLevel(anchor.level[e]).node[q] = HashLeaf(call.receipt)
        BY <2>4, <3>2, <3>3
      <3>. QED
        BY <3>3, <3>4, NextLevelNodes, HashInjective
    <2>6. Committed(proof.at[0]) = HashLeaf(call.receipt)
      <3>1. call.folded = H
        BY <1>1, <2>1, <2>5, AnsweredFold
      <3>. QED
        BY <2>1, <2>2, <2>3, <3>1
    <2>7. /\ KnownAs(call.receipt, call.record)
          /\ \A i, j \in Positions : Committed(i) = Committed(j) => i = j
          /\ call.record \in Positions
      BY <1>1 DEF Inv, ReceiptsKnown, Rebuilding, TypeOK, IsCall
    <2>8. Committed(call.record) = HashLeaf(call.receipt)
      BY <2>1, <2>6, <2>7 DEF KnownAs
    <2>. QED
      BY <2>1, <2>6, <2>7, <2>8
  <1>2. Inv => ValidIsCommitted
    BY <1>1 DEF ValidIsCommitted
  <1>. QED
    BY <1>2, Invariance, PTL

\* Completeness: every leaf of a batch of any size has a valid proof as long
\* as the batch can be rebuilt (merkle.py:118-176).
THEOREM IntactIsValidAlways == Spec => []IntactIsValid
  <1>1. ASSUME Inv, call.step = "answered", Intact
        PROVE  call.valid
    <2>1. /\ tree.height \in Nat /\ tree.height \in 0 .. anchor.height
          /\ call.folded = tree.height /\ call.idx = 0
          /\ tree.level[tree.height].width = 1
      BY <1>1, AnsweredFold
    <2>2. tree.level[tree.height] = anchor.level[tree.height]
      BY <1>1, <2>1 DEF Inv, TreeFits, Rebuilding, Intact
    <2>3. tree.height = anchor.height
      BY <2>1, <2>2, AnchorHeight, <1>1
    <2>4. call.current = tree.level[tree.height].node[0]
      BY <1>1, <2>1 DEF Inv, FoldFollowsPath, Folding
    <2>5. call.current = Root(anchor)
      BY <2>2, <2>3, <2>4 DEF Root, Top
    <2>. QED
      BY <1>1, <2>5 DEF Inv, AnswerCompares
  <1>2. Inv => IntactIsValid
    BY <1>1 DEF IntactIsValid
  <1>. QED
    BY <1>2, Invariance, PTL
=============================================================================
