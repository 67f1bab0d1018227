---------------------------- MODULE MerkleProof -----------------------------
(***************************************************************************)
(* The Merkle tree of an anchored batch (backend/app/anchoring/merkle.py)  *)
(* and the endpoint that rebuilds it from the stored rows to prove that a  *)
(* record is in it (api/proof.py), while the rows may change.              *)
(*                                                                         *)
(* A digest is the term that computes it: <<h>> is the leaf of receipt     *)
(* hash h and <<l, r>> is SHA-256(l || r), so that different terms are     *)
(* different digests (no collisions).  Indices start at 0 as in the code.  *)
(***************************************************************************)
EXTENDS Integers, FiniteSets

CONSTANTS
    Receipts,    \* receipt hashes
    MaxBatch,    \* bound on the size of the batch
    ListLimit,   \* the listing of the proof endpoint (10000 in the code)
    MaxNewer,    \* bound on the records that are newer than the batch
    None

ASSUME BoundAssumption ==
    /\ MaxBatch \in Nat \ {0}
    /\ ListLimit \in Nat
    /\ MaxNewer \in Nat

VARIABLES
    rows,    \* the rows of the batch in (created_at, record_id) order
    newer,   \* how many records of the table are newer than the batch
    anchor,  \* the tree the anchoring service builds
    tree,    \* the tree the proof endpoint builds
    call,    \* the call of the proof endpoint
    proof    \* the proof it generates

vars == <<rows, newer, anchor, tree, call, proof>>

-----------------------------------------------------------------------------
(* Trees.  A level holds width nodes; levels 0 .. height exist so far.      *)

HashLeaf(receipt) == <<receipt>>
Hash(left, right) == <<left, right>>

LeafLevel(receipts, n) ==
    [width |-> n, node |-> [i \in 0 .. n - 1 |-> HashLeaf(receipts[i])]]

\* Faulty variant: an odd last node has no sibling and none is made up.
PromotedChild(level, i) ==
    IF i + 1 < level.width THEN level.node[i + 1] ELSE <<>>

\* The right child of the pair that starts at i: an odd last node is duplicated.
RightChild(level, i) ==
    IF i + 1 < level.width THEN level.node[i + 1] ELSE level.node[i]

NextLevel(level) ==
    LET width == (level.width + 1) \div 2
    IN  [width |-> width,
         node  |-> [i \in 0 .. width - 1 |->
                      Hash(level.node[2 * i], RightChild(level, 2 * i))]]

NewTree(leaves) == [height |-> 0, level |-> [k \in 0 .. 0 |-> leaves]]

Top(t)      == t.level[t.height]
Complete(t) == Top(t).width <= 1
Root(t)     == Top(t).node[0]

\* One round of the loop of build_merkle_tree.
Grown(t) ==
    [height |-> t.height + 1,
     level  |-> [k \in 0 .. t.height + 1 |->
                   IF k <= t.height THEN t.level[k] ELSE NextLevel(Top(t))]]

\* Faulty variant: the sibling is always the right neighbour.
RightSibling(level, i) == RightChild(level, i)

\* What generate_proof appends for the node at i.
Sibling(level, i) ==
    IF i % 2 = 0 THEN RightChild(level, i) ELSE level.node[i - 1]

\* Faulty variant: the sides are swapped.
FoldSwapped(current, sibling, i) ==
    IF i % 2 = 0 THEN Hash(sibling, current) ELSE Hash(current, sibling)

\* One round of the loop of verify_proof.
Fold(current, sibling, i) ==
    IF i % 2 = 0 THEN Hash(current, sibling) ELSE Hash(sibling, current)

-----------------------------------------------------------------------------
(* The batch.                                                               *)

Size      == anchor.level[0].width
Positions == 0 .. Size - 1
Committed(p) == anchor.level[0].node[p]

CallSteps == {"idle", "list", "build", "prove", "fold", "answered", "refused"}

NoCall  == [step |-> "idle", record |-> 0, receipt |-> None,
            folded |-> 0, idx |-> 0, current |-> <<>>, valid |-> FALSE]

\* at[j] is the index of the node on the path at level j.
NewProof(leaf_index) ==
    [length |-> 0, sibling |-> <<>>, at |-> [j \in 0 .. 0 |-> leaf_index]]

\* The service has selected a batch; different records have different hashes.
Init ==
    \E n \in 1 .. MaxBatch : \E h \in [0 .. n - 1 -> Receipts] :
        /\ \A i, j \in 0 .. n - 1 : h[i] = h[j] => i = j
        /\ rows = [p \in 0 .. n - 1 |-> [receipt |-> h[p], anchored |-> FALSE]]
        /\ newer = 0
        /\ anchor = NewTree(LeafLevel(h, n))
        /\ tree = NewTree(LeafLevel(h, n))
        /\ call = NoCall
        /\ proof = NewProof(0)

BuildAnchor ==
    /\ ~ Complete(anchor)
    /\ anchor' = Grown(anchor)
    /\ UNCHANGED <<rows, newer, tree, call, proof>>

\* mark_anchored gives the rows the root; rows that another run anchored in
\* the meantime keep the root they have.
MarkAnchored ==
    /\ Complete(anchor)
    /\ \A p \in Positions : ~ rows[p].anchored
    /\ \E S \in (SUBSET Positions) \ {{}} :
         rows' = [p \in Positions |->
                    IF p \in S THEN [rows[p] EXCEPT !.anchored = TRUE] ELSE rows[p]]
    /\ UNCHANGED <<newer, anchor, tree, call, proof>>

\* A later upsert of the same request replaces the receipt of a row and
\* keeps its place and its anchoring columns.
Reissue(p, h) ==
    /\ \A q \in Positions : rows[q].receipt # h /\ Committed(q) # HashLeaf(h)
    /\ rows' = [rows EXCEPT ![p].receipt = h]
    /\ UNCHANGED <<newer, anchor, tree, call, proof>>

NewRecord ==
    /\ newer < MaxNewer
    /\ newer' = newer + 1
    /\ UNCHANGED <<rows, anchor, tree, call, proof>>

-----------------------------------------------------------------------------
(* get_merkle_proof.                                                        *)

\* The record must be anchored.
ReadRecord(p) ==
    /\ call.step \in {"idle", "answered", "refused"}
    /\ call' = IF rows[p].anchored
               THEN [NoCall EXCEPT !.step = "list", !.record = p, !.receipt = rows[p].receipt]
               ELSE [NoCall EXCEPT !.step = "refused"]
    /\ proof' = NewProof(0)
    /\ UNCHANGED <<rows, newer, anchor, tree>>

\* The rows with the record's root among the newest ListLimit of the table.
Listed == {p \in Positions : rows[p].anchored /\ Size - p + newer <= ListLimit}

Before(p)   == {q \in Listed : q < p}
IthListed(i) == CHOOSE p \in Listed : Cardinality(Before(p)) = i

\* The listing, sorted again, gives the leaves; the record must be among them.
ListBatch ==
    /\ call.step = "list"
    /\ IF call.record \in Listed
       THEN LET n == Cardinality(Listed)
                receipts == [i \in 0 .. n - 1 |-> rows[IthListed(i)].receipt]
            IN  /\ tree' = NewTree(LeafLevel(receipts, n))
                /\ proof' = NewProof(Cardinality(Before(call.record)))
                /\ call' = [call EXCEPT !.step = "build"]
       ELSE /\ call' = [call EXCEPT !.step = "refused"]
            /\ UNCHANGED <<tree, proof>>
    /\ UNCHANGED <<rows, newer, anchor>>

BuildTree ==
    /\ call.step = "build"
    /\ ~ Complete(tree)
    /\ tree' = Grown(tree)
    /\ UNCHANGED <<rows, newer, anchor, call, proof>>

StartProof ==
    /\ call.step = "build"
    /\ Complete(tree)
    /\ call' = [call EXCEPT !.step = "prove"]
    /\ UNCHANGED <<rows, newer, anchor, tree, proof>>

\* One round of generate_proof: every level but the root's has a sibling.
AddSibling ==
    LET m == proof.length
        i == proof.at[m]
    IN  /\ call.step = "prove"
        /\ m < tree.height
        /\ proof' = [length  |-> m + 1,
                     sibling |-> [j \in 0 .. m |->
                                    IF j < m THEN proof.sibling[j]
                                    ELSE Sibling(tree.level[m], i)],
                     at      |-> [j \in 0 .. m + 1 |->
                                    IF j <= m THEN proof.at[j] ELSE i \div 2]]
        /\ UNCHANGED <<rows, newer, anchor, tree, call>>

StartVerification ==
    /\ call.step = "prove"
    /\ proof.length = tree.height
    /\ call' = [call EXCEPT !.step = "fold", !.folded = 0, !.idx = proof.at[0],
                            !.current = HashLeaf(call.receipt)]
    /\ UNCHANGED <<rows, newer, anchor, tree, proof>>

\* One round of verify_proof.
FoldSibling ==
    /\ call.step = "fold"
    /\ call.folded < proof.length
    /\ call' = [call EXCEPT
                  !.current = Fold(call.current, proof.sibling[call.folded], call.idx),
                  !.idx     = call.idx \div 2,
                  !.folded  = call.folded + 1]
    /\ UNCHANGED <<rows, newer, anchor, tree, proof>>

\* Faulty variant: the proof is compared with the root of the rebuilt tree.
AnswerByRebuiltRoot ==
    /\ call.step = "fold"
    /\ call.folded = proof.length
    /\ call' = [call EXCEPT !.step = "answered", !.valid = call.current = Root(tree)]
    /\ UNCHANGED <<rows, newer, anchor, tree, proof>>

\* The result is compared with the merkle_root of the row.
Answer ==
    /\ call.step = "fold"
    /\ call.folded = proof.length
    /\ call' = [call EXCEPT !.step = "answered", !.valid = call.current = Root(anchor)]
    /\ UNCHANGED <<rows, newer, anchor, tree, proof>>

Next ==
    \/ BuildAnchor \/ MarkAnchored \/ NewRecord
    \/ \E p \in Positions, h \in Receipts : Reissue(p, h)
    \/ \E p \in Positions : ReadRecord(p)
    \/ ListBatch \/ BuildTree \/ StartProof \/ AddSibling
    \/ StartVerification \/ FoldSibling \/ Answer

Spec == Init /\ [][Next]_vars

-----------------------------------------------------------------------------
(* The inductive invariant.                                                 *)

\* The type invariant: records, rows and counters; every level below the top
\* has at least two nodes and the next one is computed from it.
IsTree(t) ==
    /\ t.height \in Nat
    /\ \A k \in 0 .. t.height : t.level[k].width \in Nat \ {0}
    /\ \A k \in 0 .. t.height - 1 :
         t.level[k].width > 1 /\ t.level[k + 1] = NextLevel(t.level[k])

IsCall(c) ==
    c \in [step : CallSteps, record : Positions, receipt : Receipts \cup {None},
           folded : Nat, idx : Nat, current : {c.current}, valid : BOOLEAN]

TypeOK ==
    /\ IsTree(anchor)
    /\ IsTree(tree)
    /\ rows \in [Positions -> [receipt : Receipts, anchored : BOOLEAN]]
    /\ newer \in 0 .. MaxNewer
    /\ IsCall(call)

Rebuilding == {"build", "prove", "fold", "answered"}
Folding    == {"fold", "answered"}

\* A receipt of row p is the one that was committed for it, or is newer than
\* the whole batch; leaves are leaves and they are all different.
KnownAs(receipt, p) ==
    \/ Committed(p) = HashLeaf(receipt)
    \/ \A q \in Positions : Committed(q) # HashLeaf(receipt)

ReceiptsKnown ==
    /\ \A p, q \in Positions : Committed(p) = Committed(q) => p = q
    /\ \A p \in Positions : KnownAs(rows[p].receipt, p)
    /\ \A p \in Positions : rows[p].anchored => Complete(anchor)
    /\ call.step \in {"list"} \cup Rebuilding =>
         /\ Complete(anchor)
         /\ KnownAs(call.receipt, call.record)

\* The rebuilt tree is never larger, level for level, than the anchored one,
\* and equal to it while it has the same leaves.
TreeFits ==
    call.step \in Rebuilding =>
        /\ tree.height <= anchor.height
        /\ \A k \in 0 .. tree.height : tree.level[k].width <= anchor.level[k].width
        /\ tree.level[0] = anchor.level[0] =>
             \A k \in 0 .. tree.height : tree.level[k] = anchor.level[k]

\* The proof follows the path from its leaf upwards.
ProofFollowsPath ==
    call.step \in Rebuilding =>
        /\ proof.length \in 0 .. tree.height
        /\ \A j \in 0 .. proof.length : proof.at[j] \in 0 .. tree.level[j].width - 1
        /\ \A j \in 0 .. proof.length - 1 :
             /\ proof.at[j + 1] = proof.at[j] \div 2
             /\ proof.sibling[j] = Sibling(tree.level[j], proof.at[j])
        /\ call.step # "build" => Complete(tree)
        /\ call.step \in Folding => proof.length = tree.height

\* What is folded so far is a node of the anchored tree only if the receipt
\* is a node of it as many levels below.
FoldIsInjective ==
    \A d \in 0 .. anchor.height - call.folded :
        \A p \in 0 .. anchor.level[call.folded + d].width - 1 :
            call.current = anchor.level[call.folded + d].node[p] =>
                \E q \in 0 .. anchor.level[d].width - 1 :
                    anchor.level[d].node[q] = HashLeaf(call.receipt)

\* What the endpoint rebuilt is the batch as it was anchored.
Intact ==
    /\ tree.level[0] = anchor.level[0]
    /\ HashLeaf(call.receipt) = tree.level[0].node[proof.at[0]]

FoldFollowsPath ==
    call.step \in Folding =>
        /\ call.folded \in 0 .. proof.length
        /\ call.idx = proof.at[call.folded]
        /\ FoldIsInjective
        /\ call.current = anchor.level[call.folded].node[call.idx] =>
             Committed(proof.at[0]) = HashLeaf(call.receipt)
        /\ Intact => call.current = tree.level[call.folded].node[call.idx]

AnswerCompares ==
    call.step = "answered" =>
        /\ call.folded = proof.length
        /\ call.valid <=> call.current = Root(anchor)

\* The invariant: every fold of a proof stays on the path of one leaf, in the
\* rebuilt tree and, where the digests agree, in the anchored one
\* (merkle.py:90-176, proof.py:93-140).
Inv ==
    /\ TypeOK
    /\ ReceiptsKnown
    /\ TreeFits
    /\ ProofFollowsPath
    /\ FoldFollowsPath
    /\ AnswerCompares

-----------------------------------------------------------------------------
(* Properties.                                                              *)

\* An answer that says "valid" is about the receipt that was anchored for
\* this very record, at the leaf index it reports: neither a receipt issued
\* since nor a listing that lost rows is ever proved (proof.py:135-139).
ValidIsCommitted ==
    call.step = "answered" /\ call.valid =>
        /\ proof.at[0] = call.record
        /\ HashLeaf(call.receipt) = Committed(call.record)

\* Every leaf of a batch that is rebuilt as it was anchored has a valid
\* proof, the last one of an odd level included (merkle.py:100-176).
IntactIsValid ==
    call.step = "answered" /\ Intact => call.valid

\* Reference: the digest of the aligned block of 2^k leaves number i, given
\* those of half the size, where a block that starts behind the last leaf is a
\* copy of its left neighbour.
BlockLevel(k, half) ==
    [i \in 0 .. MaxBatch |->
       IF k = 0 THEN IF i < Size THEN Committed(i) ELSE <<>>
       ELSE IF (2 * i + 1) * 2 ^ (k - 1) < Size THEN Hash(half[2 * i], half[2 * i + 1])
       ELSE IF 2 * i * 2 ^ (k - 1) < Size THEN Hash(half[2 * i], half[2 * i])
       ELSE <<>>]

Block[k \in 0 .. MaxBatch] == BlockLevel(k, Block[k - 1])

\* The root the service publishes is the digest of the smallest block that
\* holds all leaves, odd levels padded with their last node (merkle.py:4-12).
RootIsReference ==
    Complete(anchor) =>
        LET k == CHOOSE h \in 0 .. MaxBatch :
                   2 ^ h >= Size /\ \A g \in 0 .. h - 1 : 2 ^ g < Size
        IN  Root(anchor) = Block[k][0]
=============================================================================
