-------------------------------- MODULE Pages ---------------------------------
(***************************************************************************)
(* What the pages of the browser share: the route (frontend/src/App.tsx),  *)
(* the receipts the backend has issued and the table of records, which has *)
(* one row for each request.  Receipts and rows are numbered in the order  *)
(* of their creation; the number of a row is its record id.                *)
(***************************************************************************)
EXTENDS Naturals, FiniteSets, Sequences

CONSTANTS
    MaxRequests,  \* bound on the requests, of which
    OwnRequests,  \* so many may be submitted in this tab
    MaxReceipts,  \* bound on the receipts issued
    Anchorable,   \* bound on what is ever anchored: some of the records
    None

Requests == 1 .. MaxRequests
Receipts == 1 .. MaxReceipts
Ids == 1 .. MaxRequests

ASSUME PagesAssumption ==
    /\ MaxRequests \in Nat
    /\ OwnRequests \in 0 .. MaxRequests
    /\ MaxReceipts \in Nat
    /\ None \notin Nat

\* "home" stands for the pages without requests or records of their own, and
\* for the anchoring page, which is AnchoringPage; "record" for /record/:recordId.
Routes == {"home", "verify", "result", "history", "record", "receipt"}

VARIABLES
    route,
    recordId,  \* the parameter of the route of a record
    receipts,  \* the request of each receipt, and which endpoint issued it
    rows,      \* the request of each record
    anchored   \* the records marked anchored

place == <<route, recordId>>
backend == <<receipts, rows, anchored>>

Issued == [request : Requests, repair : BOOLEAN]

PagesTypeOK ==
    /\ route \in Routes
    /\ recordId \in Ids \cup {None}
    /\ receipts \in Seq(Issued)
    /\ rows \in Seq(Requests)
    /\ anchored \in SUBSET Ids

PagesInit ==
    /\ route = "home"
    /\ recordId = None
    /\ receipts = <<>>
    /\ rows = <<>>
    /\ anchored = {}

Created == Len(rows)
NextReceipt == Len(receipts) + 1

\* An endpoint issues a receipt and upserts the record of its request, which
\* keeps its place in the listings and its anchor.
Issue(q, isRepair) ==
    /\ Len(receipts) < MaxReceipts
    /\ receipts' = Append(receipts, [request |-> q, repair |-> isRepair])
    /\ rows' = IF \E i \in DOMAIN rows : rows[i] = q THEN rows ELSE Append(rows, q)
    /\ UNCHANGED anchored

\* Another client's verification.
IssueElsewhere ==
    \E q \in OwnRequests + 1 .. MaxRequests : (\A i \in DOMAIN rows : rows[i] # q) /\ Issue(q, FALSE)

Anchor(i) ==
    /\ i \in DOMAIN rows \cap Anchorable
    /\ i \notin anchored
    /\ anchored' = anchored \cup {i}
    /\ UNCHANGED <<receipts, rows>>
=============================================================================
