---------------------------- MODULE AnchoringPage -----------------------------
(***************************************************************************)
(* The anchoring page (frontend/src/pages/Anchoring.tsx): it lists the     *)
(* newest records, lets the user select unanchored ones, posts them to be  *)
(* anchored, lists again, and asks for inclusion proofs.  Every await lets *)
(* the user, the server and other clients act before its continuation      *)
(* runs.  The anchoring run itself is in RecordStore and the proof in      *)
(* MerkleProof; here a run selects a batch and later answers.              *)
(*                                                                         *)
(* Records are numbered in the order of their creation.  A record stands   *)
(* for its receipt hash, and the root of a tree for the set of its leaves. *)
(***************************************************************************)
EXTENDS Naturals, FiniteSets

CONSTANTS
    MaxRecords,  \* bound on the records ever created
    Window,      \* records of one listing (200)
    ProofRows,   \* anchored records with a proof button (20)
    Fetches,     \* proof requests that may be in flight at once
    MaxVisits,   \* bound on how often the page is mounted
    None

ASSUME PageAssumption ==
    /\ MaxRecords \in Nat
    /\ Window \in Nat
    /\ ProofRows \in Nat
    /\ MaxVisits \in Nat

Records == 1 .. MaxRecords

ASSUME NoneAssumption == None \notin Records

VARIABLES
    server,  \* what the backend and the ledger hold
    page,    \* the React state of the page
    load,    \* the listing in flight
    call,    \* the POST /anchor in flight
    proofs,  \* the proof requests in flight
    crossed, \* history: the last proof was asked for with another in flight
    visits

vars == <<server, page, load, call, proofs, crossed, visits>>

\* The string "none" is the status of no answer; "failed" comes with a 200.
Statuses == {"none", "anchored", "no_records_to_anchor", "failed"}
Faults == {"none", "notConfigured", "failed"}
Verdicts == {"none", "valid", "invalid"}

Server == [created  : 0 .. MaxRecords,
           anchored : SUBSET Records,  \* rows marked anchored
           ledger   : SUBSET Records]  \* leaves of confirmed roots

Page == [listed       : SUBSET Records,  \* allRecords
         anchored     : SUBSET Records,  \* anchoredRecords
         loading      : BOOLEAN,
         loadError    : BOOLEAN,
         selected     : SUBSET Records,
         running      : BOOLEAN,
         status       : Statuses,        \* anchorResult
         batch        : SUBSET Records,  \* the leaves of its root
         fault        : Faults,          \* anchorError, notConfigured
         leaves       : SUBSET Records,  \* leafHashes
         proofId      : Records \cup {None},
         proof        : Records \cup {None},  \* proofResult
         verdict      : Verdicts,
         proofLoading : BOOLEAN,
         proofError   : BOOLEAN]

Load == [step     : {"none", "sent", "listed", "error"},
         refresh  : BOOLEAN,  \* after a POST /anchor, not at the mount
         listed   : SUBSET Records,
         anchored : SUBSET Records]

Call == [step  : {"none", "sent", "selected", "answered", "unavailable", "error"},
         ids   : SUBSET Records,
         batch : SUBSET Records,  \* the leaves of the root
         status: Statuses]

Proof == [step : {"none", "sent", "valid", "invalid", "error"},
          of   : Records \cup {None}]

TypeOK ==
    /\ server \in Server
    /\ page \in Page
    /\ load \in Load
    /\ call \in Call
    /\ proofs \in [Fetches -> Proof]
    /\ crossed \in BOOLEAN
    /\ visits \in 0 .. MaxVisits

FreshPage ==
    [listed |-> {}, anchored |-> {}, loading |-> TRUE, loadError |-> FALSE,
     selected |-> {}, running |-> FALSE, status |-> "none", batch |-> {},
     fault |-> "none", leaves |-> {}, proofId |-> None, proof |-> None,
     verdict |-> "none", proofLoading |-> FALSE, proofError |-> FALSE]

\* A listing answers with what the server holds when it is served.
SentLoad(refresh) == [step |-> "sent", refresh |-> refresh, listed |-> {}, anchored |-> {}]
NoLoad == [step |-> "none", refresh |-> FALSE, listed |-> {}, anchored |-> {}]
NoCall == [step |-> "none", ids |-> {}, batch |-> {}, status |-> "none"]
NoProof == [step |-> "none", of |-> None]

Init ==
    /\ \E n \in 0 .. MaxRecords : \E A \in SUBSET (1 .. n) :
         server = [created |-> n, anchored |-> A, ledger |-> A]
    /\ page = FreshPage
    /\ load = SentLoad(FALSE)
    /\ call = NoCall
    /\ proofs = [f \in Fetches |-> NoProof]
    /\ crossed = FALSE
    /\ visits = 0

\* The user leaves and comes back.  The cleanup cancels the listing, and the
\* other continuations set the state of a page that is gone.  The server goes
\* on with a POST it has: AnchorElsewhere.
Remount ==
    /\ visits < MaxVisits
    /\ visits' = visits + 1
    /\ page' = FreshPage
    /\ load' = SentLoad(FALSE)
    /\ call' = NoCall
    /\ proofs' = [f \in Fetches |-> NoProof]
    /\ crossed' = FALSE
    /\ UNCHANGED server

-----------------------------------------------------------------------------
(* What the page shows.                                                      *)

Unanchored == page.listed \ page.anchored

\* allSelected compares sizes only.
AllSelected == Unanchored # {} /\ Cardinality(page.selected) = Cardinality(Unanchored)

SelectAllShown == Unanchored # {}

TableShown == ~page.loading /\ ~page.loadError /\ Unanchored # {}

AnchorEnabled == TableShown /\ ~page.running /\ page.selected # {}

\* "Anchored on Algorand TestNet", with the pill "confirmed": every status but
\* "no_records_to_anchor".
ConfirmedShown == page.status \notin {"none", "no_records_to_anchor"}

\* "Every local verification record is already anchored, or none exist yet",
\* though the service looked at the selected ones only.
NothingReported == page.status = "no_records_to_anchor"

\* The record_ids of an answer: a failed run has a root and a leaf count only.
RecordIds(answer) == IF answer.status = "anchored" THEN answer.batch ELSE {}

\* "Anchored records": the ids of the answer, each with a link to its page.
AnchoredReported == IF ConfirmedShown THEN RecordIds(page) ELSE {}

\* MerkleTreeView, which stands for nothing without a root or leaves.
Tree(leaves, root) == IF root = {} THEN {} ELSE leaves

\* The leaves drawn under the root of the result.
LeavesDrawn == IF ConfirmedShown THEN Tree(page.leaves, page.batch) ELSE {}

\* The table of proofs has the newest anchored records of the listing.
ProofTable ==
    {r \in page.anchored : Cardinality({s \in page.anchored : s > r}) < ProofRows}

\* "Get proof" is disabled for the record whose proof is being generated.
ProofEnabled(r) == r \in ProofTable /\ ~(page.proofLoading /\ page.proofId = r)

\* "PROOF VALID" or "PROOF INVALID", with a link to the record proved.
ProofShown == page.proof # None

-----------------------------------------------------------------------------
(* Listings.                                                                 *)

Newest == {r \in 1 .. server.created : r + Window > server.created}

ServeLoad ==
    /\ load.step = "sent"
    /\ load' = [load EXCEPT !.step = "listed", !.listed = Newest,
                            !.anchored = Newest \cap server.anchored]
    /\ UNCHANGED <<server, page, call, proofs, crossed, visits>>

LoadFails ==
    /\ load.step = "sent"
    /\ load' = [load EXCEPT !.step = "error"]
    /\ UNCHANGED <<server, page, call, proofs, crossed, visits>>

\* The effect of the mount and refreshRecords: a failure keeps the old list.
Listed == [page EXCEPT !.listed = load.listed, !.anchored = load.anchored, !.loading = FALSE]
\* Faulty variant: only a listing that arrives ends the loading.
NotListedLoading == [page EXCEPT !.loadError = TRUE]

NotListed == [page EXCEPT !.loadError = TRUE, !.loading = FALSE]

DeliverMount ==
    /\ ~load.refresh
    /\ \/ load.step = "listed" /\ page' = Listed
       \/ load.step = "error" /\ page' = NotListed
    /\ load' = NoLoad
    /\ UNCHANGED <<server, call, proofs, crossed, visits>>

\* Faulty variant: the selection survives the new list.
RefreshKeepsSelection ==
    /\ load.refresh
    /\ \/ load.step = "listed" /\ page' = [Listed EXCEPT !.running = FALSE]
       \/ load.step = "error" /\ page' = [NotListed EXCEPT !.running = FALSE]
    /\ load' = NoLoad
    /\ UNCHANGED <<server, call, proofs, crossed, visits>>

\* refreshRecords never rejects, so that onAnchor always clears the selection.
DeliverRefresh ==
    /\ load.refresh
    /\ \/ load.step = "listed" /\ page' = [Listed EXCEPT !.selected = {}, !.running = FALSE]
       \/ load.step = "error" /\ page' = [NotListed EXCEPT !.selected = {}, !.running = FALSE]
    /\ load' = NoLoad
    /\ UNCHANGED <<server, call, proofs, crossed, visits>>

-----------------------------------------------------------------------------
(* Selecting and anchoring.                                                  *)

ToggleSelect(r) ==
    /\ TableShown
    /\ r \in Unanchored
    /\ page' = [page EXCEPT !.selected = IF r \in @ THEN @ \ {r} ELSE @ \cup {r}]
    /\ UNCHANGED <<server, load, call, proofs, crossed, visits>>

\* Faulty variant: everything on the page is selected.
SelectListed ==
    /\ SelectAllShown
    /\ page' = [page EXCEPT !.selected = IF AllSelected THEN {} ELSE page.listed]
    /\ UNCHANGED <<server, load, call, proofs, crossed, visits>>

\* The button above the table, which a listing in flight or failed leaves.
SelectAll ==
    /\ SelectAllShown
    /\ page' = [page EXCEPT !.selected = IF AllSelected THEN {} ELSE Unanchored]
    /\ UNCHANGED <<server, load, call, proofs, crossed, visits>>

\* Faulty variant: the leaves are those of the whole list.
OnAnchorAllLeaves ==
    /\ AnchorEnabled
    /\ page' = [page EXCEPT !.running = TRUE, !.status = "none", !.batch = {},
                            !.fault = "none", !.leaves = Unanchored]
    /\ call' = [NoCall EXCEPT !.step = "sent", !.ids = page.selected]
    /\ UNCHANGED <<server, load, proofs, crossed, visits>>

OnAnchor ==
    /\ AnchorEnabled
    /\ page' = [page EXCEPT !.running = TRUE, !.status = "none", !.batch = {},
                            !.fault = "none", !.leaves = Unanchored \cap page.selected]
    /\ call' = [NoCall EXCEPT !.step = "sent", !.ids = page.selected]
    /\ UNCHANGED <<server, load, proofs, crossed, visits>>

\* The service keeps the requested records that are still unanchored.
SelectBatch ==
    /\ call.step = "sent"
    /\ call' = IF call.ids \subseteq server.anchored
               THEN [call EXCEPT !.step = "answered", !.status = "no_records_to_anchor"]
               ELSE [call EXCEPT !.step = "selected", !.batch = call.ids \ server.anchored]
    /\ UNCHANGED <<server, page, load, proofs, crossed, visits>>

\* Faulty variant: a transaction that is not confirmed is reported as anchored.
SubmitUnconfirmed ==
    /\ call.step = "selected"
    /\ call' = [call EXCEPT !.step = "answered", !.status = "anchored"]
    /\ \E L \in {{}, call.batch} : server' = [server EXCEPT !.ledger = @ \cup L]
    /\ UNCHANGED <<page, load, proofs, crossed, visits>>

SubmitBatch ==
    /\ call.step = "selected"
    /\ call' = [call EXCEPT !.step = "answered", !.status = "anchored"]
    /\ server' = [server EXCEPT !.anchored = @ \cup call.batch, !.ledger = @ \cup call.batch]
    /\ UNCHANGED <<page, load, proofs, crossed, visits>>

\* The transaction is refused, or not confirmed in time: a 200 that says "failed",
\* with the root that was to be anchored and no record ids.
SubmitFails ==
    /\ call.step = "selected"
    /\ call' = [call EXCEPT !.step = "answered", !.status = "failed"]
    /\ \E L \in {{}, call.batch} : server' = [server EXCEPT !.ledger = @ \cup L]
    /\ UNCHANGED <<page, load, proofs, crossed, visits>>

\* A 503 without an anchor key; a 500, or an answer that is lost, whatever the
\* server did or goes on to do.
CallFails ==
    /\ \/ call.step = "sent" /\ call' = [call EXCEPT !.step = "unavailable"]
       \/ call.step \in {"sent", "selected", "answered"} /\ call' = [call EXCEPT !.step = "error"]
    /\ UNCHANGED <<server, page, load, proofs, crossed, visits>>

DeliverResult ==
    /\ call.step = "answered"
    /\ page' = [page EXCEPT !.status = call.status, !.batch = call.batch,
                            !.loading = TRUE, !.loadError = FALSE]
    /\ load' = SentLoad(TRUE)
    /\ call' = NoCall
    /\ UNCHANGED <<server, proofs, crossed, visits>>

\* No listing after an error: list and selection stay as they are.
DeliverFault ==
    /\ call.step \in {"unavailable", "error"}
    /\ page' = [page EXCEPT !.running = FALSE,
                            !.fault = IF call.step = "unavailable" THEN "notConfigured" ELSE "failed"]
    /\ call' = NoCall
    /\ UNCHANGED <<server, load, proofs, crossed, visits>>

-----------------------------------------------------------------------------
(* Inclusion proofs.                                                         *)

InFlight == {f \in Fetches : proofs[f].step # "none"}

\* Faulty variant: the last proof stays on the page while the next is made.
GenerateKeepsProof(f, r) ==
    /\ ProofEnabled(r)
    /\ proofs[f].step = "none"
    /\ page' = [page EXCEPT !.proofId = r, !.proofLoading = TRUE, !.proofError = FALSE]
    /\ proofs' = [proofs EXCEPT ![f] = [step |-> "sent", of |-> r]]
    /\ crossed' = (InFlight # {})
    /\ UNCHANGED <<server, load, call, visits>>

OnGenerateProof(f, r) ==
    /\ ProofEnabled(r)
    /\ proofs[f].step = "none"
    /\ page' = [page EXCEPT !.proofId = r, !.proofLoading = TRUE, !.proofError = FALSE,
                            !.proof = None, !.verdict = "none"]
    /\ proofs' = [proofs EXCEPT ![f] = [step |-> "sent", of |-> r]]
    /\ crossed' = (InFlight # {})
    /\ UNCHANGED <<server, load, call, visits>>

\* 400 for a record that is not anchored; a proof need not verify (MerkleProof).
ServeProof(f) ==
    /\ proofs[f].step = "sent"
    /\ \E s \in IF proofs[f].of \in server.anchored THEN {"valid", "invalid", "error"} ELSE {"error"} :
         proofs' = [proofs EXCEPT ![f].step = s]
    /\ UNCHANGED <<server, page, load, call, crossed, visits>>

\* The answer of any request in flight goes to the page as it comes.
DeliverProof(f) ==
    /\ \/ /\ proofs[f].step \in {"valid", "invalid"}
          /\ page' = [page EXCEPT !.proof = proofs[f].of, !.verdict = proofs[f].step,
                                  !.proofLoading = FALSE]
       \/ /\ proofs[f].step = "error"
          /\ page' = [page EXCEPT !.proofError = TRUE, !.proofLoading = FALSE]
    /\ proofs' = [proofs EXCEPT ![f] = NoProof]
    /\ UNCHANGED <<server, load, call, crossed, visits>>

-----------------------------------------------------------------------------
(* Other clients.                                                            *)

NewRecord ==
    /\ server.created < MaxRecords
    /\ server' = [server EXCEPT !.created = @ + 1]
    /\ UNCHANGED <<page, load, call, proofs, crossed, visits>>

AnchorElsewhere ==
    /\ \E B \in SUBSET (1 .. server.created) :
         server' = [server EXCEPT !.anchored = @ \cup B, !.ledger = @ \cup B]
    /\ UNCHANGED <<page, load, call, proofs, crossed, visits>>

ServeAnchor == SelectBatch \/ SubmitBatch \/ SubmitFails \/ CallFails
DeliverAnchor == DeliverResult \/ DeliverFault
ListRecords == ServeLoad \/ LoadFails \/ DeliverMount \/ DeliverRefresh

Next ==
    \/ ListRecords
    \/ \E r \in Records : ToggleSelect(r)
    \/ SelectAll \/ OnAnchor
    \/ ServeAnchor \/ DeliverAnchor
    \/ \E f \in Fetches : \E r \in Records : OnGenerateProof(f, r)
    \/ \E f \in Fetches : ServeProof(f) \/ DeliverProof(f)
    \/ NewRecord \/ AnchorElsewhere \/ Remount

Spec == Init /\ [][Next]_vars

\* The server answers or the fetch rejects, and the browser runs the
\* continuation; nothing makes the user act.
Fairness ==
    /\ WF_vars(ListRecords)
    /\ WF_vars(ServeAnchor)
    /\ WF_vars(DeliverAnchor)
    /\ \A f \in Fetches : WF_vars(ServeProof(f)) /\ WF_vars(DeliverProof(f))

FairSpec == Spec /\ Fairness

-----------------------------------------------------------------------------
(* Properties.                                                               *)

\* The buttons and the awaits keep the page's requests apart: the page is busy
\* exactly while one is in flight, and a POST never overlaps a listing.
RequestsApart ==
    /\ page.loading <=> load.step # "none"
    /\ page.running <=> call.step # "none" \/ (load.step # "none" /\ load.refresh)
    /\ call.step # "none" => load.step = "none" /\ page.status = "none"
    /\ load.step # "none" /\ ~load.refresh => page.listed = {} /\ page.anchored = {}

\* Only unanchored records of the list on the page are selected.
SelectionFresh == page.selected \subseteq Unanchored

\* The service's batch is what was still to be anchored of the page's leaves.
CallCoherent ==
    /\ call.step # "none" => call.ids = page.leaves
    /\ call.batch \subseteq call.ids
    /\ call.step \in {"selected", "answered"} => call.ids \ call.batch \subseteq server.anchored
    /\ call.step \in {"none", "sent"} => call.status = "none" /\ call.batch = {}
    /\ call.step = "selected" => call.status = "none" /\ call.batch # {}
    /\ call.status = "anchored" => call.batch # {} /\ call.batch \subseteq server.anchored
    /\ call.status = "no_records_to_anchor" => call.batch = {}

\* What is anchored stays so: no answer on its way, however late, overstates it.
AnswersTrue ==
    /\ server.anchored \subseteq server.ledger
    /\ load.anchored \subseteq load.listed \cap server.anchored
    /\ \A f \in Fetches : proofs[f].step \in {"valid", "invalid"} => proofs[f].of \in server.anchored

OneUncrossed == ~crossed => \A f, g \in InFlight : f = g

Inv ==
    /\ TypeOK
    /\ RequestsApart
    /\ SelectionFresh
    /\ CallCoherent
    /\ AnswersTrue
    /\ OneUncrossed

\* "Clear selection" stands where "Select all" did only when all is selected:
\* allSelected compares the sizes of two sets, of which a refresh replaces one
\* while the other is reset by onAnchor.
AllSelectedIsAll == AllSelected => page.selected = Unanchored

\* Whatever the page calls anchored, in the list, in the result of a run or by
\* a proof, is anchored on the server and under a root on the ledger.
ShownIsAnchored ==
    /\ page.anchored \subseteq server.anchored \cap server.ledger
    /\ page.status = "anchored" => page.batch \subseteq server.anchored \cap server.ledger
    /\ ProofShown => page.proof \in server.anchored \cap server.ledger

\* The leaves drawn under a new root are those of its batch and of records that
\* were anchored before it, and a run that finds nothing to anchor found all of
\* them anchored: none is left out, though list, selection and server changed
\* while the POST was under way.
LeavesAccounted ==
    /\ page.status = "anchored" => AnchoredReported # {} /\ AnchoredReported \subseteq LeavesDrawn
    /\ page.status = "anchored" \/ NothingReported => page.leaves \subseteq server.anchored

\* A proof on the page is that of the highlighted record, the spinner turns
\* exactly while its request is in flight, and proof, error and spinner exclude
\* one another, unless a second proof was asked for before the first arrived.
ProofOfHighlight ==
    ~crossed =>
        /\ page.proof \in {None, page.proofId}
        /\ page.proofLoading <=> InFlight # {}
        /\ \A f \in InFlight : proofs[f].of = page.proofId
        /\ page.proofLoading => page.proof = None /\ ~page.proofError
        /\ page.proofError => page.proof = None

\* A run and a listing end, whatever fails: the button is usable again and the
\* page does not load for ever (Anchoring.tsx:144-157, 228-237).
WaitingEnds ==
    /\ page.running ~> ~page.running
    /\ page.loading ~> ~page.loading
=============================================================================
