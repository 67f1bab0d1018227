----------------------------- MODULE RecordPages ------------------------------
(***************************************************************************)
(* The pages that show records and receipts: History lists the server's    *)
(* records page by page, RecordDetail shows one record with its proof, and *)
(* ReceiptVerify checks a receipt.  History and RecordDetail load in       *)
(* effects whose cleanup cancels the request before: its answer, with      *)
(* which nothing is done, is left out.                                     *)
(***************************************************************************)
EXTENDS Pages

CONSTANTS
    PageSize,  \* rows of one page of History (25)
    TotalCap   \* records the backend counts (1000)

ASSUME ListingAssumption ==
    /\ PageSize \in Nat \ {0}
    /\ TotalCap \in Nat

VARIABLES
    history,     \* the React state of History
    listing,     \* its GET /records
    detail,      \* the React state of RecordDetail
    recordLoad,  \* its GET /records/{id}
    proofLoad,   \* its GET /anchor/proof/{id}
    receipt,     \* the React state of ReceiptVerify
    check        \* its POST /receipt/verify

recordVars == <<history, listing, detail, recordLoad, proofLoad, receipt, check>>

PageNumbers == 0 .. MaxRequests

HistoryState == [source  : {"server", "session"},
                 page    : PageNumbers,
                 listed  : SUBSET Ids,
                 total   : 0 .. MaxRequests,
                 loading : BOOLEAN,
                 error   : BOOLEAN,
                 shown   : PageNumbers \cup {None},  \* history: the page listed
                 log     : SUBSET Receipts]  \* the session log as it was at the mount

Listing == [step : {"none", "sent", "counted", "listed", "error"},
            listed : SUBSET Ids, total : 0 .. MaxRequests]

DetailState == [record       : Ids \cup {None},
                anchored     : BOOLEAN,  \* the status in the record loaded
                loading      : BOOLEAN,
                error        : BOOLEAN,
                proof        : Ids \cup {None},
                proofLoading : BOOLEAN,
                proofError   : BOOLEAN]

RecordLoad == [step : {"none", "sent", "found", "error"}, anchored : BOOLEAN]
ProofSteps == {"none", "sent", "answered", "error"}

\* The receipt in the text, or None for a text that is none.
Texts == Receipts \cup {None}

ReceiptState == [text     : Texts,
                 checking : BOOLEAN,
                 result   : Texts,    \* the receipt the verdict shown is about
                 error    : BOOLEAN]

Check == [step : {"none", "sent", "answered", "error"}, of : Texts]

RecordTypeOK ==
    /\ history \in HistoryState
    /\ listing \in Listing
    /\ detail \in DetailState
    /\ recordLoad \in RecordLoad
    /\ proofLoad \in ProofSteps
    /\ receipt \in ReceiptState
    /\ check \in Check

\* The effect of the mount starts the first listing.
NewHistory(l) == [source |-> "server", page |-> 0, listed |-> {}, total |-> 0,
                  loading |-> TRUE, error |-> FALSE, shown |-> None, log |-> l]
NoListing == [step |-> "none", listed |-> {}, total |-> 0]
SentListing == [NoListing EXCEPT !.step = "sent"]

FreshDetail == [record |-> None, anchored |-> FALSE, loading |-> TRUE, error |-> FALSE,
                proof |-> None, proofLoading |-> FALSE, proofError |-> FALSE]
NoRecordLoad == [step |-> "none", anchored |-> FALSE]
SentRecordLoad == [NoRecordLoad EXCEPT !.step = "sent"]

NewReceipt(t) == [text |-> t, checking |-> FALSE, result |-> None, error |-> FALSE]
NoCheck == [step |-> "none", of |-> None]

\* The state of the pages after a navigation to a route that is none of them,
\* or is mounted by it; t is the receipt in the state of /verify-receipt, and l what
\* the session log has when History reads it.
MountRecordPages(to, t, l) ==
    /\ history' = NewHistory(IF to = "history" THEN l ELSE {})
    /\ listing' = IF to = "history" THEN SentListing ELSE NoListing
    /\ detail' = FreshDetail
    /\ recordLoad' = IF to = "record" THEN SentRecordLoad ELSE NoRecordLoad
    /\ proofLoad' = "none"
    /\ receipt' = NewReceipt(t)
    /\ check' = NoCheck

RecordInit ==
    /\ history = NewHistory({})
    /\ listing = NoListing
    /\ detail = FreshDetail
    /\ recordLoad = NoRecordLoad
    /\ proofLoad = "none"
    /\ receipt = NewReceipt(None)
    /\ check = NoCheck

-----------------------------------------------------------------------------
(* History.                                                                  *)

\* Faulty variant: the offset has a row too many for every page before.
PageRowsApart(p) == {i \in DOMAIN rows : /\ i + p * (PageSize + 1) <= Created
                                          /\ Created < i + p * (PageSize + 1) + PageSize}

\* list_records: newest first.
PageRows(p) == {i \in DOMAIN rows : /\ i + p * PageSize <= Created
                                     /\ Created < i + (p + 1) * PageSize}

Total == IF Created < TotalCap THEN Created ELSE TotalCap

\* The total is that of one long listing, made before the one of the page.
CountRecords ==
    /\ listing.step = "sent"
    /\ listing' = [listing EXCEPT !.step = "counted", !.total = Total]
    /\ UNCHANGED <<history, detail, recordLoad, proofLoad, receipt, check>>

ServeListing ==
    /\ listing.step = "counted"
    /\ listing' = [listing EXCEPT !.step = "listed", !.listed = PageRows(history.page)]
    /\ UNCHANGED <<history, detail, recordLoad, proofLoad, receipt, check>>

ListingFails ==
    /\ listing.step \in {"sent", "counted"}
    /\ listing' = [listing EXCEPT !.step = "error"]
    /\ UNCHANGED <<history, detail, recordLoad, proofLoad, receipt, check>>

DeliverListing ==
    /\ \/ /\ listing.step = "listed"
          /\ history' = [history EXCEPT !.listed = listing.listed, !.total = listing.total,
                                        !.loading = FALSE, !.shown = history.page]
       \/ /\ listing.step = "error"
          /\ history' = [history EXCEPT !.error = TRUE, !.loading = FALSE]
    /\ listing' = NoListing
    /\ UNCHANGED <<detail, recordLoad, proofLoad, receipt, check>>

HistoryShown == route = "history" /\ history.source = "server"
RowsShown == IF HistoryShown /\ ~history.loading /\ ~history.error THEN history.listed ELSE {}
EmptyShown == HistoryShown /\ ~history.loading /\ ~history.error /\ history.listed = {}

\* Previous, Page n of totalPages, Next; totalPages is the total by PageSize,
\* rounded up.  They stand below rows only.
PagerShown == RowsShown # {} /\ history.total > PageSize
NextEnabled == PagerShown /\ (history.page + 1) * PageSize < history.total
PreviousEnabled == PagerShown /\ history.page # 0

\* Faulty variant: the effect does not depend on the page.
TurnPageUnlisted(p) ==
    /\ \/ p = history.page + 1 /\ NextEnabled
       \/ p + 1 = history.page /\ PreviousEnabled
    /\ history' = [history EXCEPT !.page = p]
    /\ UNCHANGED <<listing, detail, recordLoad, proofLoad, receipt, check>>

TurnPage(p) ==
    /\ \/ p = history.page + 1 /\ NextEnabled
       \/ p + 1 = history.page /\ PreviousEnabled
    /\ history' = [history EXCEPT !.page = p, !.loading = TRUE, !.error = FALSE]
    /\ listing' = SentListing
    /\ UNCHANGED <<detail, recordLoad, proofLoad, receipt, check>>

\* "This browser session": the session log as it was when the page was mounted.
SessionRows == IF route = "history" /\ history.source = "session" THEN history.log ELSE {}

ShowSession ==
    /\ HistoryShown
    /\ history' = [history EXCEPT !.source = "session"]
    /\ listing' = NoListing
    /\ UNCHANGED <<detail, recordLoad, proofLoad, receipt, check>>

ShowServer ==
    /\ route = "history" /\ history.source = "session"
    /\ history' = [history EXCEPT !.source = "server", !.loading = TRUE, !.error = FALSE]
    /\ listing' = SentListing
    /\ UNCHANGED <<detail, recordLoad, proofLoad, receipt, check>>

-----------------------------------------------------------------------------
(* RecordDetail.                                                             *)

\* The effects for another id on the same page: the record there is still the
\* old one, and if it is anchored the proof of the new one is asked for at once.
SwitchRecord(to) ==
    /\ route = "record"
    /\ to # recordId
    /\ recordLoad' = SentRecordLoad
    /\ IF detail.record # None /\ detail.anchored
       THEN /\ detail' = [detail EXCEPT !.loading = TRUE, !.error = FALSE,
                                        !.proofLoading = TRUE, !.proofError = FALSE]
            /\ proofLoad' = "sent"
       ELSE /\ detail' = [detail EXCEPT !.loading = TRUE, !.error = FALSE]
            /\ proofLoad' = "none"
    /\ UNCHANGED <<history, listing, receipt, check>>

ServeRecord ==
    /\ recordLoad.step = "sent"
    /\ \/ /\ recordId \in DOMAIN rows
          /\ recordLoad' = [step |-> "found", anchored |-> recordId \in anchored]
       \/ recordLoad' = [recordLoad EXCEPT !.step = "error"]
    /\ UNCHANGED <<history, listing, detail, proofLoad, receipt, check>>

\* Faulty variant: the proof is asked for only when there is none yet.
DeliverRecordWithProof ==
    /\ recordLoad.step = "found"
    /\ recordLoad' = NoRecordLoad
    /\ IF recordLoad.anchored /\ detail.proof = None
       THEN /\ detail' = [detail EXCEPT !.record = recordId, !.anchored = TRUE, !.loading = FALSE,
                                        !.proofLoading = TRUE, !.proofError = FALSE]
            /\ proofLoad' = "sent"
       ELSE /\ detail' = [detail EXCEPT !.record = recordId, !.anchored = recordLoad.anchored,
                                        !.loading = FALSE]
            /\ proofLoad' = "none"
    /\ UNCHANGED <<history, listing, receipt, check>>

\* The effect on the record cancels the proof under way.  Of a record that is
\* not anchored none is asked for, and nothing is reset.
DeliverRecord ==
    /\ recordLoad.step = "found"
    /\ recordLoad' = NoRecordLoad
    /\ IF recordLoad.anchored
       THEN /\ detail' = [detail EXCEPT !.record = recordId, !.anchored = TRUE, !.loading = FALSE,
                                        !.proofLoading = TRUE, !.proofError = FALSE]
            /\ proofLoad' = "sent"
       ELSE /\ detail' = [detail EXCEPT !.record = recordId, !.anchored = FALSE, !.loading = FALSE]
            /\ proofLoad' = "none"
    /\ UNCHANGED <<history, listing, receipt, check>>

DeliverRecordError ==
    /\ recordLoad.step = "error"
    /\ recordLoad' = NoRecordLoad
    /\ detail' = [detail EXCEPT !.loading = FALSE, !.error = TRUE]
    /\ UNCHANGED <<history, listing, proofLoad, receipt, check>>

ServeProof ==
    /\ proofLoad = "sent"
    /\ proofLoad' \in IF recordId \in anchored THEN {"answered", "error"} ELSE {"error"}
    /\ UNCHANGED <<history, listing, detail, recordLoad, receipt, check>>

DeliverProof ==
    /\ \/ /\ proofLoad = "answered"
          /\ detail' = [detail EXCEPT !.proof = recordId, !.proofLoading = FALSE]
       \/ /\ proofLoad = "error"
          /\ detail' = [detail EXCEPT !.proofError = TRUE, !.proofLoading = FALSE]
    /\ proofLoad' = "none"
    /\ UNCHANGED <<history, listing, recordLoad, receipt, check>>

\* The early returns: spinner, error or "Record not found" in place of the page.
DetailShown == route = "record" /\ ~detail.loading /\ ~detail.error /\ detail.record # None

RecordShown == IF DetailShown THEN detail.record ELSE None

\* The last step of the timeline, and the pill of the panel of anchoring.
AnchoredShown == DetailShown /\ detail.anchored

\* The panel of anchoring: a proof is shown whatever the record's status, and
\* no load of another record or proof takes it away (line 289).
ProofSpinner == AnchoredShown /\ detail.proofLoading
ProofPanel == DetailShown /\ detail.proof # None
AnchorHint == DetailShown /\ ~detail.anchored /\ ~detail.proofLoading /\ detail.proof = None

-----------------------------------------------------------------------------
(* ReceiptVerify.                                                            *)

\* An error stays beside the new text, and so does the spinner: the verdict that
\* comes is about the text before.
EditReceipt(t) ==
    /\ route = "receipt"
    /\ t # receipt.text
    /\ receipt' = [receipt EXCEPT !.text = t, !.result = None]
    /\ UNCHANGED <<history, listing, detail, recordLoad, proofLoad, check>>

CheckEnabled == route = "receipt" /\ receipt.text # None /\ ~receipt.checking

OnVerify ==
    /\ CheckEnabled
    /\ receipt' = [receipt EXCEPT !.checking = TRUE, !.error = FALSE, !.result = None]
    /\ check' = [step |-> "sent", of |-> receipt.text]
    /\ UNCHANGED <<history, listing, detail, recordLoad, proofLoad>>

ServeCheck ==
    /\ check.step = "sent"
    /\ \E s \in {"answered", "error"} : check' = [check EXCEPT !.step = s]
    /\ UNCHANGED <<history, listing, detail, recordLoad, proofLoad, receipt>>

DeliverCheck ==
    /\ \/ /\ check.step = "answered"
          /\ receipt' = [receipt EXCEPT !.result = check.of, !.checking = FALSE]
       \/ /\ check.step = "error"
          /\ receipt' = [receipt EXCEPT !.error = TRUE, !.checking = FALSE]
    /\ check' = NoCheck
    /\ UNCHANGED <<history, listing, detail, recordLoad, proofLoad>>

\* "Receipt is authentic" or "Receipt is invalid", of this receipt.
VerdictShown == IF route = "receipt" THEN receipt.result ELSE None

ServeRecordPages ==
    CountRecords \/ ServeListing \/ ListingFails \/ ServeRecord \/ ServeProof \/ ServeCheck

StayOnRecordPages ==
    \/ DeliverListing \/ DeliverRecord \/ DeliverRecordError \/ DeliverProof \/ DeliverCheck
    \/ \E p \in PageNumbers : TurnPage(p)
    \/ ShowSession \/ ShowServer
    \/ \E t \in Texts : EditReceipt(t)
    \/ OnVerify
=============================================================================
