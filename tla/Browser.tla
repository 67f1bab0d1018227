------------------------------- MODULE Browser --------------------------------
(***************************************************************************)
(* One tab of the browser over the backend: VerifyPages and RecordPages,   *)
(* of which the route shows one page at a time, and the navigations that   *)
(* mount and unmount them.                                                 *)
(***************************************************************************)
EXTENDS VerifyPages, RecordPages

vars == <<place, backend, verifyVars, recordVars>>

TypeOK == PagesTypeOK /\ VerifyTypeOK /\ RecordTypeOK

Init == PagesInit /\ VerifyInit /\ RecordInit

LoggedReceipts == {log[i].receipt : i \in DOMAIN log}

\* Another element of the Routes is mounted in place of the one before.
Mount(to, id, s, t) ==
    /\ route' = to
    /\ recordId' = id
    /\ LeaveVerifyPages(s)
    /\ MountRecordPages(to, t, LoggedReceipts)
    /\ UNCHANGED <<backend, sent, log, due>>

\* A link, or an address typed in; /result and /verify-receipt without state.
GoTo(to) ==
    /\ to \notin {route, "record"}
    /\ Mount(to, None, NoAnswer, None)
    /\ calls' = Departed(calls)
    /\ UNCHANGED visited

\* A row of History, an address, Back or Forward.  From one record to another
\* the page stays mounted.
OpenRecord(r) ==
    IF route = "record"
    THEN /\ SwitchRecord(r)
         /\ recordId' = r
         /\ UNCHANGED <<route, backend, verifyVars>>
    ELSE /\ Mount("record", r, NoAnswer, None)
         /\ calls' = Departed(calls)
         /\ UNCHANGED visited

\* A row of the session log, and the receipt of a record: one of those issued
\* for its request, which may be replaced after the record was loaded.
OpenReceipt(r) ==
    /\ \/ r \in SessionRows
       \/ RecordShown # None /\ r \in DOMAIN receipts /\ receipts[r].request = rows[RecordShown]
    /\ Mount("receipt", None, NoAnswer, r)
    /\ calls' = Departed(calls)
    /\ UNCHANGED visited

\* Back or Forward to an entry of /result: its state is still there, or it is
\* one without.
Revisit(s) ==
    /\ IF route = "result"
       THEN /\ s # result.state
            /\ result' = ReplaceState(s)
            /\ UNCHANGED <<place, backend, verify, sent, repairs, log, due, recordVars, calls>>
       ELSE Mount("result", None, s, None) /\ calls' = Departed(calls)
    /\ UNCHANGED visited

\* navigate('/result', state): whatever page the user is on by now.
DeliverVerify(c) ==
    /\ calls[c].step = "answered"
    /\ visited' = visited \cup {AnswerOf(c)}
    /\ calls' = [Departed(calls) EXCEPT ![c] = NoCall]
    /\ IF route = "result"
       THEN /\ result' = ReplaceState(AnswerOf(c))
            /\ UNCHANGED <<place, backend, verify, sent, repairs, log, due, recordVars>>
       ELSE Mount("result", None, AnswerOf(c), None)

ClearSessionLog ==
    /\ SessionRows # {}
    /\ history' = [history EXCEPT !.log = {}]
    /\ ClearLog
    /\ UNCHANGED <<place, backend, listing, detail, recordLoad, proofLoad, receipt, check>>

Navigate ==
    \/ \E to \in Routes : GoTo(to)
    \/ \E r \in Ids : OpenRecord(r)
    \/ \E r \in Receipts : OpenReceipt(r)
    \/ \E s \in visited \cup {NoAnswer} : Revisit(s)

OtherClients ==
    /\ IssueElsewhere \/ \E i \in Ids : Anchor(i)
    /\ UNCHANGED <<place, verifyVars, recordVars>>

Next ==
    \/ Navigate
    \/ \E c \in Calls : DeliverVerify(c)
    \/ StayOnVerifyPages /\ UNCHANGED <<place, backend, recordVars>>
    \/ ServeVerifyPages /\ UNCHANGED recordVars
    \/ (StayOnRecordPages \/ ServeRecordPages) /\ UNCHANGED <<place, backend, verifyVars>>
    \/ ClearSessionLog
    \/ OtherClients

Spec == Init /\ [][Next]_vars

-----------------------------------------------------------------------------
(* Properties.                                                               *)

\* A request a page waits for is in flight exactly while the page says so.
CallsApart ==
    /\ verify.submitting <=> \E c \in Calls : calls[c].here
    /\ \A c, d \in Calls : calls[c].here /\ calls[d].here => c = d
    /\ \A c \in Calls : calls[c].here => route = "verify" /\ calls[c].step # "none"
    /\ result.waiting <=> \E r \in Repairs : repairs[r].here
    /\ \A r, s \in Repairs : repairs[r].here /\ repairs[s].here => r = s
    /\ \A r \in Repairs : repairs[r].here => route = "result" /\ repairs[r].step # "none"
    /\ route = "record" <=> recordId # None
    /\ route # "result" => result = NewResult(NoAnswer)

\* So is one that it shows the answer of, but for the proof, whose spinner may
\* outlive its request on a record that is not anchored, and is hidden there.
LoadsApart ==
    /\ listing.step # "none" <=> route = "history" /\ history.source = "server" /\ history.loading
    /\ recordLoad.step # "none" <=> route = "record" /\ detail.loading
    /\ proofLoad # "none" => route = "record" /\ detail.proofLoading
    /\ check.step # "none" <=> receipt.checking
    /\ receipt.checking => route = "receipt"

\* An answer on its way or shown has the receipt of its request, and two
\* repairs on their way have two.
AnswersTrue ==
    LET IsOf(a) == a.receipt \in DOMAIN receipts /\ receipts[a.receipt].request = a.request
        Answered == {r \in Repairs : repairs[r].step = "answered"}
    IN  /\ \A c \in Calls : calls[c].step = "answered" => IsOf(calls[c])
        /\ \A r \in Answered : IsOf(repairs[r]) /\ receipts[repairs[r].receipt].repair
        /\ \A r, s \in Answered : repairs[r].receipt = repairs[s].receipt => r = s
        /\ \A s \in visited : IsOf(s)
        /\ \A s \in {result.state, result.response} : s # NoAnswer => IsOf(s)

Inv == TypeOK /\ CallsApart /\ LoadsApart /\ AnswersTrue

\* The session log has the repairs that were answered and that the storage
\* took, the newest first and as many as fit, each once and with the request it
\* repaired, even if the user left the page, or another answer changed the
\* location, before they came (Result.tsx:63-80, session.ts:37-46).
LogTrue ==
    /\ Len(log) = IF Len(due) < MaxEntries THEN Len(due) ELSE MaxEntries
    /\ \A i \in DOMAIN log :
         /\ log[i].receipt = due[Len(due) + 1 - i]
         /\ log[i].receipt \in DOMAIN receipts
         /\ receipts[log[i].receipt] = [request |-> log[i].request, repair |-> TRUE]
    /\ \A i, j \in DOMAIN due : due[i] = due[j] => i = j

\* The response on the result page answers the request of the location, to
\* which a repair would go, unless the location changed under the page.
ResultIsOfRequest ==
    ~result.replaced => result.response.request = result.state.request

\* "Start a new verification to see its result, findings, receipt and proof
\* here": the result page shows the verification it was navigated to with.
ResultShowsVerification ==
    ResultShown => result.response.request = result.state.request

\* History shows the page the pager names, whatever was asked for before, and
\* never an empty page of a list that has records.
HistoryShowsItsPage ==
    HistoryShown /\ ~history.loading /\ ~history.error =>
        history.shown = history.page /\ (EmptyShown => history.total = 0)

\* Turning to the next page skips no record, though new ones move the rows:
\* there is none between the last row of the one and the first of the other.
NoRecordSkipped ==
    [][/\ history.shown # None /\ history'.shown = history.shown + 1
       /\ history.listed # {}
       => \A i \in Ids : \/ i \in history'.listed
                         \/ \E r \in history.listed : r <= i
                         \/ \E r \in history'.listed : i < r]_vars

\* RecordDetail shows the record of its address.  The proof beside it may be
\* that of a record shown before (RecordDetail.tsx:289), but only while its own
\* is loading, after that failed, or if it is not anchored; an anchored record
\* is never left without a proof, a spinner that ends or an error.
ForeignProofExplained ==
    /\ RecordShown \in {None, recordId}
    /\ ProofPanel /\ detail.proof # recordId =>
         ProofSpinner \/ detail.proofError \/ ~AnchoredShown
    /\ AnchoredShown => ProofPanel \/ ProofSpinner \/ detail.proofError
    /\ ProofSpinner => proofLoad # "none"
=============================================================================
