----------------------------- MODULE VerifyPages ------------------------------
(***************************************************************************)
(* The pages that make receipts: Verify posts a request and navigates to   *)
(* Result with the answer in the state of the location; Result asks for a  *)
(* semantic repair and appends its receipt to the session log.  A request  *)
(* outlives the page that sent it: the answer to a verification navigates  *)
(* to Result from wherever the user has gone.  How a repair is paid is in  *)
(* PaidRepair; here it is asked for and later answered.                    *)
(***************************************************************************)
EXTENDS Pages

CONSTANTS
    Calls,      \* verifications that may be in flight at once
    Repairs,    \* repairs that may be in flight at once
    MaxEntries  \* entries of the session log (200)

ASSUME LogAssumption == MaxEntries \in Nat \ {0}

VARIABLES
    verify,   \* the React state of Verify
    calls,    \* the POST /verify in flight
    sent,     \* the requests made so far
    visited,  \* the states of the /result entries of the browser's history
    result,   \* the React state of Result
    repairs,  \* the POST /semantic-repair in flight
    log,      \* verified.session_log.v1 in the localStorage
    due       \* history: the repairs saved since the log was cleared, in order

verifyVars == <<verify, calls, sent, visited, result, repairs, log, due>>

\* A verification and its answer; NoAnswer for none.
Answer == [request : Requests, receipt : Receipts]
NoAnswer == [request |-> None, receipt |-> None]
Answers == Answer \cup {NoAnswer}

VerifyState == [parses     : BOOLEAN,  \* payload and schema are JSON objects
                submitting : BOOLEAN,
                error      : BOOLEAN]

Call == [step    : {"none", "sent", "answered", "error"},
         request : Requests \cup {None},
         receipt : Receipts \cup {None},
         here    : BOOLEAN]  \* its page is still mounted

ResultState == [state    : Answers,  \* location.state
                response : Answers,
                waiting  : BOOLEAN,  \* escalating, or a payment under way
                replaced : BOOLEAN]  \* history: the state changed under the page

VerifyTypeOK ==
    /\ verify \in VerifyState
    /\ calls \in [Calls -> Call]
    /\ sent \in 0 .. OwnRequests
    /\ visited \in SUBSET Answer
    /\ result \in ResultState
    /\ repairs \in [Repairs -> Call]
    /\ log \in Seq(Answer)
    /\ due \in Seq(Receipts)

\* The first example is in the form.
FreshVerify == [parses |-> TRUE, submitting |-> FALSE, error |-> FALSE]
NoCall == [step |-> "none", request |-> None, receipt |-> None, here |-> FALSE]
\* A call that failed, or whose answer was lost.
Failed(call) == [NoCall EXCEPT !.step = "error", !.here = call.here]

NewResult(s) == [state |-> s, response |-> s, waiting |-> FALSE, replaced |-> FALSE]

VerifyInit ==
    /\ verify = FreshVerify
    /\ calls = [c \in Calls |-> NoCall]
    /\ sent = 0
    /\ visited = {}
    /\ result = NewResult(NoAnswer)
    /\ repairs = [r \in Repairs |-> NoCall]
    /\ log = <<>>
    /\ due = <<>>

\* Faulty variant: the continuations of a page that is gone set the state of the
\* next one.
LeaveVerifyPagesAlive(s) ==
    /\ verify' = FreshVerify
    /\ result' = NewResult(s)
    /\ repairs' = repairs

\* The calls of a page that is left.
Departed(f) == [c \in DOMAIN f |-> [f[c] EXCEPT !.here = FALSE]]

\* Leaving a page: its state goes, its requests do not.
LeaveVerifyPages(s) ==
    /\ verify' = FreshVerify
    /\ result' = NewResult(s)
    /\ repairs' = Departed(repairs)

-----------------------------------------------------------------------------
(* Verify.                                                                   *)

EditDraft ==
    /\ route = "verify"
    /\ verify' = [verify EXCEPT !.parses = ~@]
    /\ UNCHANGED <<calls, sent, visited, result, repairs, log, due>>

ApplyExample ==
    /\ route = "verify"
    /\ verify' = [verify EXCEPT !.parses = TRUE, !.error = FALSE]
    /\ UNCHANGED <<calls, sent, visited, result, repairs, log, due>>

SubmitEnabled == route = "verify" /\ ~verify.submitting

SubmitRejected ==
    /\ SubmitEnabled /\ ~verify.parses
    /\ verify' = [verify EXCEPT !.error = TRUE]
    /\ UNCHANGED <<calls, sent, visited, result, repairs, log, due>>

Submit(c) ==
    /\ SubmitEnabled /\ verify.parses
    /\ sent < OwnRequests
    /\ calls[c].step = "none"
    /\ verify' = [verify EXCEPT !.error = FALSE, !.submitting = TRUE]
    /\ calls' = [calls EXCEPT ![c] = [NoCall EXCEPT !.step = "sent", !.request = sent + 1,
                                                    !.here = TRUE]]
    /\ sent' = sent + 1
    /\ UNCHANGED <<visited, result, repairs, log, due>>

\* The store may refuse the record and the answer still come: see RecordStore.
ServeVerify(c) ==
    /\ calls[c].step = "sent"
    /\ Issue(calls[c].request, FALSE)
    /\ calls' = [calls EXCEPT ![c].step = "answered", ![c].receipt = NextReceipt]
    /\ UNCHANGED <<place, verify, sent, visited, result, repairs, log, due>>

VerifyFails(c) ==
    /\ calls[c].step \in {"sent", "answered"}
    /\ calls' = [calls EXCEPT ![c] = Failed(@)]
    /\ UNCHANGED <<place, backend, verify, sent, visited, result, repairs, log, due>>

\* catch and finally; on a page that is gone they do nothing.
DeliverVerifyError(c) ==
    /\ calls[c].step = "error"
    /\ verify' = IF calls[c].here THEN [verify EXCEPT !.error = TRUE, !.submitting = FALSE]
                                  ELSE verify
    /\ calls' = [calls EXCEPT ![c] = NoCall]
    /\ UNCHANGED <<sent, visited, result, repairs, log, due>>

AnswerOf(c) == [request |-> calls[c].request, receipt |-> calls[c].receipt]

-----------------------------------------------------------------------------
(* Result.                                                                   *)

\* A navigation to /result while it is shown changes the location and nothing
\* else: useState does not look at its argument again.
ReplaceState(s) == [result EXCEPT !.state = s, !.replaced = @ \/ s # result.state]

\* Shows findings, receipt and the rest of both, or "No verification to show".
ResultShown == route = "result" /\ NoAnswer \notin {result.state, result.response}

\* onEscalate or onPay: the request of the location's state is sent again.  The
\* page waits for one repair at a time; those of a page that was left do not
\* keep the next one from asking.  A refused repair is asked for again, though
\* the page does so only after a 402.
RequestRepair(r) ==
    /\ ResultShown
    /\ ~result.waiting
    /\ ~receipts[result.response.receipt].repair
    /\ repairs[r].step = "none"
    /\ result' = [result EXCEPT !.waiting = TRUE]
    /\ repairs' = [repairs EXCEPT ![r] = [NoCall EXCEPT !.step = "sent", !.here = TRUE,
                                                       !.request = result.state.request]]
    /\ UNCHANGED <<verify, calls, sent, visited, log, due>>

ServeRepair(r) ==
    /\ repairs[r].step = "sent"
    /\ Issue(repairs[r].request, TRUE)
    /\ repairs' = [repairs EXCEPT ![r].step = "answered", ![r].receipt = NextReceipt]
    /\ UNCHANGED <<place, verify, calls, sent, visited, result, log, due>>

\* Also the 402, after which the user may pay and ask again.
RepairFails(r) ==
    /\ repairs[r].step \in {"sent", "answered"}
    /\ repairs' = [repairs EXCEPT ![r] = Failed(@)]
    /\ UNCHANGED <<place, backend, verify, calls, sent, visited, result, log, due>>

\* What appendSessionEntry writes.
Appended(e) == SubSeq(<<e>> \o log, 1, IF Len(log) < MaxEntries THEN Len(log) + 1 ELSE MaxEntries)

RepairAnswer(r) == [request |-> repairs[r].request, receipt |-> repairs[r].receipt]

\* setResponse, on a page that is still there.
ShowRepair(r) ==
    /\ result' = IF repairs[r].here
                 THEN [result EXCEPT !.response = RepairAnswer(r), !.waiting = FALSE]
                 ELSE result
    /\ repairs' = [repairs EXCEPT ![r] = NoCall]
    /\ UNCHANGED <<verify, calls, sent, visited>>

\* Faulty variant: a page that is gone logs nothing.
DeliverRepairHere(r) ==
    /\ repairs[r].step = "answered"
    /\ log' = IF repairs[r].here THEN Appended(RepairAnswer(r)) ELSE log
    /\ due' = Append(due, repairs[r].receipt)
    /\ ShowRepair(r)

\* logIfChanged: the receipt is a new one, and the log gets it though the page
\* be gone, unless the storage refuses the entry.
DeliverRepair(r) ==
    /\ repairs[r].step = "answered"
    /\ \/ /\ log' = Appended(RepairAnswer(r))
          /\ due' = Append(due, repairs[r].receipt)
       \/ UNCHANGED <<log, due>>
    /\ ShowRepair(r)

DeliverRepairError(r) ==
    /\ repairs[r].step = "error"
    /\ result' = IF repairs[r].here THEN [result EXCEPT !.waiting = FALSE] ELSE result
    /\ repairs' = [repairs EXCEPT ![r] = NoCall]
    /\ UNCHANGED <<verify, calls, sent, visited, log, due>>

ClearLog ==
    /\ log' = <<>>
    /\ due' = <<>>
    /\ UNCHANGED <<verify, calls, sent, visited, result, repairs>>

StayOnVerifyPages ==
    \/ EditDraft \/ ApplyExample \/ SubmitRejected
    \/ \E c \in Calls : Submit(c) \/ DeliverVerifyError(c)
    \/ \E r \in Repairs : RequestRepair(r) \/ DeliverRepair(r) \/ DeliverRepairError(r)

ServeVerifyPages ==
    \/ \E c \in Calls : ServeVerify(c) \/ VerifyFails(c)
    \/ \E r \in Repairs : ServeRepair(r) \/ RepairFails(r)
=============================================================================
