----------------------------- MODULE PaidRepair ------------------------------
(***************************************************************************)
(* Paid semantic repair of one rejected verification request: the result   *)
(* page and its wallet (frontend/src/pages/Result.tsx), the x402           *)
(* middleware that verifies and settles the payment (backend/app/main.py), *)
(* the facilitator and the Algorand ledger (external), and the handler     *)
(* that spends the payment on one attempt of the language model            *)
(* (backend/app/api/semantic.py).                                          *)
(*                                                                         *)
(* A call is one POST /semantic-repair; it stands for its reply and its    *)
(* receipt.  Several calls of the same request may run at once: a reply    *)
(* that is lost, or a page that is reloaded, leaves its call running.      *)
(***************************************************************************)
EXTENDS Naturals

CONSTANTS
    Calls,      \* POST /semantic-repair executions
    Payments,   \* signed payment payloads, each one Algorand transaction
    Payloads,   \* what validation says of the request's payload
    None

ASSUME PayloadAssumption == Payloads \subseteq {"clean", "blocking", "badschema"}
ASSUME NoneAssumption == None \notin Calls \cup Payments

VARIABLES
    payload,    \* the request's payload, the same in every call
    page,       \* the result page
    calls,      \* per call: its step, payment, candidate and outcome
    signed,     \* payments the wallet has signed
    settled,    \* payments on the ledger
    stored,     \* the call whose receipt the store holds, None: the one of /verify
    log         \* calls whose receipt is in the browser's session log

vars == <<payload, page, calls, signed, settled, stored, log>>

PaymentStates == {"idle", "signing", "submitting", "settled", "failed", "cancelled"}

\* Replies: 402 with a challenge, 402 "Settlement failed", 200, 500.
Replies == {"challenged", "refused", "answered", "error"}
Running == {"sent", "verified", "paid", "repairing", "repaired", "judged"}

HandlerSteps == {"paid", "repairing", "repaired", "judged", "answered"}

\* "asked": the model was called and has not answered.
CandidateStates == {"untried", "asked", "none", "bad", "good"}
Outcomes == {"open", "verified", "verified_repaired", "rejected"}

Page == [challenge  : BOOLEAN,       \* a 402 challenge is on the page
         attempted  : BOOLEAN,       \* escalationAttempted
         escalating : BOOLEAN,
         pay        : PaymentStates, \* paymentState
         paying     : Payments \cup {None},  \* the payment last submitted
         shown      : Calls \cup {None},     \* the paid response, None: the one of /verify
         waiting    : Calls \cup {None}]     \* the fetch in progress

Call == [step       : {"idle"} \cup Running \cup Replies,
         payment    : Payments \cup {None},
         settlement : BOOLEAN,   \* request.state.settlement_result says success
         candidate  : CandidateStates,
         outcome    : Outcomes]

TypeOK ==
    /\ payload \in Payloads
    /\ page \in Page
    /\ calls \in [Calls -> Call]
    /\ signed \subseteq Payments
    /\ settled \subseteq Payments
    /\ stored \in Calls \cup {None}
    /\ log \subseteq Calls

FreshPage == [challenge |-> FALSE, attempted |-> FALSE, escalating |-> FALSE,
              pay |-> "idle", paying |-> None, shown |-> None, waiting |-> None]

Init ==
    /\ payload \in Payloads
    /\ page = FreshPage
    /\ calls = [a \in Calls |-> [step |-> "idle", payment |-> None, settlement |-> FALSE,
                                 candidate |-> "untried", outcome |-> "open"]]
    /\ signed = {}
    /\ settled = {}
    /\ stored = None
    /\ log = {}

-----------------------------------------------------------------------------
(* The result page.                                                         *)

Send(a, p) ==
    /\ calls[a].step = "idle"
    /\ calls' = [calls EXCEPT ![a].step = "sent", ![a].payment = p]

ShownOutcome ==
    IF page.shown # None THEN calls[page.shown].outcome
    ELSE IF payload = "clean" THEN "verified" ELSE "rejected"

CanEscalate == ShownOutcome = "rejected" /\ ~page.challenge /\ ~page.attempted

OnEscalate(a) ==
    /\ CanEscalate
    /\ Send(a, None)
    /\ page' = [page EXCEPT !.escalating = TRUE, !.attempted = TRUE,
                            !.challenge = FALSE, !.pay = "idle", !.waiting = a]
    /\ UNCHANGED <<payload, signed, settled, stored, log>>

\* Faulty variant: a challenge on the page is enough.
ChallengeShown == page.challenge

ShowPaymentFlow == page.challenge /\ page.shown = None

OnPay ==
    /\ ShowPaymentFlow
    /\ page.pay = "idle"
    /\ page' = [page EXCEPT !.pay = "signing"]
    /\ UNCHANGED <<payload, calls, signed, settled, stored, log>>

\* Every approval signs a new transaction, whatever became of the last one.
SignAndSubmit(a, p) ==
    /\ page.pay = "signing"
    /\ p \notin signed
    /\ signed' = signed \cup {p}
    /\ Send(a, p)
    /\ page' = [page EXCEPT !.pay = "submitting", !.paying = p, !.waiting = a]
    /\ UNCHANGED <<payload, settled, stored, log>>

\* The wallet declines, or building the payload raises.
SigningFails ==
    /\ page.pay = "signing"
    /\ \E s \in {"cancelled", "failed"} : page' = [page EXCEPT !.pay = s]
    /\ UNCHANGED <<payload, calls, signed, settled, stored, log>>

TryAgain ==
    /\ ShowPaymentFlow
    /\ page.pay \in {"cancelled", "failed"}
    /\ page' = [page EXCEPT !.pay = "idle"]
    /\ UNCHANGED <<payload, calls, signed, settled, stored, log>>

\* A reload keeps the history entry with the response of /verify and forgets
\* the rest; a call in progress goes on without a reader.
Reload ==
    /\ page # FreshPage
    /\ page' = FreshPage
    /\ UNCHANGED <<payload, calls, signed, settled, stored, log>>

\* Faulty variant: the catch clause forgets the payment state.
PageForgets == page' = [page EXCEPT !.escalating = FALSE, !.waiting = None]

\* The fetch of the page rejects, or resolves without an answer of use.
PageFails == page' = IF page.escalating
                     THEN [page EXCEPT !.escalating = FALSE, !.waiting = None]
                     ELSE [page EXCEPT !.pay = "failed", !.waiting = None]

\* Faulty variant: the paid answer is not logged.
DeliverUnlogged(a) ==
    /\ calls[a].step = "answered"
    /\ page' = [page EXCEPT !.escalating = FALSE, !.shown = a, !.waiting = None,
                            !.pay = IF page.escalating THEN @ ELSE "settled"]
    /\ UNCHANGED log

DeliverAnswer(a) ==
    /\ calls[a].step = "answered"
    /\ page' = [page EXCEPT !.escalating = FALSE, !.shown = a, !.waiting = None,
                            !.pay = IF page.escalating THEN @ ELSE "settled"]
    /\ log' = log \cup {a}

\* A 402 puts its challenge on the page only for onEscalate.
DeliverFailure(a) ==
    /\ calls[a].step \in {"challenged", "refused", "error"}
    /\ IF page.escalating /\ calls[a].step = "challenged"
       THEN page' = [page EXCEPT !.escalating = FALSE, !.challenge = TRUE, !.waiting = None]
       ELSE PageFails
    /\ UNCHANGED log

Deliver(a) ==
    /\ page.waiting = a
    /\ DeliverAnswer(a) \/ DeliverFailure(a)
    /\ UNCHANGED <<payload, calls, signed, settled, stored>>

\* The connection, or the proxy before the backend, gives up on a call.
LoseReply(a) ==
    /\ page.waiting = a
    /\ PageFails
    /\ UNCHANGED <<payload, calls, signed, settled, stored, log>>

\* Any client of the API may call it for the request, with no payment, with a
\* new one, or with one that was sent before.
AgentCall(a, p) ==
    /\ Send(a, p)
    /\ signed' = signed \cup ({p} \ {None})
    /\ UNCHANGED <<payload, page, settled, stored, log>>

-----------------------------------------------------------------------------
(* The middleware and the facilitator.                                      *)

Step(a, step) == calls' = [calls EXCEPT ![a].step = step]

\* The facilitator checks the payment without touching the ledger.
VerifyPayment(a) ==
    /\ calls[a].step = "sent"
    /\ \/ calls[a].payment # None /\ Step(a, "verified")
       \/ Step(a, "challenged")
       \/ Step(a, "error")
    /\ UNCHANGED <<payload, page, signed, settled, stored, log>>

\* Faulty variant: a payment that was settled before passes again.
SettleAgain(a) ==
    /\ calls[a].step = "verified"
    /\ settled' = settled \cup {calls[a].payment}
    /\ calls' = [calls EXCEPT ![a].step = "paid", ![a].settlement = TRUE]
    /\ UNCHANGED <<payload, page, signed, stored, log>>

\* The ledger takes a transaction at most once.
SettlePayment(a) ==
    /\ calls[a].step = "verified"
    /\ calls[a].payment \notin settled
    /\ settled' = settled \cup {calls[a].payment}
    /\ calls' = [calls EXCEPT ![a].step = "paid", ![a].settlement = TRUE]
    /\ UNCHANGED <<payload, page, signed, stored, log>>

\* The ledger takes the transaction and the facilitator's answer says that it
\* failed, or does not come.
SettlementLost(a) ==
    /\ calls[a].step = "verified"
    /\ settled' = settled \cup {calls[a].payment}
    /\ \E reply \in {"refused", "error"} : Step(a, reply)
    /\ UNCHANGED <<payload, page, signed, stored, log>>

\* Faulty variant: the handler runs before the settlement, which then fails.
ServeUnsettled(a) ==
    /\ calls[a].step = "verified"
    /\ calls' = [calls EXCEPT ![a].step = "paid", ![a].settlement = TRUE]
    /\ UNCHANGED <<payload, page, signed, settled, stored, log>>

SettlementFails(a) ==
    /\ calls[a].step = "verified"
    /\ \E reply \in {"refused", "error"} : Step(a, reply)
    /\ UNCHANGED <<payload, page, signed, settled, stored, log>>

-----------------------------------------------------------------------------
(* The handler.                                                             *)

\* The provider, the engines and the receipt service may raise: 500, and the
\* payment is spent.
HandlerFails(a) ==
    /\ calls[a].step \in {"paid", "repaired", "judged"}
    /\ Step(a, "error")
    /\ UNCHANGED <<payload, page, signed, settled, stored, log>>

Judge(a, outcome) ==
    calls' = [calls EXCEPT ![a].step = "judged", ![a].outcome = outcome]

\* No attempt is made for a payload without blocking findings, or whose
\* policy holds an invalid schema.
SkipRepair(a) ==
    /\ calls[a].step = "paid"
    /\ calls[a].settlement
    /\ payload # "blocking"
    /\ Judge(a, IF payload = "clean" THEN "verified" ELSE "rejected")
    /\ UNCHANGED <<payload, page, signed, settled, stored, log>>

AttemptRepair(a) ==
    /\ calls[a].step = "paid"
    /\ calls[a].settlement
    /\ payload = "blocking"
    /\ calls' = [calls EXCEPT ![a].step = "repairing", ![a].candidate = "asked"]
    /\ UNCHANGED <<payload, page, signed, settled, stored, log>>

\* The model answers nothing of use, or a candidate that revalidation will
\* find bad or good; its client gives up after GROQ_TIMEOUT_SECONDS.
ModelAnswers(a) ==
    /\ calls[a].step = "repairing"
    /\ \E k \in {"none", "bad", "good"} :
         calls' = [calls EXCEPT ![a].step = "repaired", ![a].candidate = k]
    /\ UNCHANGED <<payload, page, signed, settled, stored, log>>

\* Faulty variant: any candidate is accepted.
AcceptCandidate(a) ==
    /\ calls[a].step = "repaired"
    /\ Judge(a, IF calls[a].candidate # "none" THEN "verified_repaired" ELSE "rejected")
    /\ UNCHANGED <<payload, page, signed, settled, stored, log>>

\* Mandatory revalidation: only a candidate without blocking findings is
\* accepted.
Revalidate(a) ==
    /\ calls[a].step = "repaired"
    /\ Judge(a, IF calls[a].candidate = "good" THEN "verified_repaired" ELSE "rejected")
    /\ UNCHANGED <<payload, page, signed, settled, stored, log>>

\* The upsert of the receipt, whose failure is swallowed, and the 200.
PersistAndAnswer(a) ==
    /\ calls[a].step = "judged"
    /\ stored' \in {a, stored}
    /\ Step(a, "answered")
    /\ UNCHANGED <<payload, page, signed, settled, log>>

\* The process dies: every call in progress ends without an answer.
Crash ==
    /\ \E a \in Calls : calls[a].step \in Running
    /\ calls' = [a \in Calls |-> IF calls[a].step \in Running
                                 THEN [calls[a] EXCEPT !.step = "error"] ELSE calls[a]]
    /\ UNCHANGED <<payload, page, signed, settled, stored, log>>

Browser ==
    \/ OnPay \/ SigningFails \/ TryAgain \/ Reload
    \/ \E a \in Calls : OnEscalate(a) \/ Deliver(a) \/ LoseReply(a)
    \/ \E a \in Calls, p \in Payments : SignAndSubmit(a, p)

Serve(a) ==
    \/ VerifyPayment(a)
    \/ SettlePayment(a) \/ SettlementLost(a) \/ SettlementFails(a)
    \/ HandlerFails(a)
    \/ SkipRepair(a) \/ AttemptRepair(a) \/ ModelAnswers(a) \/ Revalidate(a)
    \/ PersistAndAnswer(a)

Next ==
    \/ Browser
    \/ \E a \in Calls, p \in Payments \cup {None} : AgentCall(a, p)
    \/ \E a \in Calls : Serve(a)
    \/ Crash

Spec == Init /\ [][Next]_vars

\* The server works on every call it accepted (the facilitator and the model
\* are called with timeouts) and the browser hands over a reply that is there.
\* Nothing makes the user or the wallet act.
Fairness ==
    /\ \A a \in Calls : WF_vars(Serve(a))
    /\ \A a \in Calls : WF_vars(Deliver(a))

FairSpec == Spec /\ Fairness
-----------------------------------------------------------------------------
(* Properties.                                                              *)

\* The language model was called for a.
Attempted(a) == calls[a].candidate # "untried"

\* README.md: semantic repair is never invoked without a settled payment; and
\* a payment, however often it is sent, buys one attempt (semantic.py: "grants
\* access to one semantic-repair attempt").
OneAttemptPerPayment ==
    \A a \in Calls : Attempted(a) =>
        /\ calls[a].payment \in settled
        /\ \A b \in Calls : Attempted(b) /\ calls[b].payment = calls[a].payment => a = b

\* What the store and the session log call verified_repaired was a candidate
\* of the model that passed revalidation, bought by a settled payment: a
\* payment alone never makes an outcome (docs/DATA_MODEL.md, rules on
\* RepairInfo.payment_ref).
RepairEarned ==
    \A a \in log \cup ({stored} \ {None}) : calls[a].outcome = "verified_repaired" =>
        /\ calls[a].candidate = "good"
        /\ calls[a].payment \in settled

\* A page that says "settled" shows the answer to the payment it submitted
\* last, that payment is on the ledger, and the answer is in the session log.
PageShowsSettled ==
    page.pay = "settled" =>
        /\ page.shown \in log
        /\ calls[page.shown].payment = page.paying
        /\ page.paying \in settled

\* A payment under way on the page comes to an end, whatever the server and
\* the network do.
PaymentResolves == (page.pay = "submitting") ~> (page.pay # "submitting")

\* Result.tsx tells the user "Payment failed" in the state "failed".
FailedMeansUnpaid == page.pay = "failed" => page.paying \notin settled

-----------------------------------------------------------------------------
(* The inductive invariant behind the safety properties (proved in          *)
(* PaidRepairProofs).                                                       *)

\* A settlement the middleware saw is on the ledger, no other call saw it, and
\* no call passes the middleware without one.
PaidOnce ==
    /\ \A a \in Calls : calls[a].settlement =>
         /\ calls[a].payment \in settled
         /\ \A b \in Calls :
              calls[b].settlement /\ calls[b].payment = calls[a].payment => a = b
    /\ \A a \in Calls :
         (calls[a].step \in HandlerSteps \/ Attempted(a) \/ calls[a].outcome # "open")
             => calls[a].settlement

\* Each step of the handler is reached with the candidate and the outcome of
\* the steps before it.
OutcomeEarned ==
    \A a \in Calls :
        /\ calls[a].step \in {"idle", "sent", "verified"} => ~calls[a].settlement
        /\ calls[a].step = "verified" => calls[a].payment # None
        /\ calls[a].step = "paid" => ~Attempted(a)
        /\ calls[a].step \in {"repairing", "repaired"} => Attempted(a)
        /\ calls[a].step \in {"paid", "repairing", "repaired"} => calls[a].outcome = "open"
        /\ calls[a].outcome = "verified_repaired" => calls[a].candidate = "good"

\* Receipts are kept for calls that were answered.
ReceiptsKept == \A a \in log \cup ({stored} \ {None}) : calls[a].step = "answered"

\* The page waits for one fetch at a time: an escalation, before any challenge,
\* or the call that carries the payment it submitted last.
PageWaits ==
    /\ page.escalating => ~page.challenge /\ page.pay = "idle"
    /\ page.waiting # None =>
         /\ calls[page.waiting].step # "idle"
         /\ page.escalating \/ page.pay = "submitting"
    /\ page.pay = "submitting" =>
         page.waiting # None /\ calls[page.waiting].payment = page.paying
    /\ page.shown # None => page.shown \in log
    /\ page.pay = "settled" =>
         page.shown # None /\ calls[page.shown].payment = page.paying

Inv ==
    /\ TypeOK
    /\ PaidOnce
    /\ OutcomeEarned
    /\ ReceiptsKept
    /\ PageWaits

-----------------------------------------------------------------------------
(* The contract: the ledger, the attempts and the accepted repairs, without *)
(* the calls and their steps.                                               *)

PaymentsOf(S) == {calls[a].payment : a \in S}

Contract == INSTANCE PaidRepairContract WITH
    paid     <- settled,
    used     <- PaymentsOf({a \in Calls : Attempted(a)}),
    accepted <- PaymentsOf({a \in Calls : calls[a].outcome = "verified_repaired"})

\* The page, the middleware, the facilitator and the handler implement the
\* contract.
ImplementsContract == Contract!Spec
=============================================================================
