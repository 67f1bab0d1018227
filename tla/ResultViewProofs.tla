--------------------------- MODULE ResultViewProofs ---------------------------
(***************************************************************************)
(* Proofs about ResultView: what the page says of a response and offers    *)
(* for it, for any number of calls, payments and clients.  The invariant   *)
(* of PaidRepair lacks two facts, Judged about the server and Offers about *)
(* the page; with them the properties follow from the state alone.         *)
(***************************************************************************)
EXTENDS ResultView, PaidRepairProofs

LEMMA ServeJudges ==
    ASSUME Inv, Judged, NEW a \in Calls, Serve(a)
    PROVE  Judged'
  <1> USE DEF Inv, TypeOK, Call, Judged, Attempted, Step, OutcomeEarned
  <1>1. CASE VerifyPayment(a)
    BY <1>1 DEF VerifyPayment
  <1>2. CASE SettlePayment(a)
    BY <1>2 DEF SettlePayment
  <1>3. CASE SettlementLost(a) \/ SettlementFails(a)
    BY <1>3 DEF SettlementLost, SettlementFails
  <1>4. CASE HandlerFails(a)
    BY <1>4 DEF HandlerFails
  <1>5. CASE SkipRepair(a)
    BY <1>5, PayloadAssumption DEF SkipRepair, Judge
  <1>6. CASE AttemptRepair(a)
    BY <1>6 DEF AttemptRepair
  <1>7. CASE ModelAnswers(a)
    BY <1>7 DEF ModelAnswers
  <1>8. CASE Revalidate(a)
    BY <1>8 DEF Revalidate, Judge
  <1>9. CASE PersistAndAnswer(a)
    BY <1>9 DEF PersistAndAnswer
  <1>. QED
    BY <1>1, <1>2, <1>3, <1>4, <1>5, <1>6, <1>7, <1>8, <1>9 DEF Serve

\* A new call has no candidate and no outcome yet.
LEMMA SendJudges ==
    ASSUME Inv, Judged, NEW a \in Calls, NEW p \in Payments \cup {None}, Send(a, p),
           UNCHANGED payload
    PROVE  Judged'
  BY DEF Inv, TypeOK, Call, Judged, Attempted, Send

LEMMA CallsJudged ==
    ASSUME Inv, Judged, [Next]_vars
    PROVE  Judged'
  <1>1. CASE UNCHANGED <<calls, payload>>
    BY <1>1 DEF Judged, Attempted
  <1>2. CASE OnPay \/ SigningFails \/ TryAgain \/ Reload \/ UNCHANGED vars
    BY <1>1, <1>2 DEF OnPay, SigningFails, TryAgain, Reload, vars
  <1>3. ASSUME NEW a \in Calls, Deliver(a) \/ LoseReply(a) PROVE Judged'
    BY <1>1, <1>3 DEF Deliver, LoseReply
  <1>4. ASSUME NEW a \in Calls, OnEscalate(a) PROVE Judged'
    BY <1>4, SendJudges DEF OnEscalate
  <1>5. ASSUME NEW a \in Calls, NEW p \in Payments, SignAndSubmit(a, p) PROVE Judged'
    BY <1>5, SendJudges DEF SignAndSubmit
  <1>6. ASSUME NEW a \in Calls, NEW p \in Payments \cup {None}, AgentCall(a, p) PROVE Judged'
    BY <1>6, SendJudges DEF AgentCall
  <1>7. ASSUME NEW a \in Calls, Serve(a) PROVE Judged'
    BY <1>7, ServeJudges
  <1>8. CASE Crash
    BY <1>8 DEF Crash, Inv, TypeOK, Call, Judged, Attempted, Running
  <1>. QED
    BY <1>2, <1>3, <1>4, <1>5, <1>6, <1>7, <1>8 DEF Next, Browser

-----------------------------------------------------------------------------

LEMMA OffersKept ==
    ASSUME Offers, UNCHANGED <<page, payload>>
    PROVE  Offers'
  BY DEF Offers

LEMMA BrowserOffers ==
    ASSUME Inv, Offers, Browser
    PROVE  Offers'
  <1> USE NoneAssumption DEF Inv, TypeOK, Page, Offers, PageWaits
  <1>1. CASE OnPay
    BY <1>1 DEF OnPay, ShowPaymentFlow
  <1>2. CASE SigningFails
    BY <1>2 DEF SigningFails
  <1>3. CASE TryAgain
    BY <1>3 DEF TryAgain, ShowPaymentFlow
  <1>4. CASE Reload
    BY <1>4 DEF Reload, FreshPage
  <1>5. ASSUME NEW a \in Calls, OnEscalate(a) PROVE Offers'
    BY <1>5 DEF OnEscalate, CanEscalate, ShownOutcome
  <1>6. ASSUME NEW a \in Calls, NEW p \in Payments, SignAndSubmit(a, p) PROVE Offers'
    BY <1>6 DEF SignAndSubmit
  <1>7. ASSUME NEW a \in Calls, Deliver(a) PROVE Offers'
    BY ZenonT(60), <1>7 DEF Deliver, DeliverAnswer, DeliverFailure, PageFails
  <1>8. ASSUME NEW a \in Calls, LoseReply(a) PROVE Offers'
    BY <1>8 DEF LoseReply, PageFails
  <1>. QED
    BY <1>1, <1>2, <1>3, <1>4, <1>5, <1>6, <1>7, <1>8 DEF Browser

LEMMA OffersStep ==
    ASSUME Inv, Offers, [Next]_vars
    PROVE  Offers'
  <1>1. ASSUME NEW a \in Calls, Serve(a) PROVE UNCHANGED <<page, payload>>
    BY <1>1 DEF Serve, VerifyPayment, SettlePayment, SettlementLost, SettlementFails,
       HandlerFails, SkipRepair, AttemptRepair, ModelAnswers, Revalidate, PersistAndAnswer
  <1>2. ASSUME NEW a \in Calls, NEW p \in Payments \cup {None}, AgentCall(a, p)
        PROVE  UNCHANGED <<page, payload>>
    BY <1>2 DEF AgentCall
  <1>3. CASE Crash \/ UNCHANGED vars
    BY <1>3, OffersKept DEF Crash, vars
  <1>. QED
    BY <1>1, <1>2, <1>3, OffersKept, BrowserOffers DEF Next

LEMMA InitView == Init => Judged /\ Offers
  <1> USE NoneAssumption
  <1>1. ASSUME Init PROVE Judged
    <2>1. \A a \in Calls : calls[a].candidate = "untried" /\ calls[a].outcome = "open"
                           /\ calls[a].step = "idle"
      BY <1>1 DEF Init
    <2>. QED
      BY <2>1 DEF Judged, Attempted
  <1>2. Init => Offers
    BY DEF Init, Offers, FreshPage
  <1>. QED
    BY <1>1, <1>2

\* The invariant of PaidRepair, that a judged call has the outcome of its
\* candidate, and that the page shows no more than it asked for.
THEOREM ViewInvariance == Spec => []ViewInv
  <1>1. Inv /\ Judged /\ Offers /\ [Next]_vars => Judged' /\ Offers'
    BY CallsJudged, OffersStep
  <1>2. ViewInv <=> Inv /\ Judged /\ Offers
    BY DEF ViewInv
  <1>. QED
    BY <1>1, <1>2, InitView, Invariance, PTL DEF Spec

-----------------------------------------------------------------------------

\* A call that is shown was answered.
LEMMA ShownAnswered ==
    ASSUME ViewInv, IsPaid
    PROVE  /\ page.shown \in Calls
           /\ calls[page.shown].step = "answered"
           /\ calls[page.shown].payment \in settled
           /\ ShownOutcome = calls[page.shown].outcome
           /\ calls[page.shown] \in Call
  BY NoneAssumption DEF ViewInv, Inv, TypeOK, Page, PageWaits, ReceiptsKept, PaidOnce,
     HandlerSteps, IsPaid, ShownOutcome

\* A stage of the pipeline that is not skipped is in it.
LEMMA StageShown ==
    ASSUME NEW st \in {"done", "failed"}
    PROVE  /\ <<"paid", st>> \in Pipeline <=> PaidState = st
           /\ <<"repaired", st>> \in Pipeline <=> RepairedState = st
           /\ <<"revalidated", st>> \in Pipeline <=> RevalidatedState = st
  BY DEF Pipeline

\* The pipeline tells of the payment, the candidate and its revalidation what
\* became of the call that is shown, but for an invalid schema (Result.tsx,
\* stages).
THEOREM StagesTruthfulAlways == Spec => []StagesTruthful
  <1>1. ASSUME ViewInv PROVE StagesTruthful
    <2> USE DEF IsRejected, IsVerifiedRepaired, HasRepairedOutput
    <2>1. CASE ~IsPaid
      <3>1. ShownOutcome \in {"verified", "rejected"}
        BY <2>1 DEF ShownOutcome, IsPaid
      <3>2. /\ PaidState \notin {"done", "failed"}
            /\ RepairedState = "skipped" /\ RevalidatedState = "skipped"
        BY <2>1, <3>1 DEF PaidState, RepairedState, RevalidatedState
      <3>. QED
        BY <2>1, <3>2, StageShown DEF StagesTruthful
    <2>2. CASE IsPaid
      <3> DEFINE c == calls[page.shown].candidate
      <3>1. /\ page.shown \in Calls
            /\ calls[page.shown].step = "answered"
            /\ calls[page.shown].payment \in settled
            /\ ShownOutcome = calls[page.shown].outcome
            /\ calls[page.shown] \in Call
        BY <1>1, <2>2, ShownAnswered
      <3>2. /\ ShownOutcome \in {"verified_repaired", "rejected"}
            /\ c \in {"untried", "none", "bad", "good"}
            /\ c = "good" <=> ShownOutcome = "verified_repaired"
            /\ c = "untried" <=> payload = "badschema"
        <4>1. Judged /\ payload \in {"blocking", "badschema"}
          BY <1>1, <2>2, PayloadAssumption DEF ViewInv, Inv, TypeOK, Offers, IsPaid
        <4>. QED
          BY <3>1, <4>1 DEF Judged, Call, Outcomes, CandidateStates, Attempted
      <3>3. PaidState = "done"
        BY <2>2 DEF PaidState
      <3>4. /\ RepairedState = "done" <=> c \in {"bad", "good"}
            /\ RepairedState = "failed" <=> c = "none" \/ payload = "badschema"
        BY <2>2, <3>2 DEF RepairedState
      <3>5. /\ RevalidatedState = "done" <=> c = "good"
            /\ RevalidatedState = "failed" <=> c = "bad"
        BY <2>2, <3>2 DEF RevalidatedState
      <3>. QED
        BY <2>2, <3>1, <3>3, <3>4, <3>5, StageShown DEF StagesTruthful
    <2>. QED
      BY <2>1, <2>2
  <1>. QED
    BY <1>1, ViewInvariance, PTL

\* An escalation is offered on a fresh page only, a payment while no paid
\* response is on the page (Result.tsx, canEscalate and showPaymentFlow).
THEOREM OffersOpenAlways == Spec => []OffersOpen
  <1>1. ASSUME ViewInv PROVE OffersOpen
    <2>0. page \in Page /\ Offers /\ PageWaits
      BY <1>1 DEF ViewInv, Inv, TypeOK
    <2> USE NoneAssumption, <2>0 DEF Page, Offers, PageWaits
    <2>1. ASSUME EscalationOffered PROVE page = FreshPage
      BY <2>1 DEF EscalationOffered, CanEscalate, FreshPage
    <2>2. ASSUME PaymentPanel # "closed" PROVE ShowPaymentFlow /\ PaymentPanel = page.pay
      BY <2>2 DEF PaymentPanel
    <2>3. ASSUME ShowPaymentFlow
          PROVE  /\ IsRejected /\ ~page.escalating
                 /\ page.pay # "settled"
                 /\ PaidState = "pending"
                 /\ page.waiting # None <=> page.pay = "submitting"
      BY <2>3 DEF ShowPaymentFlow, IsRejected, ShownOutcome, PaidState, IsPaid
    <2>4. PaidState = "pending" => <<"paid", "pending">> \in Pipeline
      BY DEF Pipeline
    <2>. QED
      BY <2>1, <2>2, <2>3, <2>4 DEF OffersOpen
  <1>. QED
    BY <1>1, ViewInvariance, PTL
=============================================================================
