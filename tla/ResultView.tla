------------------------------ MODULE ResultView ------------------------------
(***************************************************************************)
(* What the result page makes of its state and of the response it has      *)
(* (frontend/src/pages/Result.tsx): the stages of the pipeline and the     *)
(* panels that offer an escalation or a payment.                           *)
(* The response is that of /verify or of a call of PaidRepair.             *)
(***************************************************************************)
EXTENDS PaidRepair

Stages == {"done", "active", "pending", "failed", "skipped"}

\* isPaid: only a paid response has payment_metadata, and it says "settled".
IsPaid == page.shown # None

IsRejected == ShownOutcome = "rejected"

\* isVerifiedRepaired && hasRepair: repair_info comes with that outcome alone,
\* here of a semantic repair.
IsVerifiedRepaired == ShownOutcome = "verified_repaired"

\* The response has the candidate of the model whatever became of it.
HasRepairedOutput == IsPaid /\ calls[page.shown].candidate \in {"bad", "good"}

Validated == IF ShownOutcome = "verified" THEN "done" ELSE "failed"

ShowEscalation ==
    page.attempted \/ page.escalating \/ IsPaid \/ (IsRejected /\ page.challenge)

Escalated == IF page.escalating THEN "active" ELSE IF ShowEscalation THEN "done" ELSE "skipped"

PaidState ==
    IF IsPaid THEN "done"
    ELSE IF page.escalating THEN "active"
    ELSE IF page.challenge THEN "pending" ELSE "skipped"

\* Cases A, B and C of the comment, and no repair.
RepairedState ==
    CASE IsVerifiedRepaired \/ (IsRejected /\ IsPaid /\ HasRepairedOutput) -> "done"
      [] IsRejected /\ IsPaid /\ ~HasRepairedOutput -> "failed"
      [] OTHER -> "skipped"

RevalidatedState ==
    CASE IsVerifiedRepaired -> "done"
      [] IsRejected /\ IsPaid /\ HasRepairedOutput -> "failed"
      [] OTHER -> "skipped"

\* PipelineStages leaves out the stages that were skipped.
Pipeline ==
    {s \in {<<"validated", Validated>>, <<"escalated", Escalated>>, <<"paid", PaidState>>,
            <<"repaired", RepairedState>>, <<"revalidated", RevalidatedState>>} : s[2] # "skipped"}

\* The button of the escalation and the panel of the wallet payment.
EscalationOffered == CanEscalate /\ ~ShowPaymentFlow
PaymentPanel == IF ShowPaymentFlow THEN page.pay ELSE "closed"

-----------------------------------------------------------------------------

\* A judged call has the outcome its candidate deserves (semantic_repair).
Judged ==
    \A a \in Calls :
        /\ Attempted(a) => payload = "blocking"
        /\ calls[a].step = "repaired" => calls[a].candidate # "asked"
        /\ calls[a].step \in {"judged", "answered"} => calls[a].outcome # "open"
        /\ calls[a].outcome # "open" =>
             /\ calls[a].candidate # "asked"
             /\ Attempted(a) <=> payload = "blocking"
             /\ calls[a].candidate = "good" <=> calls[a].outcome = "verified_repaired"
             /\ calls[a].outcome = "verified" <=> payload = "clean"

\* All that the page may show begins with an attempt to escalate, and all that
\* a payment leaves on it with the challenge.
Offers ==
    /\ page.attempted => payload # "clean"
    /\ page.shown # None \/ page.escalating \/ page.challenge => page.attempted
    /\ page.pay # "idle" \/ page.paying # None => page.challenge

\* The stages of payment and repair tell what became of the call that is
\* shown, no more and no less: a settled payment, a candidate of the model or
\* none, and the verdict of the revalidation (Result.tsx:95-121, comments A, B
\* and C).  One thing they get wrong: of a policy with an invalid schema, for
\* which the model is never asked (semantic.py:163), the page too says that the
\* repair failed.
StagesTruthful ==
    LET At(stage, state) == <<stage, state>> \in Pipeline
        candidate == calls[page.shown].candidate
    IN  IF IsPaid
        THEN /\ At("paid", "done") /\ calls[page.shown].payment \in settled
             /\ At("repaired", "done") <=> candidate \in {"bad", "good"}
             /\ At("repaired", "failed") <=> candidate = "none" \/ payload = "badschema"
             /\ At("revalidated", "done") <=> candidate = "good"
             /\ At("revalidated", "failed") <=> candidate = "bad"
        ELSE \A state \in {"done", "failed"} :
                 ~ \E stage \in {"paid", "repaired", "revalidated"} : At(stage, state)

\* An escalation is offered on a page that has done nothing yet, and a payment
\* only for a rejected output while no response on the page is a paid one: the
\* panel never shows "Payment settled", and never a payment beside an
\* escalation.  An earlier payment may have reached the ledger all the same
\* (FailedMeansUnpaid).
OffersOpen ==
    /\ EscalationOffered => page = FreshPage
    /\ PaymentPanel # "closed" =>
         /\ IsRejected /\ ~page.escalating
         /\ PaymentPanel # "settled"
         /\ <<"paid", "pending">> \in Pipeline
         /\ page.waiting # None <=> PaymentPanel = "submitting"

ViewInv == Inv /\ Judged /\ Offers
=============================================================================
