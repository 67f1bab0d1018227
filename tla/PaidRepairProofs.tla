-------------------------- MODULE PaidRepairProofs ---------------------------
(***************************************************************************)
(* Proofs about PaidRepair for any number of calls, payments and clients.  *)
(* Inv is inductive as it stands; the properties follow from it.           *)
(***************************************************************************)
EXTENDS PaidRepair, TLAPS

LEMMA InitInv == Init => Inv
  <1> USE PayloadAssumption, NoneAssumption
  <1>. SUFFICES ASSUME Init PROVE Inv
    OBVIOUS
  <1>1. TypeOK
    BY DEF Init, TypeOK, Page, Call, FreshPage, PaymentStates, Running, Replies,
           CandidateStates, Outcomes
  <1>2. PaidOnce /\ OutcomeEarned
    BY DEF Init, PaidOnce, OutcomeEarned, Attempted, HandlerSteps
  <1>3. ReceiptsKept /\ PageWaits
    BY DEF Init, ReceiptsKept, PageWaits, FreshPage
  <1>. QED
    BY <1>1, <1>2, <1>3 DEF Inv

-----------------------------------------------------------------------------
(* Types.                                                                   *)

LEMMA SendTypes ==
    ASSUME TypeOK, NEW a \in Calls, NEW p \in Payments \cup {None}, Send(a, p)
    PROVE  calls' \in [Calls -> Call]
  <1>1. calls[a] \in Call
    BY DEF TypeOK
  <1>2. calls' = [calls EXCEPT ![a] = [calls[a] EXCEPT !.step = "sent", !.payment = p]]
    BY <1>1 DEF Send, TypeOK, Call
  <1>3. [calls[a] EXCEPT !.step = "sent", !.payment = p] \in Call
    BY <1>1 DEF Call, Running
  <1>. QED
    BY <1>2, <1>3 DEF TypeOK

LEMMA PageTypes ==
    ASSUME TypeOK, Browser
    PROVE  page' \in Page
  <1> USE DEF TypeOK, Page, PaymentStates
  <1>1. CASE OnPay \/ SigningFails \/ TryAgain
    BY <1>1 DEF OnPay, SigningFails, TryAgain
  <1>2. CASE Reload
    BY <1>2 DEF Reload, FreshPage
  <1>3. ASSUME NEW a \in Calls, OnEscalate(a) PROVE page' \in Page
    BY <1>3 DEF OnEscalate
  <1>4. ASSUME PageFails PROVE page' \in Page
    BY <1>4 DEF PageFails
  <1>5. ASSUME NEW a \in Calls, DeliverAnswer(a) PROVE page' \in Page
    BY <1>5 DEF DeliverAnswer
  <1>6. ASSUME NEW a \in Calls, DeliverFailure(a) PROVE page' \in Page
    BY ZenonT(60), <1>4, <1>6 DEF DeliverFailure
  <1>7. ASSUME NEW a \in Calls, Deliver(a) \/ LoseReply(a) PROVE page' \in Page
    BY <1>4, <1>5, <1>6, <1>7 DEF Deliver, LoseReply
  <1>8. ASSUME NEW a \in Calls, NEW p \in Payments, SignAndSubmit(a, p)
        PROVE  page' \in Page
    BY <1>8 DEF SignAndSubmit
  <1>. QED
    BY <1>1, <1>2, <1>3, <1>7, <1>8 DEF Browser

LEMMA BrowserTypes ==
    ASSUME TypeOK, Browser
    PROVE  TypeOK'
  <1> USE DEF TypeOK
  <1>1. CASE OnPay \/ SigningFails \/ TryAgain \/ Reload
    BY <1>1, PageTypes DEF OnPay, SigningFails, TryAgain, Reload
  <1>2. ASSUME NEW a \in Calls, OnEscalate(a) PROVE TypeOK'
    BY <1>2, PageTypes, SendTypes DEF OnEscalate
  <1>3. ASSUME NEW a \in Calls, Deliver(a) \/ LoseReply(a) PROVE TypeOK'
    BY <1>3, PageTypes DEF Deliver, DeliverAnswer, DeliverFailure, LoseReply
  <1>4. ASSUME NEW a \in Calls, NEW p \in Payments, SignAndSubmit(a, p) PROVE TypeOK'
    BY <1>4, PageTypes, SendTypes DEF SignAndSubmit
  <1>. QED
    BY <1>1, <1>2, <1>3, <1>4 DEF Browser

-----------------------------------------------------------------------------
(* The server's steps.                                                      *)

\* Every step of the server moves one call forward from a step at which it is
\* running, keeps its payment and leaves the page alone.
Advances(a) ==
    /\ calls[a].step \in Running
    /\ calls' = [calls EXCEPT ![a] = calls'[a]]
    /\ calls'[a] \in Call
    /\ calls'[a].step # "idle"
    /\ calls'[a].payment = calls[a].payment
    /\ UNCHANGED <<payload, page, signed, log>>

LEMMA ServeAdvances ==
    ASSUME Inv, NEW a \in Calls, Serve(a)
    PROVE  Advances(a)
  <1> USE DEF Inv, TypeOK, Call, Running, Replies, CandidateStates, Outcomes, Advances
  <1>1. CASE VerifyPayment(a)
    BY <1>1 DEF VerifyPayment, Step
  <1>2. CASE SettlePayment(a)
    BY <1>2 DEF SettlePayment
  <1>3. CASE SettlementLost(a)
    BY <1>3 DEF SettlementLost, Step
  <1>4. CASE SettlementFails(a)
    BY <1>4 DEF SettlementFails, Step
  <1>5. CASE HandlerFails(a)
    BY <1>5 DEF HandlerFails, Step
  <1>6. CASE SkipRepair(a)
    BY ZenonT(60), <1>6 DEF SkipRepair, Judge
  <1>7. CASE AttemptRepair(a)
    BY <1>7 DEF AttemptRepair
  <1>8. CASE ModelAnswers(a)
    <2>1. PICK k \in {"none", "bad", "good"} :
            calls' = [calls EXCEPT ![a].step = "repaired", ![a].candidate = k]
      BY <1>8 DEF ModelAnswers
    <2>2. calls' = [calls EXCEPT ![a] = [calls[a] EXCEPT !.step = "repaired",
                                                         !.candidate = k]]
      BY <2>1
    <2>3. [calls[a] EXCEPT !.step = "repaired", !.candidate = k] \in Call
      OBVIOUS
    <2>. QED
      BY <1>8, <2>2, <2>3 DEF ModelAnswers
  <1>9. CASE Revalidate(a)
    BY <1>9 DEF Revalidate, Judge
  <1>10. CASE PersistAndAnswer(a)
    BY <1>10 DEF PersistAndAnswer, Step
  <1>. QED
    BY <1>1, <1>2, <1>3, <1>4, <1>5, <1>6, <1>7, <1>8, <1>9, <1>10 DEF Serve

LEMMA ServeKeepsPaidOnce ==
    ASSUME Inv, NEW a \in Calls, Serve(a)
    PROVE  PaidOnce' /\ OutcomeEarned' /\ settled' \subseteq Payments
  <1> USE DEF Inv, TypeOK, Call, PaidOnce, OutcomeEarned, Attempted, HandlerSteps, Running
  <1>1. CASE VerifyPayment(a)
    BY <1>1 DEF VerifyPayment, Step
  <1>2. CASE SettlePayment(a)
    BY <1>2 DEF SettlePayment
  <1>3. CASE SettlementLost(a)
    BY <1>3 DEF SettlementLost, Step
  <1>4. CASE SettlementFails(a)
    BY <1>4 DEF SettlementFails, Step
  <1>5. CASE HandlerFails(a)
    BY <1>5 DEF HandlerFails, Step
  <1>6. CASE SkipRepair(a)
    BY <1>6 DEF SkipRepair, Judge
  <1>7. CASE AttemptRepair(a)
    BY <1>7 DEF AttemptRepair
  <1>8. CASE ModelAnswers(a)
    BY <1>8 DEF ModelAnswers
  <1>9. CASE Revalidate(a)
    BY <1>9 DEF Revalidate, Judge
  <1>10. CASE PersistAndAnswer(a)
    BY <1>10 DEF PersistAndAnswer, Step
  <1>. QED
    BY <1>1, <1>2, <1>3, <1>4, <1>5, <1>6, <1>7, <1>8, <1>9, <1>10 DEF Serve

LEMMA ServeKeepsReceipts ==
    ASSUME Inv, NEW a \in Calls, Serve(a)
    PROVE  ReceiptsKept' /\ stored' \in Calls \cup {None}
  <1> USE DEF Inv, TypeOK, Call, ReceiptsKept
  <1>1. Advances(a)
    BY ServeAdvances
  <1>2. CASE PersistAndAnswer(a)
    BY <1>2 DEF PersistAndAnswer, Step
  <1>3. CASE ~PersistAndAnswer(a)
    <2>1. stored' = stored
      BY <1>3 DEF Serve, VerifyPayment, SettlePayment, SettlementLost, SettlementFails,
                  HandlerFails, SkipRepair, AttemptRepair, ModelAnswers, Revalidate
    <2>. QED
      BY <1>1, <2>1 DEF Advances, Running
  <1>. QED
    BY <1>2, <1>3

LEMMA ServeKeepsInv ==
    ASSUME Inv, NEW a \in Calls, Serve(a)
    PROVE  Inv'
  <1>1. Advances(a)
    BY ServeAdvances
  <1>2. TypeOK'
    BY <1>1, ServeKeepsPaidOnce, ServeKeepsReceipts DEF Advances, Inv, TypeOK
  <1>3. PageWaits'
    BY <1>1, NoneAssumption DEF Advances, Inv, TypeOK, Page, PageWaits
  <1>. QED
    BY <1>2, <1>3, ServeKeepsPaidOnce, ServeKeepsReceipts DEF Inv
-----------------------------------------------------------------------------
(* The steps of the clients and the crash.                                  *)

\* Sending a call touches one that was idle, of which nothing else is said.
LEMMA SendKeeps ==
    ASSUME Inv, NEW a \in Calls, NEW p \in Payments \cup {None}, Send(a, p),
           UNCHANGED <<settled, stored, log>>
    PROVE  PaidOnce' /\ OutcomeEarned' /\ ReceiptsKept'
  <1> USE DEF Inv, TypeOK, Send
  <1>1. ~calls[a].settlement /\ ~Attempted(a) /\ calls[a].outcome = "open"
    BY DEF PaidOnce, OutcomeEarned
  <1>2. \A b \in Calls \ {a} : calls'[b] = calls[b]
    OBVIOUS
  <1>3. /\ calls'[a].step = "sent"
        /\ calls'[a].settlement = calls[a].settlement
        /\ calls'[a].candidate = calls[a].candidate
        /\ calls'[a].outcome = calls[a].outcome
    BY DEF Call
  <1>4. PaidOnce'
    BY <1>1, <1>2, <1>3 DEF PaidOnce, Attempted, HandlerSteps, Call
  <1>5. OutcomeEarned'
    BY <1>1, <1>2, <1>3 DEF OutcomeEarned, Attempted
  <1>6. ReceiptsKept'
    BY <1>2 DEF ReceiptsKept
  <1>. QED
    BY <1>4, <1>5, <1>6

LEMMA BrowserKeepsReceipts ==
    ASSUME Inv, Browser
    PROVE  PaidOnce' /\ OutcomeEarned' /\ ReceiptsKept'
  <1>1. CASE OnPay \/ SigningFails \/ TryAgain \/ Reload
    BY <1>1 DEF Inv, PaidOnce, OutcomeEarned, ReceiptsKept, Attempted,
                OnPay, SigningFails, TryAgain, Reload
  <1>2. ASSUME NEW a \in Calls, OnEscalate(a)
        PROVE  PaidOnce' /\ OutcomeEarned' /\ ReceiptsKept'
    BY <1>2, SendKeeps DEF OnEscalate
  <1>3. ASSUME NEW a \in Calls, Deliver(a) \/ LoseReply(a)
        PROVE  PaidOnce' /\ OutcomeEarned' /\ ReceiptsKept'
    BY <1>3 DEF Inv, PaidOnce, OutcomeEarned, ReceiptsKept, Attempted,
                Deliver, DeliverAnswer, DeliverFailure, LoseReply
  <1>4. ASSUME NEW a \in Calls, NEW p \in Payments, SignAndSubmit(a, p)
        PROVE  PaidOnce' /\ OutcomeEarned' /\ ReceiptsKept'
    BY <1>4, SendKeeps DEF SignAndSubmit
  <1>. QED
    BY <1>1, <1>2, <1>3, <1>4 DEF Browser

LEMMA BrowserKeepsPage ==
    ASSUME Inv, Browser
    PROVE  PageWaits'
  <1> USE NoneAssumption DEF Inv, TypeOK, Page, PageWaits
  <1>1. CASE OnPay
    BY <1>1 DEF OnPay, ShowPaymentFlow
  <1>2. CASE SigningFails
    BY <1>2 DEF SigningFails
  <1>3. CASE TryAgain
    BY <1>3 DEF TryAgain
  <1>4. CASE Reload
    BY <1>4 DEF Reload, FreshPage
  <1>5. ASSUME NEW a \in Calls, OnEscalate(a) PROVE PageWaits'
    BY <1>5 DEF OnEscalate, Send, Call
  <1>6. ASSUME NEW a \in Calls, Deliver(a) PROVE PageWaits'
    <2>1. CASE DeliverAnswer(a)
      BY <1>6, <2>1 DEF Deliver, DeliverAnswer
    <2>2. CASE DeliverFailure(a)
      BY ZenonT(60), <1>6, <2>2 DEF Deliver, DeliverFailure, PageFails
    <2>. QED
      BY <1>6, <2>1, <2>2 DEF Deliver
  <1>7. ASSUME NEW a \in Calls, LoseReply(a) PROVE PageWaits'
    BY <1>7 DEF LoseReply, PageFails
  <1>8. ASSUME NEW a \in Calls, NEW p \in Payments, SignAndSubmit(a, p) PROVE PageWaits'
    BY <1>8 DEF SignAndSubmit, Send, Call, ReceiptsKept
  <1>. QED
    BY <1>1, <1>2, <1>3, <1>4, <1>5, <1>6, <1>7, <1>8 DEF Browser

LEMMA AgentKeepsInv ==
    ASSUME Inv, NEW a \in Calls, NEW p \in Payments \cup {None}, AgentCall(a, p)
    PROVE  Inv'
  <1>1. TypeOK'
    BY SendTypes DEF AgentCall, Inv, TypeOK
  <1>2. PaidOnce' /\ OutcomeEarned' /\ ReceiptsKept'
    BY SendKeeps DEF AgentCall
  <1>3. PageWaits'
    BY NoneAssumption
    DEF AgentCall, Send, Inv, TypeOK, Page, Call, PageWaits, ReceiptsKept
  <1>. QED
    BY <1>1, <1>2, <1>3 DEF Inv

LEMMA CrashKeepsInv ==
    ASSUME Inv, Crash
    PROVE  Inv'
  <1> USE DEF Inv, Crash
  <1>1. TypeOK'
    BY DEF TypeOK, Call, Replies
  <1>2. PaidOnce'
    BY DEF TypeOK, Call, PaidOnce, Attempted, HandlerSteps
  <1>3. OutcomeEarned'
    BY DEF TypeOK, Call, OutcomeEarned, Attempted
  <1>4. ReceiptsKept'
    BY DEF TypeOK, Call, ReceiptsKept, Running
  <1>5. PageWaits'
    BY NoneAssumption DEF TypeOK, Page, Call, PageWaits, Running
  <1>. QED
    BY <1>1, <1>2, <1>3, <1>4, <1>5

-----------------------------------------------------------------------------
(* The theorems.                                                            *)

\* Inv holds in every reachable state: it is inductive.
THEOREM Invariance == Spec => []Inv
  <1>1. Init => Inv
    BY InitInv
  <1>2. Inv /\ [Next]_vars => Inv'
    <2>. SUFFICES ASSUME Inv, [Next]_vars PROVE Inv'
      OBVIOUS
    <2>1. CASE Browser
      BY <2>1, BrowserTypes, BrowserKeepsReceipts, BrowserKeepsPage DEF Inv
    <2>2. ASSUME NEW a \in Calls, NEW p \in Payments \cup {None}, AgentCall(a, p)
          PROVE  Inv'
      BY <2>2, AgentKeepsInv
    <2>3. ASSUME NEW a \in Calls, Serve(a) PROVE Inv'
      BY <2>3, ServeKeepsInv
    <2>4. CASE Crash
      BY <2>4, CrashKeepsInv
    <2>5. CASE UNCHANGED vars
      BY <2>5 DEF vars, Inv, TypeOK, PaidOnce, OutcomeEarned, ReceiptsKept, PageWaits,
                  Attempted
    <2>. QED
      BY <2>1, <2>2, <2>3, <2>4, <2>5 DEF Next
  <1>. QED
    BY <1>1, <1>2, PTL DEF Spec

\* The variables keep their types.
THEOREM TypeCorrect == Spec => []TypeOK
  <1>1. Inv => TypeOK
    BY DEF Inv
  <1>. QED
    BY <1>1, Invariance, PTL

\* The language model is called for settled payments only, once for each.
THEOREM OneAttemptAlways == Spec => []OneAttemptPerPayment
  <1>1. Inv => OneAttemptPerPayment
    BY DEF Inv, PaidOnce, OneAttemptPerPayment
  <1>. QED
    BY <1>1, Invariance, PTL

\* What is kept as verified_repaired passed revalidation and was paid.
THEOREM RepairEarnedAlways == Spec => []RepairEarned
  <1>1. Inv => RepairEarned
    BY DEF Inv, TypeOK, PaidOnce, OutcomeEarned, ReceiptsKept, RepairEarned, HandlerSteps
  <1>. QED
    BY <1>1, Invariance, PTL

\* A page that says "settled" shows the answer to a payment on the ledger.
THEOREM PageShowsSettledAlways == Spec => []PageShowsSettled
  <1>1. Inv => PageShowsSettled
    BY DEF Inv, TypeOK, PaidOnce, ReceiptsKept, PageWaits, PageShowsSettled, HandlerSteps
  <1>. QED
    BY <1>1, Invariance, PTL
-----------------------------------------------------------------------------
(* The contract.                                                            *)

AttemptedCalls == {a \in Calls : Attempted(a)}
AcceptedCalls == {a \in Calls : calls[a].outcome = "verified_repaired"}

\* What the contract sees of a step: it settles a payment, spends one that was
\* settled and not spent, accepts one that was spent, or is a stutter.
ContractMove ==
    \/ /\ UNCHANGED <<settled, PaymentsOf(AttemptedCalls), PaymentsOf(AcceptedCalls)>>
    \/ \E p \in Payments : Contract!Settle(p) \/ Contract!Attempt(p) \/ Contract!Accept(p)

\* A step that keeps the payment, the attempt and the outcome of every call
\* leaves the spent and the accepted payments alone.
LEMMA SameReceipts ==
    ASSUME \A b \in Calls :
             /\ Attempted(b)' <=> Attempted(b)
             /\ calls'[b].outcome = "verified_repaired"
                  <=> calls[b].outcome = "verified_repaired"
             /\ (Attempted(b) \/ calls[b].outcome = "verified_repaired")
                  => calls'[b].payment = calls[b].payment
    PROVE  UNCHANGED <<PaymentsOf(AttemptedCalls), PaymentsOf(AcceptedCalls)>>
  <1>1. AttemptedCalls' = AttemptedCalls
    BY DEF AttemptedCalls, Attempted
  <1>2. AcceptedCalls' = AcceptedCalls
    BY DEF AcceptedCalls
  <1>3. \A b \in AttemptedCalls \cup AcceptedCalls : calls'[b].payment = calls[b].payment
    BY DEF AttemptedCalls, AcceptedCalls, Attempted
  <1>4. PaymentsOf(AttemptedCalls)' = PaymentsOf(AttemptedCalls)
    BY <1>1, <1>3 DEF PaymentsOf
  <1>5. PaymentsOf(AcceptedCalls)' = PaymentsOf(AcceptedCalls)
    BY <1>2, <1>3 DEF PaymentsOf
  <1>. QED
    BY <1>4, <1>5

LEMMA SendMoves ==
    ASSUME Inv, NEW a \in Calls, NEW p \in Payments \cup {None}, Send(a, p),
           UNCHANGED settled
    PROVE  ContractMove
  <1> USE DEF Inv, TypeOK, Send
  <1>1. ~Attempted(a) /\ calls[a].outcome = "open"
    BY DEF PaidOnce, OutcomeEarned
  <1>2. \A b \in Calls \ {a} : calls'[b] = calls[b]
    OBVIOUS
  <1>3. calls'[a].candidate = calls[a].candidate /\ calls'[a].outcome = calls[a].outcome
    BY DEF Call
  <1>. QED
    BY <1>1, <1>2, <1>3, SameReceipts DEF Attempted, ContractMove

LEMMA BrowserMoves ==
    ASSUME Inv, Browser
    PROVE  ContractMove
  <1>1. CASE UNCHANGED <<calls, settled>>
    BY <1>1, SameReceipts DEF Attempted, ContractMove
  <1>2. ASSUME NEW a \in Calls, OnEscalate(a) PROVE ContractMove
    BY <1>2, SendMoves DEF OnEscalate
  <1>3. ASSUME NEW a \in Calls, NEW p \in Payments, SignAndSubmit(a, p)
        PROVE  ContractMove
    BY <1>3, SendMoves DEF SignAndSubmit
  <1>4. CASE OnPay \/ SigningFails \/ TryAgain \/ Reload
    BY <1>1, <1>4 DEF OnPay, SigningFails, TryAgain, Reload
  <1>5. ASSUME NEW a \in Calls, Deliver(a) \/ LoseReply(a) PROVE ContractMove
    BY <1>1, <1>5 DEF Deliver, LoseReply
  <1>. QED
    BY <1>2, <1>3, <1>4, <1>5 DEF Browser

LEMMA CrashMoves ==
    ASSUME Inv, Crash
    PROVE  ContractMove
  BY SameReceipts DEF Inv, TypeOK, Call, Crash, Attempted, ContractMove

\* A step of one call that leaves its candidate and its outcome alone.
LEMMA QuietMoves ==
    ASSUME Inv, NEW a \in Calls, Advances(a),
           calls'[a].candidate = calls[a].candidate,
           calls'[a].outcome = calls[a].outcome
    PROVE  UNCHANGED <<PaymentsOf(AttemptedCalls), PaymentsOf(AcceptedCalls)>>
  <1>1. \A b \in Calls \ {a} : calls'[b] = calls[b]
    BY DEF Advances, Inv, TypeOK
  <1>. QED
    BY <1>1, SameReceipts DEF Advances, Attempted

LEMMA SettleMoves ==
    ASSUME Inv, NEW a \in Calls, SettlePayment(a) \/ SettlementLost(a)
    PROVE  ContractMove
  <1>1. Advances(a)
    BY ServeAdvances DEF Serve
  <1>2. /\ calls'[a].candidate = calls[a].candidate
        /\ calls'[a].outcome = calls[a].outcome
    BY DEF SettlePayment, SettlementLost, Step, Inv, TypeOK, Call
  <1>3. UNCHANGED <<PaymentsOf(AttemptedCalls), PaymentsOf(AcceptedCalls)>>
    BY <1>1, <1>2, QuietMoves
  <1>4. calls[a].payment \in Payments
    BY DEF SettlePayment, SettlementLost, Inv, TypeOK, Call, OutcomeEarned
  <1>5. Contract!Settle(calls[a].payment)
    BY <1>3 DEF SettlePayment, SettlementLost, Contract!Settle, AttemptedCalls, AcceptedCalls
  <1>. QED
    BY <1>4, <1>5 DEF ContractMove

\* The attempt of a call adds its payment, which no other attempt used.
LEMMA AttemptMoves ==
    ASSUME Inv, NEW a \in Calls, AttemptRepair(a)
    PROVE  ContractMove
  <1> USE DEF Inv, TypeOK, Call
  <1> DEFINE p == calls[a].payment
  <1>1. calls[a].settlement /\ p \in settled /\ p \in Payments /\ ~Attempted(a)
    BY DEF AttemptRepair, PaidOnce, OutcomeEarned
  <1>2. \A b \in AttemptedCalls : calls[b].payment # p
    BY <1>1 DEF AttemptedCalls, PaidOnce
  <1>3. AttemptedCalls' = AttemptedCalls \cup {a}
    BY DEF AttemptRepair, AttemptedCalls, Attempted
  <1>4. \A b \in Calls : /\ calls'[b].payment = calls[b].payment
                         /\ calls'[b].outcome = calls[b].outcome
    BY DEF AttemptRepair
  <1>5. PaymentsOf(AttemptedCalls)' = PaymentsOf(AttemptedCalls) \cup {p}
    BY <1>3, <1>4 DEF PaymentsOf, AttemptedCalls
  <1>6. PaymentsOf(AcceptedCalls)' = PaymentsOf(AcceptedCalls)
    BY <1>4 DEF PaymentsOf, AcceptedCalls
  <1>7. p \in settled \ PaymentsOf(AttemptedCalls)
    BY <1>1, <1>2 DEF PaymentsOf
  <1>8. Contract!Attempt(p)
    BY <1>5, <1>6, <1>7 DEF AttemptRepair, Contract!Attempt, AttemptedCalls, AcceptedCalls
  <1>. QED
    BY <1>1, <1>8 DEF ContractMove

\* Revalidation accepts at most the payment of its own call, which was spent.
LEMMA RevalidateMoves ==
    ASSUME Inv, NEW a \in Calls, Revalidate(a)
    PROVE  ContractMove
  <1> USE DEF Inv, TypeOK, Call
  <1> DEFINE p == calls[a].payment
  <1>1. calls[a].settlement /\ p \in Payments /\ Attempted(a) /\ calls[a].outcome = "open"
    BY DEF Revalidate, PaidOnce, OutcomeEarned, HandlerSteps
  <1>2. \A b \in Calls : /\ calls'[b].payment = calls[b].payment
                         /\ calls'[b].candidate = calls[b].candidate
    BY DEF Revalidate, Judge
  <1>3. PaymentsOf(AttemptedCalls)' = PaymentsOf(AttemptedCalls)
    BY <1>2 DEF PaymentsOf, AttemptedCalls, Attempted
  <1>4. p \in PaymentsOf(AttemptedCalls)
    BY <1>1 DEF PaymentsOf, AttemptedCalls
  <1>5. CASE calls[a].candidate = "good"
    <2>1. AcceptedCalls' = AcceptedCalls \cup {a}
      BY <1>5 DEF Revalidate, Judge, AcceptedCalls
    <2>2. PaymentsOf(AcceptedCalls)' = PaymentsOf(AcceptedCalls) \cup {p}
      BY <1>2, <2>1 DEF PaymentsOf, AcceptedCalls
    <2>3. Contract!Accept(p)
      BY <1>3, <1>4, <2>2 DEF Revalidate, Contract!Accept, AttemptedCalls, AcceptedCalls
    <2>. QED
      BY <1>1, <2>3 DEF ContractMove
  <1>6. CASE calls[a].candidate # "good"
    <2>1. AcceptedCalls' = AcceptedCalls
      BY <1>1, <1>6 DEF Revalidate, Judge, AcceptedCalls
    <2>2. PaymentsOf(AcceptedCalls)' = PaymentsOf(AcceptedCalls)
      BY <1>2, <2>1 DEF PaymentsOf, AcceptedCalls
    <2>. QED
      BY <1>3, <2>2 DEF Revalidate, ContractMove
  <1>. QED
    BY <1>5, <1>6

LEMMA ServeMoves ==
    ASSUME Inv, NEW a \in Calls, Serve(a)
    PROVE  ContractMove
  <1> USE DEF Inv, TypeOK, Call
  <1>1. CASE SettlePayment(a) \/ SettlementLost(a)
    BY <1>1, SettleMoves
  <1>2. CASE AttemptRepair(a)
    BY <1>2, AttemptMoves
  <1>3. CASE Revalidate(a)
    BY <1>3, RevalidateMoves
  <1>4. CASE VerifyPayment(a) \/ SettlementFails(a) \/ HandlerFails(a) \/ PersistAndAnswer(a)
    <2>1. /\ calls'[a].candidate = calls[a].candidate
          /\ calls'[a].outcome = calls[a].outcome
          /\ UNCHANGED settled
      BY <1>4 DEF VerifyPayment, SettlementFails, HandlerFails, PersistAndAnswer, Step
    <2>. QED
      BY <2>1, ServeAdvances, QuietMoves DEF ContractMove
  <1>5. CASE SkipRepair(a)
    <2>1. /\ calls[a].outcome = "open"
          /\ calls'[a].outcome # "verified_repaired"
          /\ UNCHANGED settled
      BY <1>5 DEF SkipRepair, Judge, OutcomeEarned
    <2>2. \A b \in Calls \ {a} : calls'[b] = calls[b]
      BY <1>5 DEF SkipRepair, Judge
    <2>3. calls'[a].candidate = calls[a].candidate /\ calls'[a].payment = calls[a].payment
      BY <1>5 DEF SkipRepair, Judge
    <2>. QED
      BY <2>1, <2>2, <2>3, SameReceipts DEF Attempted, ContractMove
  <1>6. CASE ModelAnswers(a)
    <2>1. Attempted(a) /\ UNCHANGED settled
      BY <1>6 DEF ModelAnswers, OutcomeEarned
    <2>2. \A b \in Calls \ {a} : calls'[b] = calls[b]
      BY <1>6 DEF ModelAnswers
    <2>3. /\ calls'[a].candidate # "untried"
          /\ calls'[a].payment = calls[a].payment
          /\ calls'[a].outcome = calls[a].outcome
      BY <1>6 DEF ModelAnswers
    <2>. QED
      BY <2>1, <2>2, <2>3, SameReceipts DEF Attempted, ContractMove
  <1>. QED
    BY <1>1, <1>2, <1>3, <1>4, <1>5, <1>6 DEF Serve

\* The page, the middleware and the handler implement the contract: a payment
\* that is settled buys at most one attempt, and only an attempt is accepted.
THEOREM Refinement == Spec => ImplementsContract
  <1>1. Init => Contract!Init
    BY DEF Init, Contract!Init, PaymentsOf, Attempted
  <1>2. Inv /\ [Next]_vars => [Contract!Next]_(Contract!contractVars)
    <2>. SUFFICES ASSUME Inv, [Next]_vars PROVE [Contract!Next]_(Contract!contractVars)
      OBVIOUS
    <2>2. ASSUME NEW a \in Calls, NEW p \in Payments \cup {None}, AgentCall(a, p)
          PROVE  ContractMove
      BY <2>2, SendMoves DEF AgentCall
    <2>3. ASSUME NEW a \in Calls, Serve(a) PROVE ContractMove
      BY <2>3, ServeMoves
    <2>5. ASSUME UNCHANGED vars PROVE ContractMove
      BY <2>5, SameReceipts DEF vars, Attempted, ContractMove
    <2>6. ContractMove
      BY <2>2, <2>3, <2>5, BrowserMoves, CrashMoves DEF Next
    <2>. QED
      BY <2>6 DEF ContractMove, Contract!Next, Contract!contractVars,
                  AttemptedCalls, AcceptedCalls
  <1>. QED
    BY <1>1, <1>2, Invariance, PTL DEF Spec, ImplementsContract, Contract!Spec
=============================================================================
