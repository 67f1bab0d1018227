----------------------------- MODULE BrowserProofs -----------------------------
(***************************************************************************)
(* Proofs about Browser for any number of requests, receipts and calls,    *)
(* and any sizes of pages and log.  The inductive invariant has three      *)
(* parts, each about variables of its own: the backend's table, the pages  *)
(* that make receipts and the pages that show records.  A step of one kind *)
(* of page leaves the other parts alone, and a navigation is one Mount.    *)
(***************************************************************************)
EXTENDS Browser, FiniteSetTheorems, SequenceTheorems, TLAPS

-----------------------------------------------------------------------------
(* The backend.                                                              *)

\* A request has one row.
OneRow == \A i, j \in DOMAIN rows : rows[i] = rows[j] => i = j

TableInv == PagesTypeOK /\ OneRow /\ Len(receipts) <= MaxReceipts

LEMMA RowsFit ==
    ASSUME NEW s \in Seq(Requests), \A i, j \in DOMAIN s : s[i] = s[j] => i = j
    PROVE  Len(s) <= MaxRequests /\ DOMAIN s \subseteq Ids
  <1>. USE PagesAssumption
  <1>1. IsFiniteSet(Requests) /\ Cardinality(Requests) = MaxRequests
    BY FS_Interval DEF Requests
  <1>2. IsFiniteSet(1 .. Len(s)) /\ Cardinality(1 .. Len(s)) = Len(s)
    <2>1. CASE Len(s) = 0
      BY <2>1, FS_Interval
    <2>2. CASE Len(s) > 0
      BY <2>2, FS_Interval
    <2>. QED
      BY <2>1, <2>2
  <1>3. Len(s) <= MaxRequests
    <2>. SUFFICES ASSUME Len(s) > MaxRequests PROVE FALSE
      OBVIOUS
    <2>1. s \in [1 .. Len(s) -> Requests]
      OBVIOUS
    <2>2. \E x, y \in 1 .. Len(s) : x # y /\ s[x] = s[y]
      BY <1>1, <1>2, <2>1, FS_PigeonHole
    <2>. QED
      BY <2>2
  <1>. QED
    BY <1>3 DEF Ids

LEMMA IssueTable ==
    ASSUME TableInv, NEW q \in Requests, NEW b \in BOOLEAN, Issue(q, b),
           UNCHANGED place
    PROVE  /\ TableInv'
           /\ NextReceipt \in Receipts
           /\ Len(rows) <= Len(rows') /\ Len(rows') \in Nat
           /\ Len(receipts') = NextReceipt
           /\ receipts'[NextReceipt] = [request |-> q, repair |-> b]
           /\ \A i \in DOMAIN receipts : i \in DOMAIN receipts' /\ receipts'[i] = receipts[i]
  <1>. USE PagesAssumption DEF TableInv, PagesTypeOK, Issue, NextReceipt, place
  <1>1. [request |-> q, repair |-> b] \in Issued
    BY DEF Issued
  <1>2. receipts' \in Seq(Issued) /\ Len(receipts') = Len(receipts) + 1
    BY <1>1
  <1>3. NextReceipt \in Receipts /\ Len(receipts') <= MaxReceipts
    BY <1>2 DEF Receipts
  <1>4. rows' \in Seq(Requests) /\ Len(rows) <= Len(rows') /\ Len(rows') \in Nat
    OBVIOUS
  <1>5. OneRow'
    <2>1. CASE rows' = rows
      BY <2>1 DEF OneRow
    <2>2. CASE rows' = Append(rows, q) /\ \A i \in DOMAIN rows : rows[i] # q
      BY <2>2 DEF OneRow
    <2>. QED
      BY <2>1, <2>2
  <1>6. anchored' \in SUBSET Ids /\ route' \in Routes /\ recordId' \in Ids \cup {None}
    OBVIOUS
  <1>. QED
    BY <1>1, <1>2, <1>3, <1>4, <1>5, <1>6

LEMMA AnchorTable ==
    ASSUME TableInv, NEW i \in Ids, Anchor(i), UNCHANGED place PROVE TableInv'
  BY DEF TableInv, PagesTypeOK, OneRow, Anchor, place

-----------------------------------------------------------------------------
(* The pages that make receipts.                                             *)

TrueAnswer(a) == a.receipt \in DOMAIN receipts /\ receipts[a.receipt].request = a.request

\* A call on its way to the server or back names its request.
CallsNamed ==
    /\ \A c \in Calls : calls[c].step \in {"sent", "answered"} => calls[c].request \in Requests
    /\ \A r \in Repairs :
         repairs[r].step \in {"sent", "answered"} => repairs[r].request \in Requests

\* The repair a page waits for is of the request of its location.
RepairOfState ==
    \A r \in Repairs :
        repairs[r].here /\ repairs[r].step # "error" /\ ~result.replaced =>
            repairs[r].request = result.state.request

\* What was logged was issued, and is not what an answer on its way brings.
DueIssued ==
    /\ \A i \in DOMAIN due : due[i] \in DOMAIN receipts
    /\ \A r \in Repairs, i \in DOMAIN due :
         repairs[r].step = "answered" => due[i] # repairs[r].receipt

VerifyInv ==
    /\ VerifyTypeOK
    /\ CallsApart
    /\ AnswersTrue
    /\ CallsNamed
    /\ RepairOfState
    /\ DueIssued
    /\ LogTrue
    /\ ResultIsOfRequest

\* What a call holds when a receipt is given to it.
LEMMA AnswerTypes ==
    ASSUME VerifyTypeOK, CallsNamed
    PROVE  /\ \A c \in Calls : calls[c].step = "answered" /\ calls[c].receipt # None => AnswerOf(c) \in Answer
           /\ \A r \in Repairs : repairs[r].step = "answered" /\ repairs[r].receipt # None => RepairAnswer(r) \in Answer
  BY DEF VerifyTypeOK, CallsNamed, Call, AnswerOf, RepairAnswer, Answer

\* A call that is answered is a call still.
LEMMA AnsweredCall ==
    ASSUME NEW call \in Call, NEW i \in Receipts
    PROVE  [call EXCEPT !.step = "answered", !.receipt = i] \in Call
  BY DEF Call

LEMMA DraftInv ==
    ASSUME TableInv, VerifyInv,
           EditDraft \/ ApplyExample \/ SubmitRejected, UNCHANGED <<place, backend>>
    PROVE  VerifyInv'
  <1>. USE PagesAssumption, LogAssumption
       DEF VerifyInv, VerifyTypeOK, VerifyState, Call, ResultState, Answers, Answer, NoAnswer,
           EditDraft, ApplyExample, SubmitRejected, SubmitEnabled, place, backend
  <1>1. VerifyTypeOK'
    <2>1. CASE EditDraft
      <3>1. \E b \in BOOLEAN : verify' = [verify EXCEPT !.parses = b]
        BY <2>1
      <3>. QED
        BY ZenonT(60), <2>1, <3>1
    <2>2. CASE ApplyExample
      BY ZenonT(60), <2>2
    <2>3. CASE SubmitRejected
      BY ZenonT(60), <2>3
    <2>. QED
      BY <2>1, <2>2, <2>3
  <1>2. CallsApart'
    BY DEF CallsApart, NewResult
  <1>3. AnswersTrue'
    BY DEF AnswersTrue
  <1>4. CallsNamed'
    BY DEF CallsNamed
  <1>5. RepairOfState'
    BY DEF RepairOfState, CallsApart
  <1>6. LogTrue'
    BY DEF LogTrue, AnswersTrue
  <1>7. DueIssued'
    BY DEF DueIssued
  <1>8. ResultIsOfRequest'
    BY DEF ResultIsOfRequest
  <1>. QED
    BY <1>1, <1>2, <1>3, <1>4, <1>5, <1>6, <1>7, <1>8

LEMMA SubmitInv ==
    ASSUME TableInv, VerifyInv,
           NEW c \in Calls, Submit(c), UNCHANGED <<place, backend>>
    PROVE  VerifyInv'
  <1>. USE PagesAssumption, LogAssumption
       DEF VerifyInv, VerifyTypeOK, VerifyState, Call, ResultState, Answers, Answer, NoAnswer,
           Submit, SubmitEnabled, NoCall, place, backend
  <1>1. VerifyTypeOK'
    <2>1. sent + 1 \in 0 .. OwnRequests /\ sent + 1 \in Requests
      BY DEF Requests
    <2>. QED
      BY <2>1
  <1>2. CallsApart'
    BY DEF CallsApart, NewResult
  <1>3. AnswersTrue'
    BY DEF AnswersTrue
  <1>4. CallsNamed'
    <2>1. sent + 1 \in 0 .. OwnRequests /\ sent + 1 \in Requests
      BY DEF Requests
    <2>. QED
      BY <2>1 DEF CallsNamed
  <1>5. RepairOfState'
    BY DEF RepairOfState, CallsApart
  <1>6. LogTrue'
    BY DEF LogTrue, AnswersTrue
  <1>7. DueIssued'
    BY DEF DueIssued
  <1>8. ResultIsOfRequest'
    BY DEF ResultIsOfRequest
  <1>. QED
    BY <1>1, <1>2, <1>3, <1>4, <1>5, <1>6, <1>7, <1>8

LEMMA DeliverVerifyErrorInv ==
    ASSUME TableInv, VerifyInv,
           NEW c \in Calls, DeliverVerifyError(c), UNCHANGED <<place, backend>>
    PROVE  VerifyInv'
  <1>. USE PagesAssumption, LogAssumption
       DEF VerifyInv, VerifyTypeOK, VerifyState, Call, ResultState, Answers, Answer, NoAnswer,
           DeliverVerifyError, NoCall, place, backend
  <1>1. VerifyTypeOK'
    OBVIOUS
  <1>2. CallsApart'
    BY DEF CallsApart, NewResult
  <1>3. AnswersTrue'
    BY DEF AnswersTrue
  <1>4. CallsNamed'
    BY DEF CallsNamed
  <1>5. RepairOfState'
    BY DEF RepairOfState, CallsApart
  <1>6. LogTrue'
    BY DEF LogTrue, AnswersTrue
  <1>7. DueIssued'
    BY DEF DueIssued
  <1>8. ResultIsOfRequest'
    BY DEF ResultIsOfRequest
  <1>. QED
    BY <1>1, <1>2, <1>3, <1>4, <1>5, <1>6, <1>7, <1>8

LEMMA RequestRepairInv ==
    ASSUME TableInv, VerifyInv,
           NEW r \in Repairs, RequestRepair(r), UNCHANGED <<place, backend>>
    PROVE  VerifyInv'
  <1>. USE PagesAssumption, LogAssumption
       DEF VerifyInv, VerifyTypeOK, VerifyState, Call, ResultState, Answers, Answer, NoAnswer,
           RequestRepair, ResultShown, NoCall, place, backend
  <1>1. VerifyTypeOK'
    OBVIOUS
  <1>2. CallsApart'
    BY DEF CallsApart, NewResult
  <1>3. AnswersTrue'
    BY DEF AnswersTrue
  <1>4. CallsNamed'
    <2>1. result.state.request \in Requests
      BY DEF ResultShown
    <2>. QED
      BY <2>1 DEF CallsNamed
  <1>5. RepairOfState'
    BY DEF RepairOfState, CallsApart
  <1>6. LogTrue'
    BY DEF LogTrue, AnswersTrue
  <1>7. DueIssued'
    BY DEF DueIssued
  <1>8. ResultIsOfRequest'
    BY DEF ResultIsOfRequest
  <1>. QED
    BY <1>1, <1>2, <1>3, <1>4, <1>5, <1>6, <1>7, <1>8

LEMMA DeliverRepairErrorInv ==
    ASSUME TableInv, VerifyInv,
           NEW r \in Repairs, DeliverRepairError(r), UNCHANGED <<place, backend>>
    PROVE  VerifyInv'
  <1>. USE PagesAssumption, LogAssumption
       DEF VerifyInv, VerifyTypeOK, VerifyState, Call, ResultState, Answers, Answer, NoAnswer,
           DeliverRepairError, NoCall, place, backend
  <1>1. VerifyTypeOK'
    OBVIOUS
  <1>2. CallsApart'
    <2>1. \A s \in Repairs : /\ repairs'[s].here <=> s # r /\ repairs[s].here
                             /\ repairs'[s].here => repairs'[s].step = repairs[s].step
      OBVIOUS
    <2>2. CASE repairs[r].here
      <3>1. ~result'.waiting /\ \A s \in Repairs : ~repairs'[s].here
        BY <2>1, <2>2 DEF CallsApart
      <3>2. route = "result" /\ UNCHANGED <<verify, calls, route, recordId>>
        BY <2>2 DEF CallsApart
      <3>. QED
        BY <3>1, <3>2 DEF CallsApart
    <2>3. CASE ~repairs[r].here
      <3>1. \A s \in Repairs : repairs'[s].here <=> repairs[s].here
        BY <2>1, <2>3
      <3>2. UNCHANGED <<verify, calls, route, recordId, result>>
        BY <2>3
      <3>. QED
        BY ZenonT(60), <2>1, <3>1, <3>2 DEF CallsApart, NewResult
    <2>. QED
      BY <2>2, <2>3
  <1>3. AnswersTrue'
    BY DEF AnswersTrue
  <1>4. CallsNamed'
    BY DEF CallsNamed
  <1>5. RepairOfState'
    BY DEF RepairOfState, CallsApart
  <1>6. LogTrue'
    BY DEF LogTrue, AnswersTrue
  <1>7. DueIssued'
    BY DEF DueIssued
  <1>8. ResultIsOfRequest'
    BY DEF ResultIsOfRequest
  <1>. QED
    BY <1>1, <1>2, <1>3, <1>4, <1>5, <1>6, <1>7, <1>8

LEMMA AppendedIs ==
    ASSUME NEW e \in Answer, log \in Seq(Answer), Len(log) <= MaxEntries
    PROVE  /\ Appended(e) \in Seq(Answer)
           /\ Len(Appended(e)) = IF Len(log) < MaxEntries THEN Len(log) + 1 ELSE MaxEntries
           /\ \A i \in DOMAIN Appended(e) : Appended(e)[i] = IF i = 1 THEN e ELSE log[i - 1]
  <1>. USE LogAssumption
  <1>. DEFINE s == <<e>> \o log
              n == IF Len(log) < MaxEntries THEN Len(log) + 1 ELSE MaxEntries
  <1>1. /\ s \in Seq(Answer) /\ Len(s) = Len(log) + 1
        /\ \A i \in 1 .. Len(s) : s[i] = IF i = 1 THEN e ELSE log[i - 1]
    <2>1. <<e>> \in Seq(Answer) /\ Len(<<e>>) = 1 /\ <<e>>[1] = e
      OBVIOUS
    <2>. QED
      BY <2>1, ConcatProperties
  <1>2. n \in 1 .. Len(s)
    BY <1>1
  <1>3. SubSeq(s, 1, n) \in Seq(Answer) /\ Len(SubSeq(s, 1, n)) = n
        /\ \A i \in 1 .. n : SubSeq(s, 1, n)[i] = s[i]
    <2>. HIDE DEF s, n
    <2>. QED
      BY <1>1, <1>2, SubSeqProperties
  <1>4. Appended(e) = SubSeq(s, 1, n) /\ n = IF Len(log) < MaxEntries THEN Len(log) + 1 ELSE MaxEntries
    BY DEF Appended
  <1>. QED
    <2>. HIDE DEF s, n
    <2>1. DOMAIN Appended(e) = 1 .. n
      BY <1>2, <1>3, <1>4
    <2>2. \A i \in 1 .. n : i \in 1 .. Len(s)
      BY <1>1, <1>2
    <2>. QED
      BY <1>1, <1>3, <1>4, <2>1, <2>2

\* A repair that was not logged before is logged on top.
LEMMA LogGrows ==
    ASSUME VerifyTypeOK, LogTrue, NEW e \in Answer,
           e.receipt \in DOMAIN receipts,
           receipts[e.receipt] = [request |-> e.request, repair |-> TRUE],
           \A i \in DOMAIN due : due[i] # e.receipt,
           log' = Appended(e), due' = Append(due, e.receipt), UNCHANGED receipts
    PROVE  log' \in Seq(Answer) /\ due' \in Seq(Receipts) /\ LogTrue'
  <1>. USE LogAssumption DEF LogTrue
  <1>1. log \in Seq(Answer) /\ due \in Seq(Receipts) /\ e.receipt \in Receipts /\ Len(log) <= MaxEntries
    BY DEF VerifyTypeOK, Answer
  <1>2. /\ log' \in Seq(Answer)
        /\ Len(log') = IF Len(log) < MaxEntries THEN Len(log) + 1 ELSE MaxEntries
        /\ \A i \in DOMAIN log' : log'[i] = IF i = 1 THEN e ELSE log[i - 1]
    BY <1>1, AppendedIs
  <1>3. /\ due' \in Seq(Receipts) /\ Len(due') = Len(due) + 1
        /\ due'[Len(due) + 1] = e.receipt
        /\ \A i \in DOMAIN due : due'[i] = due[i]
    BY <1>1
  <1>4. Len(log') = IF Len(due') < MaxEntries THEN Len(due') ELSE MaxEntries
    BY <1>1, <1>2, <1>3
  <1>5. ASSUME NEW i \in DOMAIN log'
        PROVE  /\ log'[i].receipt = due'[Len(due') + 1 - i]
               /\ log'[i].receipt \in DOMAIN receipts
               /\ receipts[log'[i].receipt] = [request |-> log'[i].request, repair |-> TRUE]
    <2>1. CASE i = 1
      <3>1. log'[i] = e
        BY <1>2, <2>1
      <3>2. Len(due') + 1 - i = Len(due) + 1
        BY <1>1, <1>3, <2>1
      <3>. QED
        BY <1>3, <3>1, <3>2
    <2>2. CASE i # 1
      <3>1. i - 1 \in DOMAIN log /\ log'[i] = log[i - 1]
        BY <1>1, <1>2, <2>2
      <3>2. /\ Len(due) + 1 - (i - 1) \in DOMAIN due
            /\ Len(due) + 1 - (i - 1) = Len(due') + 1 - i
        BY <1>1, <1>2, <1>3, <2>2
      <3>3. due'[Len(due') + 1 - i] = due[Len(due) + 1 - (i - 1)]
        BY <1>3, <3>2
      <3>. QED
        BY <3>1, <3>3
    <2>. QED
      BY <2>1, <2>2
  <1>6. ASSUME NEW i \in DOMAIN due', NEW j \in DOMAIN due', due'[i] = due'[j] PROVE i = j
    <2>1. /\ i \in DOMAIN due \/ i = Len(due) + 1
          /\ j \in DOMAIN due \/ j = Len(due) + 1
      BY <1>1, <1>3
    <2>. QED
      BY <1>3, <1>6, <2>1
  <1>. QED
    BY <1>2, <1>3, <1>4, <1>5, <1>6

LEMMA LastOrBefore ==
    ASSUME NEW T, NEW s \in Seq(T), NEW e \in T
    PROVE  \A i \in DOMAIN Append(s, e) : Append(s, e)[i] = e \/ \E j \in DOMAIN s : Append(s, e)[i] = s[j]
  <1>1. DOMAIN Append(s, e) = 1 .. Len(s) + 1 /\ DOMAIN s = 1 .. Len(s)
    OBVIOUS
  <1>. QED
    BY <1>1, AppendProperties

LEMMA DeliverRepairInv ==
    ASSUME TableInv, VerifyInv,
           NEW r \in Repairs, DeliverRepair(r), UNCHANGED <<place, backend>>
    PROVE  VerifyInv'
  <1>. USE PagesAssumption, LogAssumption
       DEF VerifyInv, VerifyTypeOK, VerifyState, Call, ResultState, Answers, Answer, NoAnswer,
           DeliverRepair, ShowRepair, NoCall, place, backend
  <1>a. /\ RepairAnswer(r) \in Answer /\ TrueAnswer(RepairAnswer(r))
        /\ RepairAnswer(r).receipt = repairs[r].receipt /\ RepairAnswer(r).request = repairs[r].request
        /\ repairs[r].receipt \in DOMAIN receipts
    <2>1. repairs[r].receipt \in DOMAIN receipts /\ receipts[repairs[r].receipt].request = repairs[r].request
      BY DEF AnswersTrue
    <2>2. repairs[r].receipt # None
      BY <2>1 DEF TableInv, PagesTypeOK
    <2>. QED
      BY <2>1, <2>2, AnswerTypes DEF RepairAnswer, TrueAnswer
  <1>b. receipts[repairs[r].receipt] = [request |-> repairs[r].request, repair |-> TRUE]
    <2>1. /\ receipts[repairs[r].receipt] \in Issued /\ receipts[repairs[r].receipt].repair
          /\ receipts[repairs[r].receipt].request = repairs[r].request
      BY <1>a DEF AnswersTrue, TableInv, PagesTypeOK
    <2>. QED
      BY <2>1 DEF Issued
  <1>c. /\ log' \in Seq(Answer) /\ due' \in Seq(Receipts) /\ LogTrue'
        /\ due' \in {due, Append(due, repairs[r].receipt)}
    <2>1. CASE UNCHANGED <<log, due>>
      BY <2>1 DEF LogTrue
    <2>2. CASE log' = Appended(RepairAnswer(r)) /\ due' = Append(due, repairs[r].receipt)
      <3>1. \A i \in DOMAIN due : due[i] # RepairAnswer(r).receipt
        BY <1>a DEF DueIssued
      <3>2. UNCHANGED receipts
        OBVIOUS
      <3>. QED
        BY <1>a, <1>b, <2>2, <3>1, <3>2, LogGrows
    <2>. QED
      BY <2>1, <2>2
  <1>d. \A s \in Repairs : repairs'[s] = IF s = r THEN NoCall ELSE repairs[s]
    OBVIOUS
  <1>1. VerifyTypeOK'
    <2>1. NoCall \in Call /\ repairs' \in [Repairs -> Call]
      OBVIOUS
    <2>2. result' \in ResultState
      BY <1>a
    <2>. QED
      BY <1>c, <2>1, <2>2
  <1>2. CallsApart'
    <2>1. \A s \in Repairs : /\ repairs'[s].here <=> s # r /\ repairs[s].here
                             /\ repairs'[s].here => repairs'[s].step = repairs[s].step
      OBVIOUS
    <2>2. CASE repairs[r].here
      <3>1. ~result'.waiting /\ \A s \in Repairs : ~repairs'[s].here
        BY <2>1, <2>2 DEF CallsApart
      <3>2. route = "result" /\ UNCHANGED <<verify, calls, route, recordId>>
        BY <2>2 DEF CallsApart
      <3>. QED
        BY <3>1, <3>2 DEF CallsApart
    <2>3. CASE ~repairs[r].here
      <3>1. \A s \in Repairs : repairs'[s].here <=> repairs[s].here
        BY <2>1, <2>3
      <3>2. UNCHANGED <<verify, calls, route, recordId, result>>
        BY <2>3
      <3>. QED
        BY ZenonT(60), <2>1, <3>1, <3>2 DEF CallsApart, NewResult
    <2>. QED
      BY <2>2, <2>3
  <1>3. AnswersTrue'
    BY <1>a DEF AnswersTrue, TrueAnswer
  <1>4. CallsNamed'
    BY DEF CallsNamed
  <1>5. RepairOfState'
    BY DEF RepairOfState, CallsApart
  <1>6. LogTrue'
    BY <1>c
  <1>7. DueIssued'
    <2>1. \A i \in DOMAIN due' : due'[i] = repairs[r].receipt \/ \E j \in DOMAIN due : due'[i] = due[j]
      <3>1. due \in Seq(Receipts) /\ repairs[r].receipt \in Receipts
        BY <1>a
      <3>2. CASE due' = due
        BY <3>2
      <3>3. CASE due' = Append(due, repairs[r].receipt)
        BY <3>1, <3>3, LastOrBefore
      <3>. QED
        BY <1>c, <3>2, <3>3
    <2>2. \A s \in Repairs : repairs'[s].step = "answered" =>
            s # r /\ repairs[s].step = "answered" /\ repairs'[s].receipt = repairs[s].receipt
      BY <1>d
    <2>3. \A s \in Repairs : repairs[s].step = "answered" /\ s # r =>
            repairs[s].receipt # repairs[r].receipt
      BY DEF AnswersTrue
    <2>. QED
      BY SMTT(30), <1>a, <2>1, <2>2, <2>3 DEF DueIssued
  <1>8. ResultIsOfRequest'
    BY <1>a DEF ResultIsOfRequest, RepairOfState
  <1>. QED
    BY <1>1, <1>2, <1>3, <1>4, <1>5, <1>6, <1>7, <1>8

\* A receipt issued to another client, or none.
LEMMA ReceiptsGrow ==
    ASSUME TableInv, VerifyInv,
           \A i \in DOMAIN receipts : i \in DOMAIN receipts' /\ receipts'[i] = receipts[i],
           UNCHANGED <<place, verifyVars>>
    PROVE  VerifyInv'
  <1>. USE PagesAssumption, LogAssumption
       DEF VerifyInv, VerifyTypeOK, VerifyState, Call, ResultState, Answers, Answer, NoAnswer,
           place, verifyVars
  <1>1. VerifyTypeOK'
    OBVIOUS
  <1>2. CallsApart'
    BY DEF CallsApart, NewResult
  <1>3. AnswersTrue'
    BY DEF AnswersTrue
  <1>4. CallsNamed'
    BY DEF CallsNamed
  <1>5. RepairOfState'
    BY DEF RepairOfState, CallsApart
  <1>6. LogTrue'
    BY DEF LogTrue, AnswersTrue
  <1>7. DueIssued'
    BY DEF DueIssued
  <1>8. ResultIsOfRequest'
    BY DEF ResultIsOfRequest
  <1>. QED
    BY <1>1, <1>2, <1>3, <1>4, <1>5, <1>6, <1>7, <1>8

LEMMA ServeVerifyInv ==
    ASSUME TableInv, VerifyInv,
           NEW c \in Calls, ServeVerify(c)
    PROVE  VerifyInv'
  <1>. USE PagesAssumption, LogAssumption
       DEF VerifyInv, VerifyTypeOK, VerifyState, Call, ResultState, Answers, Answer, NoAnswer,
           ServeVerify, place
  <1>a. /\ NextReceipt \in Receipts /\ NextReceipt \in DOMAIN receipts' /\ NextReceipt \notin DOMAIN receipts
        /\ receipts'[NextReceipt] = [request |-> calls[c].request, repair |-> FALSE]
        /\ \A i \in DOMAIN receipts : i \in DOMAIN receipts' /\ receipts'[i] = receipts[i]
    <2>1. calls[c].request \in Requests
      BY DEF CallsNamed
    <2>2. receipts' \in Seq(Issued) /\ Len(receipts') = NextReceipt
      BY <2>1, IssueTable DEF TableInv, PagesTypeOK
    <2>3. NextReceipt \in DOMAIN receipts' /\ NextReceipt \notin DOMAIN receipts
      BY <2>2 DEF TableInv, PagesTypeOK, NextReceipt
    <2>. QED
      BY <2>1, <2>3, IssueTable
  <1>1. VerifyTypeOK'
    <2>1. [calls[c] EXCEPT !.step = "answered", !.receipt = NextReceipt] \in Call
      <3>1. calls[c] \in Call
        OBVIOUS
      <3>. HIDE DEF Call, VerifyInv, TableInv
      <3>. QED
        BY Zenon, <3>1, <1>a, AnsweredCall
    <2>2. calls' = [calls EXCEPT ![c] = [calls[c] EXCEPT !.step = "answered", !.receipt = NextReceipt]]
      OBVIOUS
    <2>3. calls' \in [Calls -> Call]
      BY <2>1, <2>2
    <2>. QED
      BY <2>3
  <1>2. CallsApart'
    <2>3. calls' = [calls EXCEPT ![c] = [calls[c] EXCEPT !.step = "answered", !.receipt = NextReceipt]]
      OBVIOUS
    <2>4. /\ calls'[c].here = calls[c].here /\ calls'[c].step = "answered"
          /\ \A s \in Calls : s # c => calls'[s] = calls[s]
      BY SMTT(30), <2>3
    <2>1. \A s \in Calls : /\ calls'[s].here <=> calls[s].here
                           /\ calls'[s].here /\ calls[s].step # "none" => calls'[s].step # "none"
      BY <2>4
    <2>2. UNCHANGED <<verify, repairs, route, recordId, result>>
      OBVIOUS
    <2>. QED
      BY <2>1, <2>2 DEF CallsApart, NewResult
  <1>3. AnswersTrue'
    BY <1>a DEF AnswersTrue
  <1>4. CallsNamed'
    BY DEF CallsNamed
  <1>5. RepairOfState'
    BY DEF RepairOfState, CallsApart
  <1>6. LogTrue'
    BY <1>a DEF LogTrue, AnswersTrue
  <1>7. DueIssued'
    BY <1>a DEF DueIssued
  <1>8. ResultIsOfRequest'
    BY DEF ResultIsOfRequest
  <1>. QED
    BY <1>1, <1>2, <1>3, <1>4, <1>5, <1>6, <1>7, <1>8

LEMMA ServeRepairInv ==
    ASSUME TableInv, VerifyInv,
           NEW r \in Repairs, ServeRepair(r)
    PROVE  VerifyInv'
  <1>. USE PagesAssumption, LogAssumption
       DEF VerifyInv, VerifyTypeOK, VerifyState, Call, ResultState, Answers, Answer, NoAnswer,
           ServeRepair, place
  <1>a. /\ NextReceipt \in Receipts /\ NextReceipt \in DOMAIN receipts' /\ NextReceipt \notin DOMAIN receipts
        /\ receipts'[NextReceipt] = [request |-> repairs[r].request, repair |-> TRUE]
        /\ \A i \in DOMAIN receipts : i \in DOMAIN receipts' /\ receipts'[i] = receipts[i]
    <2>1. repairs[r].request \in Requests
      BY DEF CallsNamed
    <2>2. receipts' \in Seq(Issued) /\ Len(receipts') = NextReceipt
      BY <2>1, IssueTable DEF TableInv, PagesTypeOK
    <2>3. NextReceipt \in DOMAIN receipts' /\ NextReceipt \notin DOMAIN receipts
      BY <2>2 DEF TableInv, PagesTypeOK, NextReceipt
    <2>. QED
      BY <2>1, <2>3, IssueTable
  <1>1. VerifyTypeOK'
    <2>1. [repairs[r] EXCEPT !.step = "answered", !.receipt = NextReceipt] \in Call
      <3>1. repairs[r] \in Call
        OBVIOUS
      <3>. HIDE DEF Call, VerifyInv, TableInv
      <3>. QED
        BY Zenon, <3>1, <1>a, AnsweredCall
    <2>2. repairs' = [repairs EXCEPT ![r] = [repairs[r] EXCEPT !.step = "answered", !.receipt = NextReceipt]]
      OBVIOUS
    <2>3. repairs' \in [Repairs -> Call]
      BY <2>1, <2>2
    <2>. QED
      BY <2>3
  <1>2. CallsApart'
    <2>1. \A s \in Repairs : /\ repairs'[s].here <=> repairs[s].here
                             /\ repairs'[s].here /\ repairs[s].step # "none" => repairs'[s].step # "none"
      OBVIOUS
    <2>2. UNCHANGED <<verify, calls, route, recordId, result>>
      OBVIOUS
    <2>. QED
      BY <2>1, <2>2 DEF CallsApart, NewResult
  <1>3. AnswersTrue'
    BY <1>a DEF AnswersTrue
  <1>4. CallsNamed'
    BY DEF CallsNamed
  <1>5. RepairOfState'
    BY DEF RepairOfState, CallsApart
  <1>6. LogTrue'
    BY <1>a DEF LogTrue, AnswersTrue
  <1>7. DueIssued'
    <2>1. \A s \in Repairs : /\ s # r => repairs'[s] = repairs[s]
                             /\ repairs'[r].receipt = NextReceipt
      OBVIOUS
    <2>. QED
      BY <1>a, <2>1 DEF DueIssued
  <1>8. ResultIsOfRequest'
    BY DEF ResultIsOfRequest
  <1>. QED
    BY <1>1, <1>2, <1>3, <1>4, <1>5, <1>6, <1>7, <1>8

LEMMA VerifyFailsInv ==
    ASSUME TableInv, VerifyInv,
           NEW c \in Calls, VerifyFails(c)
    PROVE  VerifyInv'
  <1>. USE PagesAssumption, LogAssumption
       DEF VerifyInv, VerifyTypeOK, VerifyState, Call, ResultState, Answers, Answer, NoAnswer,
           VerifyFails, Failed, NoCall, place, backend
  <1>1. VerifyTypeOK'
    <2>1. Failed(calls[c]) \in Call
      OBVIOUS
    <2>2. calls' \in [Calls -> Call]
      BY <2>1
    <2>. QED
      BY <2>2
  <1>2. CallsApart'
    BY DEF CallsApart, NewResult
  <1>3. AnswersTrue'
    BY DEF AnswersTrue
  <1>4. CallsNamed'
    BY DEF CallsNamed
  <1>5. RepairOfState'
    BY DEF RepairOfState, CallsApart
  <1>6. LogTrue'
    BY DEF LogTrue, AnswersTrue
  <1>7. DueIssued'
    BY DEF DueIssued
  <1>8. ResultIsOfRequest'
    BY DEF ResultIsOfRequest
  <1>. QED
    BY <1>1, <1>2, <1>3, <1>4, <1>5, <1>6, <1>7, <1>8

LEMMA RepairFailsInv ==
    ASSUME TableInv, VerifyInv,
           NEW r \in Repairs, RepairFails(r)
    PROVE  VerifyInv'
  <1>. USE PagesAssumption, LogAssumption
       DEF VerifyInv, VerifyTypeOK, VerifyState, Call, ResultState, Answers, Answer, NoAnswer,
           RepairFails, Failed, NoCall, place, backend
  <1>1. VerifyTypeOK'
    OBVIOUS
  <1>2. CallsApart'
    BY DEF CallsApart, NewResult
  <1>3. AnswersTrue'
    BY DEF AnswersTrue
  <1>4. CallsNamed'
    BY DEF CallsNamed
  <1>5. RepairOfState'
    BY DEF RepairOfState, CallsApart
  <1>6. LogTrue'
    BY DEF LogTrue, AnswersTrue
  <1>7. DueIssued'
    BY DEF DueIssued
  <1>8. ResultIsOfRequest'
    BY DEF ResultIsOfRequest
  <1>. QED
    BY <1>1, <1>2, <1>3, <1>4, <1>5, <1>6, <1>7, <1>8

LEMMA ClearLogInv ==
    ASSUME TableInv, VerifyInv,
           ClearLog, UNCHANGED <<place, backend>>
    PROVE  VerifyInv'
  <1>. USE PagesAssumption, LogAssumption
       DEF VerifyInv, VerifyTypeOK, VerifyState, Call, ResultState, Answers, Answer, NoAnswer,
           ClearLog, place, backend
  <1>1. VerifyTypeOK'
    OBVIOUS
  <1>2. CallsApart'
    BY DEF CallsApart, NewResult
  <1>3. AnswersTrue'
    BY DEF AnswersTrue
  <1>4. CallsNamed'
    BY DEF CallsNamed
  <1>5. RepairOfState'
    BY DEF RepairOfState, CallsApart
  <1>6. LogTrue'
    BY DEF LogTrue, AnswersTrue
  <1>7. DueIssued'
    BY DEF DueIssued
  <1>8. ResultIsOfRequest'
    BY DEF ResultIsOfRequest
  <1>. QED
    BY <1>1, <1>2, <1>3, <1>4, <1>5, <1>6, <1>7, <1>8

\* A navigation that leaves the page.
LEMMA LeaveInv ==
    ASSUME TableInv, VerifyInv,
           NEW s \in Answers, LeaveVerifyPages(s), s # NoAnswer => TrueAnswer(s),
           calls' \in [Calls -> Call],
           \A c \in Calls : calls'[c] \in {[calls[c] EXCEPT !.here = FALSE], NoCall},
           visited' \in SUBSET Answer, \A v \in visited' : TrueAnswer(v),
           route' = "record" <=> recordId' # None, route' # "result" => s = NoAnswer,
           UNCHANGED <<backend, sent, log, due>>
    PROVE  VerifyInv'
  <1>. USE PagesAssumption, LogAssumption
       DEF VerifyInv, VerifyTypeOK, VerifyState, Call, ResultState, Answers, Answer, NoAnswer,
           LeaveVerifyPages, FreshVerify, NewResult, NoCall, TrueAnswer, backend
  <1>a. /\ repairs' \in [Repairs -> Call]
        /\ \A r \in Repairs : /\ ~repairs'[r].here
                              /\ repairs'[r].step = repairs[r].step
                              /\ repairs'[r].request = repairs[r].request
                              /\ repairs'[r].receipt = repairs[r].receipt
    <2>1. DOMAIN repairs = Repairs
      OBVIOUS
    <2>2. repairs' = [r \in Repairs |-> [repairs[r] EXCEPT !.here = FALSE]]
      BY <2>1 DEF Departed
    <2>3. ASSUME NEW r \in Repairs
          PROVE  /\ [repairs[r] EXCEPT !.here = FALSE] \in Call
                 /\ ~[repairs[r] EXCEPT !.here = FALSE].here
                 /\ [repairs[r] EXCEPT !.here = FALSE].step = repairs[r].step
                 /\ [repairs[r] EXCEPT !.here = FALSE].request = repairs[r].request
                 /\ [repairs[r] EXCEPT !.here = FALSE].receipt = repairs[r].receipt
      <3>1. repairs[r] \in Call
        OBVIOUS
      <3>. QED
        BY <3>1
    <2>. QED
      BY <2>2, <2>3
  <1>b. \A c \in Calls : /\ ~calls'[c].here
                        /\ calls'[c].step \in {calls[c].step, "none"}
                        /\ calls'[c].step # "none" =>
                              calls'[c].receipt = calls[c].receipt /\ calls'[c].request = calls[c].request
    <2>1. ASSUME NEW c \in Calls, calls'[c] = NoCall
          PROVE  ~calls'[c].here /\ calls'[c].step = "none"
      BY <2>1
    <2>2. ASSUME NEW c \in Calls, calls'[c] = [calls[c] EXCEPT !.here = FALSE]
          PROVE  /\ ~calls'[c].here /\ calls'[c].step = calls[c].step
                 /\ calls'[c].receipt = calls[c].receipt /\ calls'[c].request = calls[c].request
      <3>1. calls[c] \in Call
        OBVIOUS
      <3>. QED
        BY <2>2, <3>1
    <2>. QED
      BY <2>1, <2>2
  <1>1. VerifyTypeOK'
    BY <1>a
  <1>2. CallsApart'
    <2>1. ~verify'.submitting /\ result' = NewResult(s)
      OBVIOUS
    <2>2. ~result'.waiting
      BY <2>1
    <2>3. route' # "result" => result' = NewResult(NoAnswer)
      BY <2>1
    <2>4. \A r \in Repairs : ~repairs'[r].here
      BY <1>a
    <2>5. \A c \in Calls : ~calls'[c].here
      BY <1>b
    <2>. HIDE DEF NewResult, NoAnswer, Call, ResultState, Answers, Answer, LeaveVerifyPages
    <2>. QED
      BY ZenonT(60), <2>1, <2>2, <2>3, <2>4, <2>5 DEF CallsApart
  <1>3. AnswersTrue'
    <2>2. \A t \in {result'.state, result'.response} : t # NoAnswer => TrueAnswer(t)
      OBVIOUS
    <2>. QED
      BY <1>a, <1>b, <2>2 DEF AnswersTrue
  <1>4. CallsNamed'
    <2>1. \A c \in Calls : calls'[c].step \in {"sent", "answered"} => calls'[c].request \in Requests
      <3>1. ASSUME NEW c \in Calls, calls'[c].step \in {"sent", "answered"}
            PROVE  calls'[c].request \in Requests
        <4>1. calls'[c].step = calls[c].step /\ calls'[c].request = calls[c].request
          BY SMTT(30), <1>b, <3>1
        <4>. QED
          BY <3>1, <4>1 DEF CallsNamed
      <3>. QED
        BY <3>1
    <2>. QED
      BY <1>a, <2>1 DEF CallsNamed
  <1>5. RepairOfState'
    BY <1>a DEF RepairOfState
  <1>6. LogTrue'
    BY DEF LogTrue, AnswersTrue
  <1>7. DueIssued'
    BY <1>a DEF DueIssued
  <1>8. ResultIsOfRequest'
    BY DEF ResultIsOfRequest
  <1>. QED
    BY <1>1, <1>2, <1>3, <1>4, <1>5, <1>6, <1>7, <1>8

\* A navigation from the result page to itself.
LEMMA ReplaceInv ==
    ASSUME TableInv, VerifyInv,
           NEW s \in Answers, s # NoAnswer => TrueAnswer(s), route = "result", result' = ReplaceState(s),
           calls' \in [Calls -> Call],
           \A c \in Calls : calls'[c] \in {[calls[c] EXCEPT !.here = FALSE], NoCall},
           visited' \in SUBSET Answer, \A v \in visited' : TrueAnswer(v),
           UNCHANGED <<place, backend, verify, sent, repairs, log, due>>
    PROVE  VerifyInv'
  <1>. USE PagesAssumption, LogAssumption
       DEF VerifyInv, VerifyTypeOK, VerifyState, Call, ResultState, Answers, Answer, NoAnswer,
           ReplaceState, NoCall, TrueAnswer, place, backend
  <1>1. VerifyTypeOK'
    OBVIOUS
  <1>2. CallsApart'
    BY DEF CallsApart, NewResult
  <1>3. AnswersTrue'
    <2>1. result'.state = s /\ result'.response = result.response
      OBVIOUS
    <2>2. \A c \in Calls : calls'[c].step = "answered" => calls[c].step = "answered" /\ calls'[c].receipt = calls[c].receipt
                                                     /\ calls'[c].request = calls[c].request
      OBVIOUS
    <2>3. \A t \in {result'.state, result'.response} : t # NoAnswer => TrueAnswer(t)
      BY <2>1 DEF AnswersTrue
    <2>. QED
      BY <2>2, <2>3 DEF AnswersTrue
  <1>4. CallsNamed'
    BY SMTT(30) DEF CallsNamed
  <1>5. RepairOfState'
    BY DEF RepairOfState, CallsApart
  <1>6. LogTrue'
    BY DEF LogTrue, AnswersTrue
  <1>7. DueIssued'
    BY DEF DueIssued
  <1>8. ResultIsOfRequest'
    BY DEF ResultIsOfRequest
  <1>. QED
    BY <1>1, <1>2, <1>3, <1>4, <1>5, <1>6, <1>7, <1>8

-----------------------------------------------------------------------------
(* The pages that show records.                                              *)

\* Page p of a listing made when there were n records.
RowsAt(n, p) == {i \in 1 .. n : i + p * PageSize <= n /\ n < i + (p + 1) * PageSize}

\* What History shows and waits for are listings made one after the other.
Listings ==
    \E m \in 0 .. Created :
       /\ history.shown # None => history.listed = RowsAt(m, history.shown)
       /\ listing.step = "listed" =>
            \E n \in m .. Created :
               /\ listing.listed = RowsAt(n, history.page)
               /\ listing.total <= n
               /\ history.page = 0 \/ history.page * PageSize < n

HistoryInv ==
    /\ history.total <= Created
    /\ listing.step = "counted" => listing.total <= Created
    /\ history.page = 0 \/ history.page * PageSize < Created
    /\ ~history.loading /\ ~history.error =>
         history.shown = history.page /\ (history.listed = {} => history.total = 0)
    /\ Listings

DetailInv ==
    route = "record" /\ ~detail.loading /\ ~detail.error =>
        /\ detail.record = recordId
        /\ detail.anchored => IF detail.proofLoading THEN proofLoad # "none"
                              ELSE detail.proofError \/ detail.proof = recordId

RecordInv ==
    /\ RecordTypeOK
    /\ LoadsApart
    /\ HistoryInv
    /\ DetailInv

LEMMA CreatedBound == ASSUME TableInv PROVE Created \in 0 .. MaxRequests /\ DOMAIN rows \subseteq Ids
  BY PagesAssumption, RowsFit DEF TableInv, PagesTypeOK, OneRow, Created

LEMMA PageStep == ASSUME NEW p \in Nat PROVE (p + 1) * PageSize = p * PageSize + PageSize
  BY ListingAssumption

LEMMA PageStart == ASSUME NEW p \in Nat PROVE p * PageSize \in Nat
  BY ListingAssumption

LEMMA RowsAtFirst ==
    ASSUME NEW n \in Nat, NEW p \in Nat, p = 0 \/ p * PageSize < n, RowsAt(n, p) = {} PROVE n = 0
  <1>. USE ListingAssumption
  <1>. DEFINE a == p * PageSize
  <1>1. a \in Nat /\ (p + 1) * PageSize = a + PageSize
    BY PageStart, PageStep
  <1>2. a < n \/ n = 0
    BY <1>1
  <1>3. ASSUME a < n PROVE FALSE
    <2>1. n - a \in 1 .. n /\ (n - a) + p * PageSize <= n /\ n < (n - a) + (p + 1) * PageSize
      BY <1>1, <1>3
    <2>2. n - a \in RowsAt(n, p)
      BY <2>1 DEF RowsAt
    <2>. QED
      BY <2>2
  <1>. QED
    BY <1>2, <1>3

\* Of two listings of adjacent pages, the second of which is not the older one,
\* nothing is between the last row of the first and the first of the second.
LEMMA NoneBetween ==
    ASSUME NEW m \in Nat, NEW n \in Nat, m <= n, NEW p \in Nat, NEW i \in Nat \ {0},
           RowsAt(m, p) # {}
    PROVE  \/ i \in RowsAt(n, p + 1)
           \/ \E r \in RowsAt(m, p) : r <= i
           \/ \E r \in RowsAt(n, p + 1) : i < r
  <1>. USE ListingAssumption
  <1>. DEFINE a == p * PageSize
              b == (p + 1) * PageSize
              c == ((p + 1) + 1) * PageSize
  <1>1. a \in Nat /\ b = a + PageSize /\ c = b + PageSize
    BY PageStart, PageStep
  <1>2. a < m
    BY <1>1 DEF RowsAt
  <1>3. CASE m - b < i
    <2>1. PICK r \in 1 .. m : r <= i /\ r + a <= m /\ m < r + b
      <3>1. CASE m - b >= 1
        <4>1. m - b + 1 \in 1 .. m /\ m - b + 1 <= i /\ m - b + 1 + a <= m /\ m < m - b + 1 + b
          BY <1>1, <1>3, <3>1
        <4>. QED
          BY <4>1
      <3>2. CASE ~(m - b >= 1)
        <4>1. 1 \in 1 .. m /\ 1 <= i /\ 1 + a <= m /\ m < 1 + b
          BY <1>1, <1>2, <3>2
        <4>. QED
          BY <4>1
      <3>. QED
        BY <3>1, <3>2
    <2>. QED
      BY <2>1 DEF RowsAt
  <1>4. CASE i <= m - b
    <2>1. n - b \in 1 .. n /\ (n - b) + b <= n /\ n < (n - b) + c /\ i <= n - b
      BY <1>1, <1>4
    <2>2. n - b \in RowsAt(n, p + 1)
      BY <2>1 DEF RowsAt
    <2>. QED
      BY <2>1, <2>2
  <1>. QED
    BY <1>1, <1>3, <1>4

\* New records move the rows of listings still to come only.
LEMMA ListingsKept ==
    ASSUME HistoryInv, RecordTypeOK, Created \in Nat, Created' \in Nat, Created <= Created',
           UNCHANGED <<history, listing>>
    PROVE  HistoryInv'
  <1>1. Listings'
    <2>1. PICK m \in 0 .. Created :
             /\ history.shown # None => history.listed = RowsAt(m, history.shown)
             /\ listing.step = "listed" =>
                  \E n \in m .. Created :
                     /\ listing.listed = RowsAt(n, history.page)
                     /\ listing.total <= n
                     /\ history.page = 0 \/ history.page * PageSize < n
      BY DEF HistoryInv, Listings
    <2>2. m \in 0 .. Created' /\ m .. Created \subseteq m .. Created'
      OBVIOUS
    <2>. QED
      BY <2>1, <2>2 DEF Listings
  <1>2. history.page * PageSize \in Nat /\ history.total \in Nat /\ listing.total \in Nat
    BY PageStart, PagesAssumption DEF RecordTypeOK, HistoryState, PageNumbers, Listing
  <1>. QED
    BY <1>1, <1>2 DEF HistoryInv

LEMMA CountRecordsInv ==
    ASSUME TableInv, CallsApart, RecordInv,
           CountRecords,
           UNCHANGED <<place, backend>>
    PROVE  RecordInv'
  <1>. USE PagesAssumption, ListingAssumption
       DEF RecordInv, CountRecords, place, backend
  <1>0. Created \in 0 .. MaxRequests /\ Created' = Created /\ DOMAIN rows \subseteq Ids
    BY CreatedBound DEF Created
  <1>1. RecordTypeOK'
    <2>1. Total \in 0 .. MaxRequests
      BY <1>0 DEF Total
    <2>2. listing' \in Listing
      BY <2>1 DEF RecordTypeOK, Listing
    <2>. QED
      BY <2>2 DEF RecordTypeOK
  <1>. USE DEF RecordTypeOK, HistoryState, Listing, DetailState, RecordLoad,
           ProofSteps, Texts, ReceiptState, Check, PageNumbers
  <1>2. LoadsApart'
    BY <1>0 DEF LoadsApart
  <1>3. HistoryInv'
    <2>1. Total <= Created /\ Total \in 0 .. MaxRequests
      BY <1>0 DEF Total
    <2>2. listing'.total = Total /\ listing'.step = "counted"
      OBVIOUS
    <2>. QED
      BY <1>0, <2>1, <2>2 DEF HistoryInv, Listings
  <1>4. DetailInv'
    BY <1>0 DEF DetailInv, LoadsApart
  <1>. QED
    BY <1>1, <1>2, <1>3, <1>4

LEMMA ServeListingInv ==
    ASSUME TableInv, CallsApart, RecordInv,
           ServeListing,
           UNCHANGED <<place, backend>>
    PROVE  RecordInv'
  <1>. USE PagesAssumption, ListingAssumption
       DEF RecordInv, ServeListing, place, backend
  <1>0. Created \in 0 .. MaxRequests /\ Created' = Created /\ DOMAIN rows \subseteq Ids
    BY CreatedBound DEF Created
  <1>1. RecordTypeOK'
    <2>1. PageRows(history.page) \in SUBSET Ids
      BY <1>0 DEF PageRows
    <2>2. listing' \in Listing
      BY <2>1 DEF RecordTypeOK, Listing
    <2>. QED
      BY <2>2 DEF RecordTypeOK
  <1>. USE DEF RecordTypeOK, HistoryState, Listing, DetailState, RecordLoad,
           ProofSteps, Texts, ReceiptState, Check, PageNumbers
  <1>2. LoadsApart'
    BY <1>0 DEF LoadsApart
  <1>3. HistoryInv'
    <2>1. DOMAIN rows = 1 .. Created
      BY DEF TableInv, PagesTypeOK, Created
    <2>2. PageRows(history.page) = RowsAt(Created, history.page)
      BY <2>1 DEF PageRows, RowsAt
    <2>3. /\ listing'.step = "listed" /\ listing'.total = listing.total
          /\ listing'.listed = PageRows(history.page)
      OBVIOUS
    <2>4. PICK m \in 0 .. Created : history.shown # None => history.listed = RowsAt(m, history.shown)
      BY DEF HistoryInv, Listings
    <2>5. /\ Created \in m .. Created /\ listing.total <= Created
          /\ history.page = 0 \/ history.page * PageSize < Created
      BY <1>0, <2>4 DEF HistoryInv
    <2>6. Listings'
      BY <1>0, <2>2, <2>3, <2>4, <2>5 DEF Listings
    <2>. QED
      BY <1>0, <2>3, <2>6 DEF HistoryInv
  <1>4. DetailInv'
    BY <1>0 DEF DetailInv, LoadsApart
  <1>. QED
    BY <1>1, <1>2, <1>3, <1>4

LEMMA ListingFailsInv ==
    ASSUME TableInv, CallsApart, RecordInv,
           ListingFails,
           UNCHANGED <<place, backend>>
    PROVE  RecordInv'
  <1>. USE PagesAssumption, ListingAssumption
       DEF RecordInv, ListingFails, place, backend
  <1>0. Created \in 0 .. MaxRequests /\ Created' = Created /\ DOMAIN rows \subseteq Ids
    BY CreatedBound DEF Created
  <1>1. RecordTypeOK'
    <2>1. listing' \in Listing
      BY DEF RecordTypeOK, Listing
    <2>. QED
      BY <2>1 DEF RecordTypeOK
  <1>. USE DEF RecordTypeOK, HistoryState, Listing, DetailState, RecordLoad,
           ProofSteps, Texts, ReceiptState, Check, PageNumbers
  <1>2. LoadsApart'
    BY <1>0 DEF LoadsApart
  <1>3. HistoryInv'
    BY <1>0 DEF HistoryInv, Listings
  <1>4. DetailInv'
    BY <1>0 DEF DetailInv, LoadsApart
  <1>. QED
    BY <1>1, <1>2, <1>3, <1>4

LEMMA DeliverListingInv ==
    ASSUME TableInv, CallsApart, RecordInv,
           DeliverListing,
           UNCHANGED <<place, backend>>
    PROVE  RecordInv'
  <1>. USE PagesAssumption, ListingAssumption
       DEF RecordInv, DeliverListing, NoListing, place, backend
  <1>0. Created \in 0 .. MaxRequests /\ Created' = Created /\ DOMAIN rows \subseteq Ids
    BY CreatedBound DEF Created
  <1>1. RecordTypeOK'
    <2>1. history' \in HistoryState
      <3>1. CASE listing.step = "listed"
        BY ZenonT(60), <3>1 DEF RecordTypeOK, HistoryState, PageNumbers, Listing
      <3>2. CASE listing.step = "error"
        BY ZenonT(60), <3>2 DEF RecordTypeOK, HistoryState, PageNumbers, Listing
      <3>. QED
        BY <3>1, <3>2
    <2>2. listing' \in Listing
      BY <1>0 DEF RecordTypeOK, Listing, HistoryState, PageNumbers
    <2>. QED
      BY <2>1, <2>2 DEF RecordTypeOK
  <1>. USE DEF RecordTypeOK, HistoryState, Listing, DetailState, RecordLoad,
           ProofSteps, Texts, ReceiptState, Check, PageNumbers
  <1>2. LoadsApart'
    BY ZenonT(60), <1>0 DEF LoadsApart
  <1>3. HistoryInv'
    <2>1. CASE listing.step = "listed"
      <3>1. PICK n \in 0 .. Created :
               /\ listing.listed = RowsAt(n, history.page)
               /\ listing.total <= n
               /\ history.page = 0 \/ history.page * PageSize < n
        BY <1>0, <2>1 DEF HistoryInv, Listings
      <3>2. /\ history'.listed = RowsAt(n, history.page) /\ history'.shown = history.page
            /\ history'.page = history.page /\ history'.total = listing.total
            /\ listing'.step = "none"
        BY ZenonT(60), <2>1, <3>1 DEF NoListing
      <3>3. n \in Nat /\ n \in 0 .. Created /\ history.page \in Nat /\ listing.total \in Nat
        BY <1>0
      <3>4. history'.listed = {} => history'.total = 0
        <4>1. ASSUME RowsAt(n, history.page) = {} PROVE n = 0
          BY <3>1, <3>3, <4>1, RowsAtFirst
        <4>. QED
          BY <3>1, <3>2, <3>3, <4>1
      <3>5. Listings'
        BY <1>0, <3>2, <3>3 DEF Listings
      <3>6. history'.total <= Created
        BY <1>0, <3>1, <3>2, <3>3
      <3>. QED
        BY <1>0, <3>2, <3>4, <3>5, <3>6 DEF HistoryInv
    <2>2. CASE listing.step # "listed"
      <3>1. /\ history' = [history EXCEPT !.error = TRUE, !.loading = FALSE]
            /\ listing'.step = "none"
        BY <2>2 DEF NoListing
      <3>. QED
        BY <1>0, <3>1 DEF HistoryInv, Listings
    <2>. QED
      BY <2>1, <2>2
  <1>4. DetailInv'
    BY <1>0 DEF DetailInv, LoadsApart
  <1>. QED
    BY <1>1, <1>2, <1>3, <1>4

LEMMA TurnPageInv ==
    ASSUME TableInv, CallsApart, RecordInv,
           NEW p \in PageNumbers, TurnPage(p),
           UNCHANGED <<place, backend>>
    PROVE  RecordInv'
  <1>. USE PagesAssumption, ListingAssumption
       DEF RecordInv, TurnPage, SentListing, NoListing, place, backend
  <1>0. Created \in 0 .. MaxRequests /\ Created' = Created /\ DOMAIN rows \subseteq Ids
    BY CreatedBound DEF Created
  <1>1. RecordTypeOK'
    <2>1. history' \in HistoryState
      BY <1>0 DEF RecordTypeOK, HistoryState, PageNumbers
    <2>2. listing' \in Listing
      BY <1>0 DEF RecordTypeOK, Listing, HistoryState, PageNumbers
    <2>. QED
      BY <2>1, <2>2 DEF RecordTypeOK
  <1>. USE DEF RecordTypeOK, HistoryState, Listing, DetailState, RecordLoad,
           ProofSteps, Texts, ReceiptState, Check, PageNumbers
  <1>2. LoadsApart'
    BY DEF LoadsApart, NextEnabled, PreviousEnabled, PagerShown, RowsShown, HistoryShown
  <1>3. HistoryInv'
    <2>1. p = 0 \/ p * PageSize < Created
      <3>1. CASE p = history.page + 1 /\ NextEnabled
        BY <1>0, <3>1 DEF NextEnabled, HistoryInv
      <3>2. CASE p + 1 = history.page /\ PreviousEnabled
        <4>1. (p + 1) * PageSize = p * PageSize + PageSize /\ p * PageSize \in Nat
          BY PageStep, PageStart
        <4>2. (p + 1) * PageSize < Created
          BY <3>2 DEF HistoryInv
        <4>. QED
          BY <1>0, <4>1, <4>2
      <3>. QED
        BY <3>1, <3>2
    <2>. QED
      BY <1>0, <2>1 DEF HistoryInv, Listings
  <1>4. DetailInv'
    BY <1>0 DEF DetailInv, LoadsApart
  <1>. QED
    BY <1>1, <1>2, <1>3, <1>4

LEMMA ShowSessionInv ==
    ASSUME TableInv, CallsApart, RecordInv,
           ShowSession,
           UNCHANGED <<place, backend>>
    PROVE  RecordInv'
  <1>. USE PagesAssumption, ListingAssumption
       DEF RecordInv, ShowSession, NoListing, HistoryShown, place, backend
  <1>0. Created \in 0 .. MaxRequests /\ Created' = Created /\ DOMAIN rows \subseteq Ids
    BY CreatedBound DEF Created
  <1>1. RecordTypeOK'
    <2>1. history' \in HistoryState
      BY <1>0 DEF RecordTypeOK, HistoryState, PageNumbers
    <2>2. listing' \in Listing
      BY <1>0 DEF RecordTypeOK, Listing, HistoryState, PageNumbers
    <2>. QED
      BY <2>1, <2>2 DEF RecordTypeOK
  <1>. USE DEF RecordTypeOK, HistoryState, Listing, DetailState, RecordLoad,
           ProofSteps, Texts, ReceiptState, Check, PageNumbers
  <1>2. LoadsApart'
    BY <1>0 DEF LoadsApart
  <1>3. HistoryInv'
    BY <1>0 DEF HistoryInv, Listings
  <1>4. DetailInv'
    BY <1>0 DEF DetailInv, LoadsApart
  <1>. QED
    BY <1>1, <1>2, <1>3, <1>4

LEMMA ShowServerInv ==
    ASSUME TableInv, CallsApart, RecordInv,
           ShowServer,
           UNCHANGED <<place, backend>>
    PROVE  RecordInv'
  <1>. USE PagesAssumption, ListingAssumption
       DEF RecordInv, ShowServer, SentListing, NoListing, place, backend
  <1>0. Created \in 0 .. MaxRequests /\ Created' = Created /\ DOMAIN rows \subseteq Ids
    BY CreatedBound DEF Created
  <1>1. RecordTypeOK'
    <2>1. history' \in HistoryState
      BY <1>0 DEF RecordTypeOK, HistoryState, PageNumbers
    <2>2. listing' \in Listing
      BY <1>0 DEF RecordTypeOK, Listing, HistoryState, PageNumbers
    <2>. QED
      BY <2>1, <2>2 DEF RecordTypeOK
  <1>. USE DEF RecordTypeOK, HistoryState, Listing, DetailState, RecordLoad,
           ProofSteps, Texts, ReceiptState, Check, PageNumbers
  <1>2. LoadsApart'
    BY <1>0 DEF LoadsApart
  <1>3. HistoryInv'
    BY <1>0 DEF HistoryInv, Listings
  <1>4. DetailInv'
    BY <1>0 DEF DetailInv, LoadsApart
  <1>. QED
    BY <1>1, <1>2, <1>3, <1>4

LEMMA ServeRecordInv ==
    ASSUME TableInv, CallsApart, RecordInv,
           ServeRecord,
           UNCHANGED <<place, backend>>
    PROVE  RecordInv'
  <1>. USE PagesAssumption, ListingAssumption
       DEF RecordInv, ServeRecord, place, backend
  <1>0. Created \in 0 .. MaxRequests /\ Created' = Created /\ DOMAIN rows \subseteq Ids
    BY CreatedBound DEF Created
  <1>1. RecordTypeOK'
    <2>1. recordLoad' \in RecordLoad
      <3>1. CASE recordLoad' = [recordLoad EXCEPT !.step = "error"]
        BY <3>1 DEF RecordTypeOK, RecordLoad
      <3>2. CASE recordLoad' = [step |-> "found", anchored |-> recordId \in anchored]
        <4>1. (recordId \in anchored) \in BOOLEAN
          OBVIOUS
        <4>2. PICK b \in BOOLEAN : b = (recordId \in anchored)
          BY <4>1
        <4>3. recordLoad' = [step |-> "found", anchored |-> b]
          BY <3>2, <4>2
        <4>. QED
          BY <4>3 DEF RecordLoad
      <3>. QED
        BY <3>1, <3>2
    <2>. QED
      BY <2>1 DEF RecordTypeOK
  <1>. USE DEF RecordTypeOK, HistoryState, Listing, DetailState, RecordLoad,
           ProofSteps, Texts, ReceiptState, Check, PageNumbers
  <1>2. LoadsApart'
    BY <1>0 DEF LoadsApart
  <1>3. HistoryInv'
    BY <1>0, ListingsKept
  <1>4. DetailInv'
    BY <1>0 DEF DetailInv, LoadsApart
  <1>. QED
    BY <1>1, <1>2, <1>3, <1>4

LEMMA DeliverRecordInv ==
    ASSUME TableInv, CallsApart, RecordInv,
           DeliverRecord,
           UNCHANGED <<place, backend>>
    PROVE  RecordInv'
  <1>. USE PagesAssumption, ListingAssumption
       DEF RecordInv, DeliverRecord, NoRecordLoad, place, backend
  <1>0. Created \in 0 .. MaxRequests /\ Created' = Created /\ DOMAIN rows \subseteq Ids
    BY CreatedBound DEF Created
  <1>a. recordId \in Ids /\ route = "record"
    BY DEF LoadsApart, CallsApart, TableInv, PagesTypeOK
  <1>1. RecordTypeOK'
    <2>1. detail' \in DetailState
      BY ZenonT(60), <1>0, <1>a DEF RecordTypeOK, DetailState
    <2>2. recordLoad' \in RecordLoad
      BY <1>0, <1>a DEF RecordTypeOK, RecordLoad
    <2>3. proofLoad' \in ProofSteps
      BY <1>0, <1>a DEF RecordTypeOK, ProofSteps
    <2>. QED
      BY <2>1, <2>2, <2>3 DEF RecordTypeOK
  <1>. USE DEF RecordTypeOK, HistoryState, Listing, DetailState, RecordLoad,
           ProofSteps, Texts, ReceiptState, Check, PageNumbers
  <1>2. LoadsApart'
    BY ZenonT(60), <1>0, <1>a DEF LoadsApart
  <1>3. HistoryInv'
    BY <1>0, ListingsKept
  <1>4. DetailInv'
    BY ZenonT(60), <1>0, <1>a DEF DetailInv, LoadsApart
  <1>. QED
    BY <1>1, <1>2, <1>3, <1>4

LEMMA DeliverRecordErrorInv ==
    ASSUME TableInv, CallsApart, RecordInv,
           DeliverRecordError,
           UNCHANGED <<place, backend>>
    PROVE  RecordInv'
  <1>. USE PagesAssumption, ListingAssumption
       DEF RecordInv, DeliverRecordError, NoRecordLoad, place, backend
  <1>0. Created \in 0 .. MaxRequests /\ Created' = Created /\ DOMAIN rows \subseteq Ids
    BY CreatedBound DEF Created
  <1>1. RecordTypeOK'
    <2>1. detail' \in DetailState
      BY <1>0 DEF RecordTypeOK, DetailState
    <2>2. recordLoad' \in RecordLoad
      BY <1>0 DEF RecordTypeOK, RecordLoad
    <2>. QED
      BY <2>1, <2>2 DEF RecordTypeOK
  <1>. USE DEF RecordTypeOK, HistoryState, Listing, DetailState, RecordLoad,
           ProofSteps, Texts, ReceiptState, Check, PageNumbers
  <1>2. LoadsApart'
    BY <1>0 DEF LoadsApart
  <1>3. HistoryInv'
    BY <1>0, ListingsKept
  <1>4. DetailInv'
    BY <1>0 DEF DetailInv, LoadsApart
  <1>. QED
    BY <1>1, <1>2, <1>3, <1>4

LEMMA ServeProofInv ==
    ASSUME TableInv, CallsApart, RecordInv,
           ServeProof,
           UNCHANGED <<place, backend>>
    PROVE  RecordInv'
  <1>. USE PagesAssumption, ListingAssumption
       DEF RecordInv, ServeProof, place, backend
  <1>0. Created \in 0 .. MaxRequests /\ Created' = Created /\ DOMAIN rows \subseteq Ids
    BY CreatedBound DEF Created
  <1>1. RecordTypeOK'
    <2>1. proofLoad' \in ProofSteps
      BY <1>0 DEF RecordTypeOK, ProofSteps
    <2>. QED
      BY <2>1 DEF RecordTypeOK
  <1>. USE DEF RecordTypeOK, HistoryState, Listing, DetailState, RecordLoad,
           ProofSteps, Texts, ReceiptState, Check, PageNumbers
  <1>2. LoadsApart'
    BY <1>0 DEF LoadsApart
  <1>3. HistoryInv'
    BY <1>0, ListingsKept
  <1>4. DetailInv'
    BY <1>0 DEF DetailInv, LoadsApart
  <1>. QED
    BY <1>1, <1>2, <1>3, <1>4

LEMMA DeliverProofInv ==
    ASSUME TableInv, CallsApart, RecordInv,
           DeliverProof,
           UNCHANGED <<place, backend>>
    PROVE  RecordInv'
  <1>. USE PagesAssumption, ListingAssumption
       DEF RecordInv, DeliverProof, place, backend
  <1>0. Created \in 0 .. MaxRequests /\ Created' = Created /\ DOMAIN rows \subseteq Ids
    BY CreatedBound DEF Created
  <1>a. recordId \in Ids /\ route = "record"
    BY DEF LoadsApart, CallsApart, TableInv, PagesTypeOK
  <1>1. RecordTypeOK'
    <2>1. detail' \in DetailState
      <3>1. CASE proofLoad = "answered"
        BY <1>0, <1>a, <3>1 DEF RecordTypeOK, DetailState
      <3>2. CASE proofLoad = "error"
        BY <1>0, <1>a, <3>2 DEF RecordTypeOK, DetailState
      <3>. QED
        BY <3>1, <3>2
    <2>2. proofLoad' \in ProofSteps
      BY <1>0, <1>a DEF RecordTypeOK, ProofSteps
    <2>. QED
      BY <2>1, <2>2 DEF RecordTypeOK
  <1>. USE DEF RecordTypeOK, HistoryState, Listing, DetailState, RecordLoad,
           ProofSteps, Texts, ReceiptState, Check, PageNumbers
  <1>2. LoadsApart'
    <2>1. CASE proofLoad = "answered"
      BY ZenonT(60), <1>0, <1>a, <2>1 DEF LoadsApart
    <2>2. CASE proofLoad = "error"
      BY ZenonT(60), <1>0, <1>a, <2>2 DEF LoadsApart
    <2>. QED
      BY <2>1, <2>2
  <1>3. HistoryInv'
    BY <1>0, ListingsKept
  <1>4. DetailInv'
    <2>1. ~detail'.proofLoading /\ (detail'.proofError \/ detail'.proof = recordId)
      BY <1>a
    <2>2. /\ detail'.record = detail.record /\ detail'.anchored = detail.anchored
          /\ detail'.loading = detail.loading /\ detail'.error = detail.error
      BY ZenonT(60) 
    <2>. QED
      BY <2>1, <2>2 DEF DetailInv
  <1>. QED
    BY <1>1, <1>2, <1>3, <1>4

LEMMA EditReceiptInv ==
    ASSUME TableInv, CallsApart, RecordInv,
           NEW t \in Texts, EditReceipt(t),
           UNCHANGED <<place, backend>>
    PROVE  RecordInv'
  <1>. USE PagesAssumption, ListingAssumption
       DEF RecordInv, EditReceipt, place, backend
  <1>0. Created \in 0 .. MaxRequests /\ Created' = Created /\ DOMAIN rows \subseteq Ids
    BY CreatedBound DEF Created
  <1>1. RecordTypeOK'
    <2>1. receipt' \in ReceiptState
      BY <1>0 DEF RecordTypeOK, ReceiptState, Texts, Check
    <2>. QED
      BY <2>1 DEF RecordTypeOK
  <1>. USE DEF RecordTypeOK, HistoryState, Listing, DetailState, RecordLoad,
           ProofSteps, Texts, ReceiptState, Check, PageNumbers
  <1>2. LoadsApart'
    BY <1>0 DEF LoadsApart
  <1>3. HistoryInv'
    BY <1>0, ListingsKept
  <1>4. DetailInv'
    BY <1>0 DEF DetailInv, LoadsApart
  <1>. QED
    BY <1>1, <1>2, <1>3, <1>4

LEMMA OnVerifyInv ==
    ASSUME TableInv, CallsApart, RecordInv,
           OnVerify,
           UNCHANGED <<place, backend>>
    PROVE  RecordInv'
  <1>. USE PagesAssumption, ListingAssumption
       DEF RecordInv, OnVerify, CheckEnabled, place, backend
  <1>0. Created \in 0 .. MaxRequests /\ Created' = Created /\ DOMAIN rows \subseteq Ids
    BY CreatedBound DEF Created
  <1>1. RecordTypeOK'
    <2>1. receipt' \in ReceiptState
      BY <1>0 DEF RecordTypeOK, ReceiptState, Texts, Check
    <2>2. check' \in Check
      BY <1>0 DEF RecordTypeOK, Check, Texts, ReceiptState
    <2>. QED
      BY <2>1, <2>2 DEF RecordTypeOK
  <1>. USE DEF RecordTypeOK, HistoryState, Listing, DetailState, RecordLoad,
           ProofSteps, Texts, ReceiptState, Check, PageNumbers
  <1>2. LoadsApart'
    BY <1>0 DEF LoadsApart
  <1>3. HistoryInv'
    BY <1>0, ListingsKept
  <1>4. DetailInv'
    BY <1>0 DEF DetailInv, LoadsApart
  <1>. QED
    BY <1>1, <1>2, <1>3, <1>4

LEMMA ServeCheckInv ==
    ASSUME TableInv, CallsApart, RecordInv,
           ServeCheck,
           UNCHANGED <<place, backend>>
    PROVE  RecordInv'
  <1>. USE PagesAssumption, ListingAssumption
       DEF RecordInv, ServeCheck, place, backend
  <1>0. Created \in 0 .. MaxRequests /\ Created' = Created /\ DOMAIN rows \subseteq Ids
    BY CreatedBound DEF Created
  <1>1. RecordTypeOK'
    <2>1. check' \in Check
      BY <1>0 DEF RecordTypeOK, Check, Texts, ReceiptState
    <2>. QED
      BY <2>1 DEF RecordTypeOK
  <1>. USE DEF RecordTypeOK, HistoryState, Listing, DetailState, RecordLoad,
           ProofSteps, Texts, ReceiptState, Check, PageNumbers
  <1>2. LoadsApart'
    BY <1>0 DEF LoadsApart
  <1>3. HistoryInv'
    BY <1>0, ListingsKept
  <1>4. DetailInv'
    BY <1>0 DEF DetailInv, LoadsApart
  <1>. QED
    BY <1>1, <1>2, <1>3, <1>4

LEMMA DeliverCheckInv ==
    ASSUME TableInv, CallsApart, RecordInv,
           DeliverCheck,
           UNCHANGED <<place, backend>>
    PROVE  RecordInv'
  <1>. USE PagesAssumption, ListingAssumption
       DEF RecordInv, DeliverCheck, NoCheck, place, backend
  <1>0. Created \in 0 .. MaxRequests /\ Created' = Created /\ DOMAIN rows \subseteq Ids
    BY CreatedBound DEF Created
  <1>1. RecordTypeOK'
    <2>1. receipt' \in ReceiptState
      BY ZenonT(60), <1>0 DEF RecordTypeOK, ReceiptState, Texts, Check
    <2>2. check' \in Check
      BY <1>0 DEF RecordTypeOK, Check, Texts, ReceiptState
    <2>. QED
      BY <2>1, <2>2 DEF RecordTypeOK
  <1>. USE DEF RecordTypeOK, HistoryState, Listing, DetailState, RecordLoad,
           ProofSteps, Texts, ReceiptState, Check, PageNumbers
  <1>2. LoadsApart'
    BY <1>0 DEF LoadsApart
  <1>3. HistoryInv'
    BY <1>0, ListingsKept
  <1>4. DetailInv'
    BY <1>0 DEF DetailInv, LoadsApart
  <1>. QED
    BY <1>1, <1>2, <1>3, <1>4

-----------------------------------------------------------------------------
(* The navigations.                                                          *)

IInv == TableInv /\ VerifyInv /\ RecordInv

\* What Mount makes of the pages that show records.
LEMMA MountRecordInv ==
    ASSUME IInv, NEW to \in Routes, NEW t \in Texts,
           MountRecordPages(to, t, LoggedReceipts), route' = to,
           UNCHANGED backend
    PROVE  RecordInv'
  <1>. USE PagesAssumption, ListingAssumption
       DEF IInv, MountRecordPages, NewHistory, SentListing, NoListing, FreshDetail, SentRecordLoad,
           NoRecordLoad, NewReceipt, NoCheck, backend
  <1>0. Created \in 0 .. MaxRequests /\ Created' = Created
    BY CreatedBound DEF Created
  <1>1. RecordTypeOK'
    <2>1. LoggedReceipts \in SUBSET Receipts
      <3>1. \A i \in DOMAIN log : log[i] \in Answer
        BY DEF VerifyInv, VerifyTypeOK
      <3>. QED
        BY <3>1 DEF Answer, LoggedReceipts
    <2>2. history' \in HistoryState
      BY <1>0, <2>1 DEF HistoryState, PageNumbers
    <2>3. listing' \in Listing
      BY <1>0 DEF Listing
    <2>4. detail' \in DetailState
      BY DEF DetailState
    <2>5. recordLoad' \in RecordLoad /\ proofLoad' \in ProofSteps
      BY DEF RecordLoad, ProofSteps
    <2>6. receipt' \in ReceiptState /\ check' \in Check
      BY DEF ReceiptState, Check, Texts
    <2>. QED
      BY <2>2, <2>3, <2>4, <2>5, <2>6 DEF RecordTypeOK
  <1>2. LoadsApart'
    BY DEF LoadsApart
  <1>3. HistoryInv'
    BY <1>0 DEF HistoryInv, Listings
  <1>4. DetailInv'
    BY DEF DetailInv
  <1>. QED
    BY <1>1, <1>2, <1>3, <1>4 DEF RecordInv

\* Leaving a page for another one, and what is known of the calls after it.
LEMMA MountInv ==
    ASSUME IInv, NEW to \in Routes, NEW id \in Ids \cup {None}, NEW s \in Answers, NEW t \in Texts,
           Mount(to, id, s, t), s # NoAnswer => TrueAnswer(s),
           to = "record" <=> id # None, to # "result" => s = NoAnswer,
           calls' \in [Calls -> Call],
           \A c \in Calls : calls'[c] \in {[calls[c] EXCEPT !.here = FALSE], NoCall},
           visited' \in SUBSET Answer, \A v \in visited' : TrueAnswer(v)
    PROVE  IInv'
  <1>1. TableInv'
    BY DEF IInv, TableInv, PagesTypeOK, OneRow, Mount, backend
  <1>2. VerifyInv'
    BY LeaveInv DEF IInv, Mount
  <1>3. RecordInv'
    BY MountRecordInv DEF Mount
  <1>. QED
    BY <1>1, <1>2, <1>3 DEF IInv

LEMMA DepartedCalls ==
    ASSUME VerifyTypeOK
    PROVE  /\ Departed(calls) \in [Calls -> Call]
           /\ \A c \in Calls : Departed(calls)[c] = [calls[c] EXCEPT !.here = FALSE]
           /\ \A c \in Calls : [Departed(calls) EXCEPT ![c] = NoCall] \in [Calls -> Call]
  <1>1. Departed(calls) \in [Calls -> Call]
    BY DEF VerifyTypeOK, Departed, Call
  <1>2. NoCall \in Call
    BY DEF NoCall, Call
  <1>. QED
    BY <1>1, <1>2 DEF Departed

\* The answers in the history are true ones.
LEMMA VisitedTrue ==
    ASSUME IInv PROVE visited \in SUBSET Answer /\ \A v \in visited : TrueAnswer(v)
  BY DEF IInv, VerifyInv, VerifyTypeOK, AnswersTrue, TrueAnswer

LEMMA NoAnswerIsOne == NoAnswer \in Answers /\ None \in Texts
  BY DEF Answers, Texts

LEMMA GoToInv == ASSUME IInv, NEW to \in Routes, GoTo(to) PROVE IInv'
  <1>1. VerifyTypeOK
    BY DEF IInv, VerifyInv
  <1>. QED
    BY <1>1, MountInv, DepartedCalls, VisitedTrue, NoAnswerIsOne DEF GoTo, Routes

LEMMA SwitchRecordInv ==
    ASSUME IInv, NEW r \in Ids, SwitchRecord(r), recordId' = r, UNCHANGED <<route, backend, verifyVars>>
    PROVE  IInv'
  <1>. USE PagesAssumption, ListingAssumption
       DEF IInv, SwitchRecord, SentRecordLoad, NoRecordLoad, backend, verifyVars
  <1>0. Created \in 0 .. MaxRequests /\ Created' = Created /\ r # None
    BY CreatedBound DEF Created, Ids
  <1>1. TableInv'
    BY <1>0 DEF TableInv, PagesTypeOK, OneRow
  <1>2. VerifyInv'
    <2>1. CallsApart'
      BY <1>0 DEF VerifyInv, CallsApart, NewResult, NoAnswer
    <2>. QED
      BY <2>1 DEF VerifyInv, VerifyTypeOK, AnswersTrue, CallsNamed, RepairOfState, DueIssued, LogTrue, ResultIsOfRequest
  <1>3. RecordInv'
    <2>1. detail' \in DetailState
      BY DEF RecordInv, RecordTypeOK, DetailState
    <2>2. recordLoad' \in RecordLoad /\ proofLoad' \in ProofSteps
      BY DEF RecordLoad, ProofSteps
    <2>3. RecordTypeOK'
      BY <2>1, <2>2 DEF RecordInv, RecordTypeOK
    <2>4. LoadsApart'
      BY DEF RecordInv, RecordTypeOK, DetailState, LoadsApart
    <2>5. HistoryInv'
      BY <1>0, ListingsKept DEF RecordInv
    <2>6. DetailInv'
      BY DEF RecordInv, RecordTypeOK, DetailState, DetailInv
    <2>. QED
      BY <2>3, <2>4, <2>5, <2>6 DEF RecordInv
  <1>. QED
    BY <1>1, <1>2, <1>3

LEMMA OpenRecordInv == ASSUME IInv, NEW r \in Ids, OpenRecord(r) PROVE IInv'
  <1>1. VerifyTypeOK /\ r # None /\ "record" \in Routes
    BY PagesAssumption DEF IInv, VerifyInv, Ids, Routes
  <1>2. CASE route = "record"
    BY <1>2, SwitchRecordInv DEF OpenRecord
  <1>3. CASE route # "record"
    BY <1>1, <1>3, MountInv, DepartedCalls, VisitedTrue, NoAnswerIsOne DEF OpenRecord
  <1>. QED
    BY <1>2, <1>3

LEMMA OpenReceiptInv == ASSUME IInv, NEW r \in Receipts, OpenReceipt(r) PROVE IInv'
  <1>1. VerifyTypeOK /\ r \in Texts /\ "receipt" \in Routes
    BY DEF IInv, VerifyInv, Texts, Routes
  <1>. QED
    BY <1>1, MountInv, DepartedCalls, VisitedTrue, NoAnswerIsOne DEF OpenReceipt

\* To /result with an answer, of the history or just come, or with none.
LEMMA ToResultInv ==
    ASSUME IInv, NEW s \in Answers, s # NoAnswer => TrueAnswer(s),
           calls' \in [Calls -> Call],
           \A c \in Calls : calls'[c] \in {[calls[c] EXCEPT !.here = FALSE], NoCall},
           visited' \in SUBSET Answer, \A v \in visited' : TrueAnswer(v),
           IF route = "result"
           THEN /\ result' = ReplaceState(s)
                /\ UNCHANGED <<place, backend, verify, sent, repairs, log, due, recordVars>>
           ELSE Mount("result", None, s, None)
    PROVE  IInv'
  <1>1. CASE route = "result"
    <2>1. TableInv'
      BY <1>1 DEF IInv, TableInv, PagesTypeOK, OneRow, place, backend
    <2>2. VerifyInv'
      BY <1>1, ReplaceInv DEF IInv
    <2>3. RecordInv'
      <3>0. /\ UNCHANGED <<history, listing, detail, recordLoad, proofLoad, receipt, check>>
            /\ UNCHANGED <<route, recordId, rows>>
        BY <1>1 DEF recordVars, place, backend
      <3>1. Created \in 0 .. MaxRequests /\ Created' = Created
        BY <3>0, CreatedBound DEF IInv, Created
      <3>2. HistoryInv'
        BY <3>0, <3>1, ListingsKept, PagesAssumption DEF IInv, RecordInv
      <3>. QED
        BY <3>0, <3>2 DEF IInv, RecordInv, RecordTypeOK, LoadsApart, DetailInv
    <2>. QED
      BY <2>1, <2>2, <2>3 DEF IInv
  <1>2. CASE route # "result"
    <2>1. "result" \in Routes
      BY DEF Routes
    <2>. QED
      BY <1>2, <2>1, MountInv, NoAnswerIsOne
  <1>. QED
    BY <1>1, <1>2

LEMMA RevisitInv == ASSUME IInv, NEW s \in visited \cup {NoAnswer}, Revisit(s) PROVE IInv'
  <1>1. VerifyTypeOK /\ s \in Answers /\ (s # NoAnswer => TrueAnswer(s))
    BY VisitedTrue DEF IInv, VerifyInv, Answers
  <1>2. CASE route = "result"
    \* No page but Verify waits for a call.
    <2>1. calls' = calls /\ \A c \in Calls : ~calls[c].here
      BY <1>2 DEF Revisit, IInv, VerifyInv, VerifyTypeOK, Call, CallsApart
    <2>2. /\ calls' \in [Calls -> Call]
          /\ \A c \in Calls : calls'[c] \in {[calls[c] EXCEPT !.here = FALSE], NoCall}
      BY <1>1, <2>1 DEF VerifyTypeOK, Call
    <2>. QED
      BY <1>1, <1>2, <2>2, ToResultInv, VisitedTrue DEF Revisit
  <1>3. CASE route # "result"
    BY <1>1, <1>3, ToResultInv, DepartedCalls, VisitedTrue DEF Revisit
  <1>. QED
    BY <1>2, <1>3

LEMMA DeliverVerifyInv == ASSUME IInv, NEW c \in Calls, DeliverVerify(c) PROVE IInv'
  <1>1. VerifyTypeOK /\ calls[c].step = "answered"
    BY DEF IInv, VerifyInv, DeliverVerify
  <1>2. AnswerOf(c) \in Answer /\ TrueAnswer(AnswerOf(c)) /\ AnswerOf(c) \in Answers
    <2>1. calls[c].receipt \in DOMAIN receipts /\ receipts[calls[c].receipt].request = calls[c].request
      BY <1>1 DEF IInv, VerifyInv, AnswersTrue
    <2>2. calls[c].receipt # None
      BY <2>1, PagesAssumption DEF IInv, TableInv, PagesTypeOK
    <2>. QED
      BY <1>1, <2>1, <2>2, AnswerTypes DEF IInv, VerifyInv, TrueAnswer, AnswerOf, Answers
  <1>3. /\ calls' \in [Calls -> Call]
        /\ \A d \in Calls : calls'[d] \in {[calls[d] EXCEPT !.here = FALSE], NoCall}
    BY <1>1, DepartedCalls DEF DeliverVerify
  <1>4. visited' \in SUBSET Answer /\ \A v \in visited' : TrueAnswer(v)
    BY <1>2, VisitedTrue DEF DeliverVerify
  <1>. QED
    BY <1>2, <1>3, <1>4, ToResultInv DEF DeliverVerify

-----------------------------------------------------------------------------
(* The steps together.                                                       *)

LEMMA InitInv == ASSUME Init PROVE IInv
  <1>. USE PagesAssumption, LogAssumption, ListingAssumption
       DEF Init, PagesInit, VerifyInit, RecordInit
  <1>0. Created = 0
    BY DEF Created
  <1>1. TableInv
    BY DEF TableInv, PagesTypeOK, OneRow, Routes
  <1>2. VerifyInv
    <2>. USE DEF NewResult, NoCall, NoAnswer, FreshVerify
    <2>1. VerifyTypeOK
      BY DEF VerifyTypeOK, VerifyState, Call, ResultState, Answers
    <2>2. CallsApart /\ AnswersTrue /\ CallsNamed
      BY DEF CallsApart, AnswersTrue, CallsNamed
    <2>3. RepairOfState /\ DueIssued /\ LogTrue /\ ResultIsOfRequest
      BY DEF RepairOfState, DueIssued, LogTrue, ResultIsOfRequest
    <2>. QED
      BY <2>1, <2>2, <2>3 DEF VerifyInv
  <1>3. RecordInv
    <2>. USE DEF NewHistory, NoListing, FreshDetail, NoRecordLoad, NewReceipt, NoCheck
    <2>1. RecordTypeOK
      BY DEF RecordTypeOK, HistoryState, PageNumbers, Listing, DetailState, RecordLoad, ProofSteps,
             ReceiptState, Texts, Check
    <2>2. LoadsApart /\ DetailInv
      BY DEF LoadsApart, DetailInv
    <2>3. HistoryInv
      BY <1>0 DEF HistoryInv, Listings
    <2>. QED
      BY <2>1, <2>2, <2>3 DEF RecordInv
  <1>. QED
    BY <1>1, <1>2, <1>3 DEF IInv

\* Rows added and receipts issued leave the pages that show records alone.
LEMMA RecordsGrow ==
    ASSUME IInv, TableInv', Len(rows) <= Len(rows'), UNCHANGED <<place, recordVars>>
    PROVE  RecordInv'
  <1>0. /\ UNCHANGED <<history, listing, detail, recordLoad, proofLoad, receipt, check>>
        /\ UNCHANGED <<route, recordId>>
    BY DEF recordVars, place
  <1>1. Created \in Nat /\ Created' \in Nat /\ Created <= Created'
    BY DEF Created, IInv, TableInv, PagesTypeOK
  <1>2. HistoryInv'
    BY <1>0, <1>1, ListingsKept DEF IInv, RecordInv
  <1>. QED
    BY <1>0, <1>2 DEF IInv, RecordInv, RecordTypeOK, LoadsApart, DetailInv

LEMMA OtherClientsInv == ASSUME IInv, OtherClients PROVE IInv'
  <1>1. CASE IssueElsewhere
    <2>1. PICK q \in OwnRequests + 1 .. MaxRequests : Issue(q, FALSE)
      BY <1>1 DEF IssueElsewhere
    <2>2. q \in Requests /\ FALSE \in BOOLEAN
      BY PagesAssumption DEF Requests
    <2>3. /\ TableInv' /\ Len(rows) <= Len(rows')
          /\ \A i \in DOMAIN receipts : i \in DOMAIN receipts' /\ receipts'[i] = receipts[i]
      BY <2>1, <2>2, IssueTable DEF OtherClients, IInv
    <2>. QED
      BY <2>3, ReceiptsGrow, RecordsGrow DEF OtherClients, IInv
  <1>2. CASE \E i \in Ids : Anchor(i)
    <2>1. PICK i \in Ids : Anchor(i)
      BY <1>2
    <2>2. TableInv' /\ UNCHANGED <<receipts, rows>>
      BY <2>1, AnchorTable DEF OtherClients, IInv, Anchor
    <2>3. Len(rows) <= Len(rows')
      BY <2>2 DEF IInv, TableInv, PagesTypeOK
    <2>. QED
      BY <2>2, <2>3, ReceiptsGrow, RecordsGrow DEF OtherClients, IInv
  <1>. QED
    BY <1>1, <1>2 DEF OtherClients

LEMMA StayOnVerifyPagesInv ==
    ASSUME IInv, StayOnVerifyPages, UNCHANGED <<place, backend, recordVars>> PROVE IInv'
  <1>1. UNCHANGED <<place, backend>> /\ UNCHANGED <<place, recordVars>>
    OBVIOUS
  <1>2. VerifyInv'
    BY <1>1, DraftInv, SubmitInv, DeliverVerifyErrorInv, RequestRepairInv, DeliverRepairInv,
       DeliverRepairErrorInv DEF StayOnVerifyPages, IInv
  <1>3. TableInv' /\ Len(rows) <= Len(rows')
    BY DEF IInv, TableInv, PagesTypeOK, OneRow, place, backend
  <1>. QED
    BY <1>1, <1>2, <1>3, RecordsGrow DEF IInv

LEMMA ServeVerifyPagesInv ==
    ASSUME IInv, ServeVerifyPages, UNCHANGED recordVars PROVE IInv'
  <1>1. ASSUME NEW c \in Calls, ServeVerify(c) PROVE IInv'
    <2>1. VerifyInv'
      BY <1>1, ServeVerifyInv DEF IInv
    <2>2. calls[c].request \in Requests /\ FALSE \in BOOLEAN
      BY <1>1 DEF IInv, VerifyInv, CallsNamed, ServeVerify
    <2>3. TableInv' /\ Len(rows) <= Len(rows') /\ UNCHANGED place
      BY <1>1, <2>2, IssueTable DEF IInv, ServeVerify
    <2>. QED
      BY <2>1, <2>3, RecordsGrow DEF IInv
  <1>2. ASSUME NEW r \in Repairs, ServeRepair(r) PROVE IInv'
    <2>1. VerifyInv'
      BY <1>2, ServeRepairInv DEF IInv
    <2>2. repairs[r].request \in Requests /\ TRUE \in BOOLEAN
      BY <1>2 DEF IInv, VerifyInv, CallsNamed, ServeRepair
    <2>3. TableInv' /\ Len(rows) <= Len(rows') /\ UNCHANGED place
      BY <1>2, <2>2, IssueTable DEF IInv, ServeRepair
    <2>. QED
      BY <2>1, <2>3, RecordsGrow DEF IInv
  <1>3. ASSUME (\E r \in Repairs : RepairFails(r)) \/ \E c \in Calls : VerifyFails(c) PROVE IInv'
    <2>1. VerifyInv'
      BY <1>3, VerifyFailsInv, RepairFailsInv DEF IInv
    <2>2. UNCHANGED <<place, backend>>
      BY <1>3 DEF VerifyFails, RepairFails
    <2>3. TableInv' /\ Len(rows) <= Len(rows') /\ UNCHANGED place
      BY <2>2 DEF IInv, TableInv, PagesTypeOK, OneRow, place, backend
    <2>. QED
      BY <2>1, <2>3, RecordsGrow DEF IInv
  <1>. QED
    BY <1>1, <1>2, <1>3 DEF ServeVerifyPages

LEMMA RecordPagesStep ==
    ASSUME IInv, StayOnRecordPages \/ ServeRecordPages, UNCHANGED <<place, backend, verifyVars>>
    PROVE  IInv'
  <1>1. UNCHANGED <<place, backend>> /\ UNCHANGED <<place, verifyVars>>
    OBVIOUS
  <1>2. TableInv' /\ \A i \in DOMAIN receipts : i \in DOMAIN receipts' /\ receipts'[i] = receipts[i]
    BY DEF IInv, TableInv, PagesTypeOK, OneRow, place, backend
  <1>3. VerifyInv'
    BY <1>1, <1>2, ReceiptsGrow DEF IInv
  <1>4. CallsApart
    BY DEF IInv, VerifyInv
  <1>5. ASSUME ServeRecordPages PROVE RecordInv'
    BY <1>1, <1>4, <1>5, CountRecordsInv, ServeListingInv, ListingFailsInv, ServeRecordInv, ServeProofInv, ServeCheckInv
       DEF ServeRecordPages, IInv
  <1>6. ASSUME StayOnRecordPages PROVE RecordInv'
    BY <1>1, <1>4, <1>6, DeliverListingInv, DeliverRecordInv, DeliverRecordErrorInv, DeliverProofInv,
       DeliverCheckInv, TurnPageInv, ShowSessionInv, ShowServerInv, EditReceiptInv, OnVerifyInv
       DEF StayOnRecordPages, IInv
  <1>. QED
    BY <1>2, <1>3, <1>5, <1>6 DEF IInv

LEMMA ClearSessionLogInv == ASSUME IInv, ClearSessionLog PROVE IInv'
  <1>. USE DEF ClearSessionLog
  <1>1. UNCHANGED <<place, backend>> /\ ClearLog
    OBVIOUS
  <1>2. VerifyInv'
    BY <1>1, ClearLogInv DEF IInv
  <1>3. TableInv'
    BY <1>1 DEF IInv, TableInv, PagesTypeOK, OneRow, place, backend
  <1>4. Created' = Created
    BY <1>1 DEF Created, backend
  <1>5. RecordInv'
    <2>. USE DEF IInv, RecordInv, RecordTypeOK, HistoryState
    <2>1. history' \in HistoryState
      OBVIOUS
    <2>2. RecordTypeOK' /\ LoadsApart'
      BY <1>1, <2>1 DEF LoadsApart, place
    <2>3. HistoryInv'
      BY <1>4 DEF HistoryInv, Listings
    <2>4. DetailInv'
      BY <1>1 DEF DetailInv, place
    <2>. QED
      BY <2>2, <2>3, <2>4
  <1>. QED
    BY <1>2, <1>3, <1>5 DEF IInv

LEMMA StutterInv == ASSUME IInv, UNCHANGED vars PROVE IInv'
  <1>1. /\ UNCHANGED <<place, backend, verifyVars, recordVars>>
        /\ UNCHANGED <<place, verifyVars>> /\ UNCHANGED <<place, recordVars>> /\ UNCHANGED <<place, backend>>
    BY DEF vars
  <1>2. /\ TableInv' /\ Len(rows) <= Len(rows')
        /\ \A i \in DOMAIN receipts : i \in DOMAIN receipts' /\ receipts'[i] = receipts[i]
    BY <1>1 DEF IInv, TableInv, PagesTypeOK, OneRow, place, backend
  <1>. QED
    BY <1>1, <1>2, ReceiptsGrow, RecordsGrow DEF IInv

LEMMA NextInv == ASSUME IInv, [Next]_vars PROVE IInv'
  <1>1. ASSUME Navigate PROVE IInv'
    BY <1>1, GoToInv, OpenRecordInv, OpenReceiptInv, RevisitInv DEF Navigate
  <1>2. ASSUME \E c \in Calls : DeliverVerify(c) PROVE IInv'
    BY <1>2, DeliverVerifyInv
  <1>. QED
    BY <1>1, <1>2, StayOnVerifyPagesInv, ServeVerifyPagesInv, RecordPagesStep, ClearSessionLogInv,
       OtherClientsInv, StutterInv DEF Next

-----------------------------------------------------------------------------
(* The theorems.                                                             *)

LEMMA Invariance == Spec => []IInv
  BY InitInv, NextInv, PTL DEF Spec

\* Type correctness, and that a page waits for a request of its own or for none:
\* Inv, of which the pages' continuations after an unmount are the hazard.
THEOREM Correctness == Spec => []Inv
  <1>1. IInv => Inv
    BY DEF IInv, TableInv, VerifyInv, RecordInv, Inv, TypeOK
  <1>. QED
    BY <1>1, Invariance, PTL

\* The session log has the newest of the repairs that were saved since it was
\* cleared, as many as fit, each once and with its own request: the onEscalate
\* and onPay continuations of Result.tsx and appendSessionEntry of session.ts.
THEOREM LogTrueAlways == Spec => []LogTrue
  <1>1. IInv => LogTrue
    BY DEF IInv, VerifyInv
  <1>. QED
    BY <1>1, Invariance, PTL

\* The response on the result page is of the location's request while the
\* location stays: useState(state?.response) of Result.tsx.
THEOREM ResultIsOfRequestAlways == Spec => []ResultIsOfRequest
  <1>1. IInv => ResultIsOfRequest
    BY DEF IInv, VerifyInv
  <1>. QED
    BY <1>1, Invariance, PTL

\* History shows the page its pager names and no empty page of a list with
\* records: the listing effect of History.tsx.
THEOREM HistoryShowsItsPageAlways == Spec => []HistoryShowsItsPage
  <1>1. IInv => HistoryShowsItsPage
    BY DEF IInv, RecordInv, HistoryInv, HistoryShowsItsPage, EmptyShown, HistoryShown
  <1>. QED
    BY <1>1, Invariance, PTL

\* RecordDetail shows the record of its address.  Another record's proof is
\* beside it only while the spinner turns, after an error or if the record is
\* not anchored, and an anchored record is never without all three: the two
\* effects of RecordDetail.tsx and the panel from line 276 on.
THEOREM ForeignProofExplainedAlways == Spec => []ForeignProofExplained
  <1>1. IInv => ForeignProofExplained
    <2>. SUFFICES ASSUME IInv PROVE ForeignProofExplained
      OBVIOUS
    <2>1. CASE DetailShown
      <3>1. detail.record = recordId /\ recordId # None
        BY <2>1 DEF IInv, RecordInv, DetailInv, DetailShown
      <3>2. detail.anchored => IF detail.proofLoading THEN proofLoad # "none"
                               ELSE detail.proofError \/ detail.proof = recordId
        BY <2>1 DEF IInv, RecordInv, DetailInv, DetailShown
      <3>. QED
        BY <2>1, <3>1, <3>2
           DEF ForeignProofExplained, RecordShown, ProofPanel, ProofSpinner, AnchoredShown
    <2>2. CASE ~DetailShown
      BY <2>2 DEF ForeignProofExplained, RecordShown, ProofPanel, ProofSpinner, AnchoredShown
    <2>. QED
      BY <2>1, <2>2
  <1>. QED
    BY <1>1, Invariance, PTL

NothingBetween ==
    history.shown # None /\ history'.shown = history.shown + 1 /\ history.listed # {} =>
        \A i \in Ids : \/ i \in history'.listed
                       \/ \E r \in history.listed : r <= i
                       \/ \E r \in history'.listed : i < r

LEMMA SkipsNone == ASSUME IInv, DeliverListing PROVE NothingBetween
  <1>. SUFFICES ASSUME history.shown # None, history'.shown = history.shown + 1, history.listed # {},
                       NEW i \in Ids
                PROVE  \/ i \in history'.listed
                       \/ \E r \in history.listed : r <= i
                       \/ \E r \in history'.listed : i < r
    BY DEF NothingBetween
  <1>1. history.shown \in Nat /\ history \in HistoryState
    BY DEF IInv, RecordInv, RecordTypeOK, HistoryState, PageNumbers
  <1>2. CASE listing.step = "listed"
    <2>1. /\ history'.listed = listing.listed
          /\ history'.shown = history.page
      BY <1>1, <1>2 DEF DeliverListing, HistoryState
    <2>2. Created \in Nat
      BY DEF IInv, TableInv, PagesTypeOK, Created
    <2>3. PICK m \in 0 .. Created :
             /\ history.listed = RowsAt(m, history.shown)
             /\ \E n \in m .. Created : listing.listed = RowsAt(n, history.page)
      BY <1>2 DEF IInv, RecordInv, HistoryInv, Listings
    <2>4. PICK n \in m .. Created : listing.listed = RowsAt(n, history.page)
      BY <2>3
    <2>5. m \in Nat /\ n \in Nat /\ m <= n /\ i \in Nat \ {0}
      BY <2>2 DEF Ids
    <2>. QED
      BY SMTT(30), <1>1, <2>1, <2>3, <2>4, <2>5, NoneBetween
  <1>3. CASE listing.step # "listed"
    <2>1. history' = [history EXCEPT !.error = TRUE, !.loading = FALSE]
      BY <1>3 DEF DeliverListing
    <2>2. history'.shown = history.shown
      BY <1>1, <2>1 DEF HistoryState
    <2>3. history.shown + 1 # history.shown
      BY <1>1
    <2>. QED
      BY <2>2, <2>3
  <1>. QED
    BY <1>2, <1>3

\* No other step shows another page, though a mount shows none.
LEMMA ShownKept ==
    ASSUME IInv, [Next]_vars, ~DeliverListing PROVE history'.shown \in {history.shown, None}
  <1>1. history \in HistoryState
    BY DEF IInv, RecordInv, RecordTypeOK
  <1>2. ASSUME UNCHANGED history PROVE history'.shown \in {history.shown, None}
    BY <1>2
  <1>3. ASSUME UNCHANGED recordVars PROVE UNCHANGED history
    BY <1>3 DEF recordVars
  <1>4. ASSUME NEW to, NEW t, MountRecordPages(to, t, LoggedReceipts) PROVE history'.shown = None
    BY <1>4 DEF MountRecordPages, NewHistory
  <1>5. CASE Navigate
    BY <1>2, <1>3, <1>4, <1>5
       DEF Navigate, GoTo, OpenRecord, OpenReceipt, Revisit, Mount, SwitchRecord
  <1>6. CASE \E c \in Calls : DeliverVerify(c)
    BY <1>2, <1>3, <1>4, <1>6 DEF DeliverVerify, Mount
  <1>7. CASE StayOnRecordPages \/ ServeRecordPages
    <2>1. CASE \E p \in PageNumbers : TurnPage(p)
      BY <1>1, <2>1 DEF TurnPage, HistoryState
    <2>2. CASE ShowSession \/ ShowServer
      BY <1>1, <2>2 DEF ShowSession, ShowServer, HistoryState
    <2>3. CASE ~(\E p \in PageNumbers : TurnPage(p)) /\ ~ShowSession /\ ~ShowServer
      <3>1. UNCHANGED history
        BY <1>7, <2>3
           DEF StayOnRecordPages, ServeRecordPages, DeliverRecord, DeliverRecordError, DeliverProof,
               DeliverCheck, EditReceipt, OnVerify, CountRecords, ServeListing, ListingFails, ServeRecord, ServeProof, ServeCheck
      <3>. QED
        BY <1>2, <3>1
    <2>. QED
      BY <2>1, <2>2, <2>3
  <1>8. CASE ClearSessionLog
    BY <1>1, <1>8 DEF ClearSessionLog, HistoryState
  <1>. QED
    BY <1>2, <1>3, <1>5, <1>6, <1>7, <1>8 DEF Next, OtherClients, vars

\* Turning a page skips no record, whatever is created meanwhile: list_records
\* by offset in store.py, newest first, under the pager of History.tsx.
THEOREM NoRecordSkippedAlways == Spec => NoRecordSkipped
  <1>1. IInv /\ [Next]_vars => NothingBetween
    <2>. SUFFICES ASSUME IInv, [Next]_vars PROVE NothingBetween
      OBVIOUS
    <2>1. CASE DeliverListing
      BY <2>1, SkipsNone
    <2>2. CASE ~DeliverListing
      <3>1. history'.shown \in {history.shown, None}
        BY <2>2, ShownKept
      <3>2. history.shown # None => history.shown \in Nat
        BY DEF IInv, RecordInv, RecordTypeOK, HistoryState, PageNumbers
      <3>. QED
        BY <3>1, <3>2, PagesAssumption DEF NothingBetween
    <2>. QED
      BY <2>1, <2>2
  <1>2. NothingBetween =>
          [/\ history.shown # None /\ history'.shown = history.shown + 1
           /\ history.listed # {}
           => \A i \in Ids : \/ i \in history'.listed
                             \/ \E r \in history.listed : r <= i
                             \/ \E r \in history'.listed : i < r]_vars
    BY DEF NothingBetween
  <1>. QED
    BY <1>1, <1>2, Invariance, PTL DEF Spec, NoRecordSkipped
=============================================================================
