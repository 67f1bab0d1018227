-------------------------- MODULE RecordStoreProofs --------------------------
(***************************************************************************)
(* Proofs about RecordStore, for every set of requests, calls, threads and *)
(* runs and every bound.                                                   *)
(***************************************************************************)
EXTENDS RecordStore, TLAPS

-----------------------------------------------------------------------------
(* The table.  The types alone are not inductive: an UPDATE and a mark keep *)
(* them only because the rows they are about still exist, and a batch is    *)
(* about existing rows only because a row's receipt is about its request.   *)

Table == TypeOK /\ RowsRemain /\ StoredTraceable

LEMMA InitTable == Init => Table
<1> SUFFICES ASSUME Init PROVE Table
  OBVIOUS
<1>1. rows \in [Requests -> Row \cup {NoRow}] /\ calls \in [Calls -> [step : CallSteps, thread : Threads \cup {None}]]
  BY DEF Init, CallSteps
<1>2. conns \in [Endpoints \X Threads -> {"ok", "broken"}] /\ runs \in [Runs -> [step : RunSteps, batch : Roots, overlapped : BOOLEAN]]
  BY DEF Init, RunSteps, Roots
<1>3. restarts \in 0 .. MaxRestarts /\ drops \in 0 .. MaxDrops
  BY ConstantAssumption DEF Init
<1>4. RowsRemain /\ StoredTraceable
  BY DEF Init, RowsRemain, StoredTraceable
<1> QED
  BY <1>1, <1>2, <1>3, <1>4 DEF Init, TypeOK, Table

\* The receipt of an existing row, and what a call that ends well leaves.
LEMMA RowReceipt ==
  ASSUME TypeOK, NEW q \in Requests, rows[q] # NoRow
  PROVE  rows[q] \in Row /\ rows[q].receipt \in Calls
BY DEF TypeOK, Row

\* The row of the request holds the receipt of the call.
Written(c) ==
    /\ rows' \in [Requests -> Row \cup {NoRow}]
    /\ rows'[RequestOf[c]] # NoRow /\ rows'[RequestOf[c]].receipt = c
    /\ \A q \in Requests : q # RequestOf[c] => rows'[q] = rows[q]

\* The handler steps.
LEMMA UpsertTable ==
  ASSUME Table, NEW c \in Calls, Upsert(c)
  PROVE  Table'
<1> USE CallAssumption DEF Table
<1>1. ASSUME NEW t \in Threads, UpsertRead(c, t)
      PROVE  Table'
  <2>1. TypeOK'
    BY <1>1 DEF TypeOK, UpsertRead, CallSteps
  <2>2. RowsRemain'
    BY <1>1 DEF TypeOK, UpsertRead, RowsRemain
  <2>3. StoredTraceable'
    BY <1>1, RowReceipt DEF TypeOK, UpsertRead, StoredTraceable
  <2> QED
    BY <2>1, <2>2, <2>3
\* What an UPDATE and an INSERT leave in the table, acknowledged or not.
<1>2. ASSUME calls[c].step = "update", rows' = [rows EXCEPT ![RequestOf[c]].receipt = c]
      PROVE  Written(c)
  <2>1. rows[RequestOf[c]] \in Row
    BY <1>2, RowReceipt DEF RowsRemain
  <2>2. /\ [rows[RequestOf[c]] EXCEPT !.receipt = c] \in Row
        /\ [rows[RequestOf[c]] EXCEPT !.receipt = c].receipt = c
    BY <2>1 DEF Row
  <2> QED
    BY <1>2, <2>2, RowAssumption DEF TypeOK, Written
<1>3. ASSUME rows' = [rows EXCEPT ![RequestOf[c]] = NewRow(c)]
      PROVE  Written(c)
  <2>1. NewRow(c) \in Row /\ NewRow(c).receipt = c
    BY DEF NewRow, Row, Roots, NoRoot
  <2> QED
    BY <1>3, <2>1, RowAssumption DEF TypeOK, Written
<1>4. ASSUME Written(c), NEW s \in {"stored", "unsaved"}, Finish(c, s), Busy(c),
             conns' \in [Endpoints \X Threads -> {"ok", "broken"}], drops' \in 0 .. MaxDrops,
             UNCHANGED <<runs, mempool, ledger, restarts>>
      PROVE  Table'
  <2>1. TypeOK'
    BY SMTT(30), <1>4 DEF TypeOK, Written, Finish, CallSteps
  <2>2. /\ \A d \in Calls : calls'[d].step = IF d = c THEN s ELSE calls[d].step
        /\ UNCHANGED runs
    BY <1>4 DEF TypeOK, Finish
  <2>3. RowsRemain'
    BY <1>4, <2>2 DEF TypeOK, Written, RowsRemain, Roots
  <2>4. StoredTraceable'
    BY <1>4, <2>2, RowReceipt DEF Written, StoredTraceable, Busy
  <2> QED
    BY <2>1, <2>3, <2>4
<1>5. ASSUME Busy(c), NEW s \in {"conflict", "unsaved"}, Finish(c, s),
             s = "conflict" => rows[RequestOf[c]] # NoRow,
             conns' \in [Endpoints \X Threads -> {"ok", "broken"}],
             UNCHANGED <<rows, runs, mempool, ledger, restarts, drops>>
      PROVE  Table'
  <2>1. TypeOK'
    BY <1>5 DEF TypeOK, Finish, CallSteps
  <2>2. RowsRemain' /\ StoredTraceable'
    BY <1>5, RowReceipt DEF TypeOK, Finish, RowsRemain, StoredTraceable, Busy
  <2> QED
    BY <2>1, <2>2
<1>6. CASE UpsertUpdate(c)
  BY <1>2, <1>4, <1>6 DEF UpsertUpdate, TypeOK, Busy
<1>7. CASE UpsertInsert(c)
  BY <1>3, <1>4, <1>7 DEF UpsertInsert, TypeOK, Busy
<1>8. CASE UpsertConflict(c)
  BY <1>5, <1>8 DEF UpsertConflict, TypeOK, Busy
<1>9. CASE UpsertDropped(c)
  BY <1>5, <1>9 DEF UpsertDropped, TypeOK
<1>10. CASE UpsertUnacknowledged(c)
  <2>1. Written(c)
    BY <1>2, <1>3, <1>10 DEF UpsertUnacknowledged
  <2>2. drops' \in 0 .. MaxDrops
    BY <1>10, ConstantAssumption DEF UpsertUnacknowledged, TypeOK
  <2>3. conns' \in [Endpoints \X Threads -> {"ok", "broken"}]
    BY <1>10 DEF UpsertUnacknowledged, TypeOK
  <2> QED
    BY <1>4, <1>10, <2>1, <2>2, <2>3 DEF UpsertUnacknowledged
<1> QED
  BY <1>1, <1>6, <1>7, <1>8, <1>9, <1>10 DEF Upsert

\* A mark leaves every other column of its rows, and every other row, alone.
MarkEffect(r) ==
    /\ rows' \in [Requests -> Row \cup {NoRow}]
    /\ \A q \in Requests : rows'[q] = NoRow <=> rows[q] = NoRow
    /\ \A q \in Requests : rows[q] # NoRow => rows'[q].receipt = rows[q].receipt
    /\ \A q \in Requests : Anchored(q) => rows'[q] = rows[q]
    /\ \A q \in Requests : q \notin BatchRequests(r) => rows'[q] = rows[q]
    /\ \A q \in BatchRequests(r) :
         /\ q \in Requests
         /\ rows'[q].status = "anchored"
         /\ ~Anchored(q) => rows'[q].root = runs[r].batch /\ rows'[q].tx = r

\* The marks of a run are written, acknowledged or not.
Marks(r) == MarkAnchored(r) \/ MarkUnacknowledged(r)

LEMMA MarkedRows ==
  ASSUME Table, NEW r \in Runs, Marks(r)
  PROVE  MarkEffect(r)
<1> USE CallAssumption
<1>1. \A q \in BatchRequests(r) : q \in Requests /\ rows[q] # NoRow
  BY DEF Table, TypeOK, RowsRemain, BatchRequests, Roots
<1>2. runs[r].batch \in Roots
  BY DEF Table, TypeOK
<1> DEFINE marked(q) == [rows[q] EXCEPT !.status = "anchored", !.root = runs[r].batch, !.tx = r]
<1>3. ASSUME NEW q \in Requests, rows[q] # NoRow
      PROVE  /\ marked(q) \in Row
             /\ marked(q).status = "anchored"
             /\ marked(q).root = runs[r].batch
             /\ marked(q).tx = r
             /\ marked(q).receipt = rows[q].receipt
  BY <1>2, <1>3, RowReceipt DEF Row, Table
<1>4. ASSUME NEW q \in Requests
      PROVE  rows'[q] = IF q \in BatchRequests(r) /\ rows[q].status # "anchored"
                        THEN marked(q) ELSE rows[q]
  BY DEF Marks, MarkAnchored, MarkUnacknowledged, Marked
<1>5. rows' \in [Requests -> Row \cup {NoRow}]
  <2>1. rows' = [q \in Requests |-> rows'[q]]
    BY DEF Marks, MarkAnchored, MarkUnacknowledged, Marked
  <2>2. ASSUME NEW q \in Requests
        PROVE  rows'[q] \in Row \cup {NoRow}
    <3>1. CASE q \in BatchRequests(r) /\ rows[q].status # "anchored"
      BY <3>1, <1>1, <1>3, <1>4
    <3>2. CASE ~(q \in BatchRequests(r) /\ rows[q].status # "anchored")
      BY <3>2, <1>4 DEF Table, TypeOK
    <3> QED
      BY <3>1, <3>2
  <2> QED
    BY <2>1, <2>2
<1>6. ASSUME NEW q \in Requests
      PROVE  rows'[q] = NoRow <=> rows[q] = NoRow
  BY <1>1, <1>3, <1>4, RowAssumption
<1>7. ASSUME NEW q \in Requests, rows[q] # NoRow
      PROVE  rows'[q].receipt = rows[q].receipt
  BY <1>3, <1>4, <1>7
<1>8. ASSUME NEW q \in Requests, Anchored(q)
      PROVE  rows'[q] = rows[q]
  BY <1>4, <1>8 DEF Anchored
<1>9. ASSUME NEW q \in BatchRequests(r)
      PROVE  /\ q \in Requests
             /\ rows'[q].status = "anchored"
             /\ ~Anchored(q) => rows'[q].root = runs[r].batch /\ rows'[q].tx = r
  <2>1. q \in Requests /\ rows[q] # NoRow
    BY <1>1, <1>9
  <2>2. /\ marked(q).status = "anchored"
        /\ marked(q).root = runs[r].batch
        /\ marked(q).tx = r
    BY <1>3, <2>1
  <2>3. rows'[q] = IF rows[q].status # "anchored" THEN marked(q) ELSE rows[q]
    BY <1>4, <1>9, <2>1
  <2> HIDE DEF marked
  <2> QED
    BY <2>1, <2>2, <2>3 DEF Anchored
<1> QED
  BY <1>4, <1>5, <1>6, <1>7, <1>8, <1>9 DEF MarkEffect

\* What a mark does to its run.
LEMMA MarkedRun ==
  ASSUME TypeOK, NEW r \in Runs, Marks(r)
  PROVE  /\ runs[r].step = "confirmed"
         /\ UNCHANGED <<calls, conns, mempool, ledger, restarts, drops>>
         /\ runs' \in [Runs -> [step : RunSteps, batch : Roots, overlapped : BOOLEAN]]
         /\ \A x \in Runs : /\ runs'[x].batch = runs[x].batch
                            /\ runs'[x].overlapped = runs[x].overlapped
                            /\ x # r => runs'[x].step = runs[x].step
         /\ runs'[r].step \in {"anchored", "error"}
<1>1. PICK s \in {"anchored", "error"} : Goto(r, s)
  BY DEF Marks, MarkAnchored, MarkUnacknowledged
<1>2. UNCHANGED <<calls, conns, mempool, ledger, restarts, drops>> /\ runs[r].step = "confirmed"
  BY DEF Marks, MarkAnchored, MarkUnacknowledged
<1>3. runs' = [runs EXCEPT ![r].step = s] /\ s \in RunSteps
  BY <1>1 DEF Goto, RunSteps
<1>4. runs \in [Runs -> [step : RunSteps, batch : Roots, overlapped : BOOLEAN]]
  BY DEF TypeOK
<1> QED
  BY <1>2, <1>3, <1>4

\* What a selection does to the runs.
LEMMA Selected ==
  ASSUME Table, NEW r \in Runs, SelectBatch(r)
  PROVE  /\ runs' \in [Runs -> [step : RunSteps, batch : Roots, overlapped : BOOLEAN]]
         /\ runs[r].step = "listing" /\ runs'[r].step = "submitting"
         /\ ~runs'[r].overlapped => \A x \in Runs : ~Active(x)
         /\ \A x \in Runs \ {r} : /\ runs'[x].step = runs[x].step
                                  /\ runs'[x].batch = runs[x].batch
                                  /\ Active(x) => runs'[x].overlapped
                                  /\ ~Active(x) => runs'[x].overlapped = runs[x].overlapped
         /\ \A d \in runs'[r].batch : /\ RequestOf[d] \in Requests
                                      /\ rows[RequestOf[d]] # NoRow
                                      /\ ~Anchored(RequestOf[d])
<1>1. PICK B \in SUBSET Unanchored \ {{}} :
         runs' = [s \in Runs |->
                    IF s = r
                    THEN [step       |-> "submitting",
                          batch      |-> {rows[q].receipt : q \in B},
                          overlapped |-> \E x \in Runs : Active(x)]
                    ELSE [runs[s] EXCEPT !.overlapped = @ \/ Active(s)]]
  BY DEF SelectBatch
<1>2. PICK b \in BOOLEAN : b <=> \E x \in Runs : Active(x)
  OBVIOUS
<1> DEFINE batch == {rows[q].receipt : q \in B}
<1>3. ASSUME NEW q \in B
      PROVE  /\ q \in Requests /\ rows[q] # NoRow /\ ~Anchored(q)
             /\ rows[q].receipt \in Calls /\ RequestOf[rows[q].receipt] = q
  <2>1. q \in Requests /\ rows[q] # NoRow /\ ~Anchored(q)
    BY DEF Unanchored, Anchored
  <2> QED
    BY <2>1, RowReceipt DEF Table, StoredTraceable
<1>4. batch \in Roots
  BY <1>3 DEF Roots
<1>5. runs'[r] = [step |-> "submitting", batch |-> batch, overlapped |-> b]
  BY <1>1, <1>2, Zenon
<1>6. ASSUME NEW x \in Runs \ {r}
      PROVE  /\ runs'[x] \in [step : RunSteps, batch : Roots, overlapped : BOOLEAN]
             /\ runs'[x].step = runs[x].step
             /\ runs'[x].batch = runs[x].batch
             /\ Active(x) => runs'[x].overlapped
             /\ ~Active(x) => runs'[x].overlapped = runs[x].overlapped
  <2>1. runs[x] \in [step : RunSteps, batch : Roots, overlapped : BOOLEAN]
    BY DEF Table, TypeOK
  <2>2. PICK a \in BOOLEAN : a <=> runs[x].overlapped \/ Active(x)
    OBVIOUS
  <2>3. runs'[x] = [runs[x] EXCEPT !.overlapped = a]
    BY <1>1, <2>1, <2>2, Zenon
  <2>4. PICK s \in RunSteps, k \in Roots, o \in BOOLEAN : runs[x] = [step |-> s, batch |-> k, overlapped |-> o]
    BY <2>1
  <2>5. runs'[x] = [step |-> s, batch |-> k, overlapped |-> a]
    BY <2>3, <2>4
  <2> QED
    BY <2>2, <2>4, <2>5
<1>7. runs'[r] \in [step : RunSteps, batch : Roots, overlapped : BOOLEAN]
  BY <1>4, <1>5 DEF RunSteps
<1>8. runs' \in [Runs -> [step : RunSteps, batch : Roots, overlapped : BOOLEAN]]
  <2>1. runs' = [s \in Runs |-> runs'[s]]
    BY <1>1
  <2> QED
    BY <1>6, <1>7, <2>1
<1>9. \A d \in batch : RequestOf[d] \in Requests /\ rows[RequestOf[d]] # NoRow /\ ~Anchored(RequestOf[d])
  BY <1>3
<1>10. /\ runs'[r].step = "submitting" /\ runs'[r].batch = batch
       /\ ~runs'[r].overlapped => \A x \in Runs : ~Active(x)
  BY <1>2, <1>5
<1>11. runs[r].step = "listing"
  BY DEF SelectBatch
<1> HIDE DEF batch
<1> QED
  BY <1>6, <1>8, <1>9, <1>10, <1>11

\* The steps of an anchoring request.
LEMMA AnchorTable ==
  ASSUME Table, NEW r \in Runs, PostAnchor(r) \/ Anchor(r)
  PROVE  Table'
<1> USE CallAssumption DEF Table
<1>1. ASSUME NEW s \in RunSteps, Goto(r, s), UNCHANGED <<rows, calls, conns, restarts, drops>>,
             mempool' \subseteq Transactions, ledger' \subseteq Transactions
      PROVE  Table'
  BY <1>1 DEF TypeOK, Goto, RowsRemain, StoredTraceable
<1>2. CASE PostAnchor(r)
  BY <1>1, <1>2 DEF PostAnchor, RunSteps, TypeOK
<1>3. CASE SelectBatch(r)
  <2>1. UNCHANGED <<rows, calls, conns, mempool, ledger, restarts, drops>>
    BY <1>3 DEF SelectBatch
  <2>2. TypeOK'
    BY <1>3, <2>1, Selected DEF TypeOK
  <2>3. RowsRemain'
    BY <1>3, <2>1, Selected DEF RowsRemain
  <2>4. StoredTraceable'
    BY <2>1 DEF StoredTraceable
  <2> QED
    BY <2>2, <2>3, <2>4
<1>4. CASE SendTransaction(r)
  <2>1. Transaction(r) \in Transactions
    BY DEF Transaction, Transactions, TypeOK
  <2> QED
    BY <1>1, <1>4, <2>1 DEF SendTransaction, RunSteps, TypeOK
<1>5. CASE SeeConfirmation(r)
  BY <1>1, <1>5 DEF SeeConfirmation, RunSteps, TypeOK
<1>6. CASE SubmitFails(r)
  BY <1>1, <1>6 DEF SubmitFails, RunSteps, TypeOK
<1>7. CASE Marks(r)
  <2>1. MarkEffect(r) /\ UNCHANGED <<calls, conns, mempool, ledger, restarts, drops>>
    BY <1>7, MarkedRows, MarkedRun
  <2>2. TypeOK'
    BY <1>7, <2>1, MarkedRun DEF TypeOK, MarkEffect
  <2>3. \A s \in Runs : runs'[s].batch = runs[s].batch /\ runs[s].batch \subseteq Calls
    BY <1>7, MarkedRun DEF TypeOK, Roots
  <2>4. \A q \in Requests :
          /\ rows'[q] = NoRow <=> rows[q] = NoRow
          /\ rows[q] # NoRow => rows'[q].receipt = rows[q].receipt
    BY <2>1 DEF MarkEffect
  <2>5. RowsRemain'
    BY <2>1, <2>3, <2>4 DEF RowsRemain
  <2>6. StoredTraceable'
    BY <2>1, <2>4 DEF StoredTraceable
  <2> QED
    BY <2>2, <2>5, <2>6
<1>8. CASE StoreFails(r)
  BY <1>1, <1>8 DEF StoreFails, RunSteps, TypeOK
<1>9. CASE SelectNone(r)
  BY <1>1, <1>9 DEF SelectNone, RunSteps, TypeOK
<1> QED
  BY <1>2, <1>3, <1>4, <1>5, <1>6, <1>7, <1>8, <1>9 DEF Anchor, Marks

\* The ledger, the database server and the process.
LEMMA EnvironmentTable ==
  ASSUME Table,
         \/ \E e \in Endpoints, t \in Threads : DropConnection(e, t)
         \/ \E x \in mempool : ConfirmTransaction(x) \/ ExpireTransaction(x)
         \/ Restart
         \/ UNCHANGED vars
  PROVE  Table'
<1> USE DEF Table
<1>1. ASSUME NEW e \in Endpoints, NEW t \in Threads, DropConnection(e, t)
      PROVE  Table'
  <2>1. drops' \in 0 .. MaxDrops
    BY <1>1, ConstantAssumption DEF DropConnection, TypeOK
  <2> QED
    BY <1>1, <2>1 DEF DropConnection, TypeOK, RowsRemain, StoredTraceable
<1>2. ASSUME NEW x \in mempool, ConfirmTransaction(x) \/ ExpireTransaction(x)
      PROVE  Table'
  BY <1>2 DEF ConfirmTransaction, ExpireTransaction, TypeOK, RowsRemain, StoredTraceable
<1>3. CASE Restart
  <2>1. restarts' \in 0 .. MaxRestarts
    BY <1>3, ConstantAssumption DEF Restart, TypeOK
  <2>2. TypeOK'
    BY SMTT(30), <1>3, <2>1 DEF Restart, TypeOK, CallSteps, RunSteps
  <2>3. /\ \A c \in Calls : calls'[c].step = IF Busy(c) THEN "lost" ELSE calls[c].step
        /\ \A r \in Runs : runs'[r].batch = runs[r].batch
    BY <1>3 DEF Restart, TypeOK
  <2>4. RowsRemain'
    BY <1>3, <2>3 DEF Restart, RowsRemain
  <2>5. StoredTraceable'
    BY <1>3, <2>3, RowReceipt DEF Restart, StoredTraceable, Busy
  <2> QED
    BY <2>2, <2>4, <2>5
<1>4. CASE UNCHANGED vars
  BY <1>4 DEF vars, TypeOK, RowsRemain, StoredTraceable
<1> QED
  BY <1>1, <1>2, <1>3, <1>4

LEMMA TableInvariant == Spec => []Table
<1>1. Table /\ [Next]_vars => Table'
  BY UpsertTable, AnchorTable, EnvironmentTable DEF Next
<1> QED
  BY <1>1, InitTable, PTL DEF Spec

\* The variables of the model keep their types.
THEOREM TypeCorrect == Spec => []TypeOK
BY TableInvariant, PTL DEF Table

\* A row holds a receipt about its request that a finished call stored, and
\* every call that was told its write succeeded still has a row, through
\* overlapping writers, broken connections and restarts.
THEOREM TraceableAlways == Spec => []StoredTraceable
BY TableInvariant, PTL DEF Table

-----------------------------------------------------------------------------
(* The chain from a marked row to its run and its transaction.              *)

Chain == LedgerTraceable /\ MarkedByRun /\ ReportedAnchored

LEMMA InitChain == Init => Chain
BY DEF Init, Chain, LedgerTraceable, MarkedByRun, ReportedAnchored

\* No handler step touches the anchoring columns of an existing row, and a
\* new row has none.
AnchorsKept ==
    \A q \in Requests :
      /\ rows[q] # NoRow =>
           /\ rows'[q] # NoRow
           /\ rows'[q].status = rows[q].status
           /\ rows'[q].root = rows[q].root
           /\ rows'[q].tx = rows[q].tx
      /\ rows[q] = NoRow /\ rows'[q] # NoRow =>
           /\ rows'[q].status = "unanchored"
           /\ rows'[q].root = NoRoot
           /\ rows'[q].tx = None

LEMMA UpsertKeepsAnchors ==
  ASSUME Table, NEW c \in Calls, Upsert(c)
  PROVE  AnchorsKept /\ UNCHANGED <<runs, mempool, ledger>>
<1> USE CallAssumption
<1>1. ASSUME calls[c].step = "update", rows' = [rows EXCEPT ![RequestOf[c]].receipt = c]
      PROVE  AnchorsKept
  <2> DEFINE q0 == RequestOf[c]
  <2>1. rows[q0] # NoRow /\ rows[q0] \in Row
    BY <1>1, RowReceipt DEF RowsRemain, Table
  <2>2. /\ rows'[q0] \in Row
        /\ rows'[q0].status = rows[q0].status
        /\ rows'[q0].root = rows[q0].root
        /\ rows'[q0].tx = rows[q0].tx
    BY <1>1, <2>1 DEF Table, TypeOK, Row
  <2>3. \A q \in Requests : q # q0 => rows'[q] = rows[q]
    BY <1>1 DEF Table, TypeOK
  <2> QED
    BY <2>1, <2>2, <2>3, RowAssumption DEF AnchorsKept
<1>2. ASSUME rows[RequestOf[c]] = NoRow, rows' = [rows EXCEPT ![RequestOf[c]] = NewRow(c)]
      PROVE  AnchorsKept
  <2> DEFINE q0 == RequestOf[c]
  <2>1. rows[q0] = NoRow /\ rows'[q0] = NewRow(c)
    BY <1>2 DEF Table, TypeOK
  <2>2. \A q \in Requests : q # q0 => rows'[q] = rows[q]
    BY <1>2 DEF Table, TypeOK
  <2>3. NewRow(c).status = "unanchored" /\ NewRow(c).root = NoRoot /\ NewRow(c).tx = None
    BY DEF NewRow
  <2> HIDE DEF q0
  <2>4. ASSUME NEW q \in Requests, rows[q] # NoRow
        PROVE  rows'[q] = rows[q]
    BY <2>1, <2>2, <2>4
  <2>5. ASSUME NEW q \in Requests, rows[q] = NoRow, rows'[q] # NoRow
        PROVE  rows'[q] = NewRow(c)
    BY <2>1, <2>2, <2>5
  <2> QED
    BY <2>3, <2>4, <2>5 DEF AnchorsKept
<1>3. UNCHANGED rows => AnchorsKept
  BY DEF AnchorsKept
<1>4. CASE UpsertUpdate(c)
  BY <1>1, <1>4 DEF UpsertUpdate
<1>5. CASE UpsertInsert(c)
  BY <1>2, <1>5 DEF UpsertInsert
<1>6. CASE UpsertUnacknowledged(c)
  BY <1>1, <1>2, <1>6 DEF UpsertUnacknowledged
<1> QED
  BY <1>3, <1>4, <1>5, <1>6 DEF Upsert, UpsertRead, UpsertConflict, UpsertDropped

LEMMA KeptChain ==
  ASSUME Table, Chain, AnchorsKept, UNCHANGED <<runs, mempool, ledger>>
  PROVE  Chain'
<1>1. LedgerTraceable'
  BY DEF Chain, LedgerTraceable, Transaction
<1>2. MarkedByRun'
  BY DEF Chain, MarkedByRun, AnchorsKept, BatchRequests, Transaction
<1>3. ReportedAnchored'
  <2>1. ASSUME NEW r \in Runs, runs[r].step = "anchored", NEW q \in BatchRequests(r)
        PROVE  Anchored(q)'
    <3>1. q \in Requests
      BY <2>1, CallAssumption DEF Table, TypeOK, BatchRequests, Roots
    <3> QED
      BY <2>1, <3>1 DEF Chain, ReportedAnchored, AnchorsKept, Anchored
  <2> QED
    BY <2>1 DEF ReportedAnchored, BatchRequests
<1> QED
  BY <1>1, <1>2, <1>3 DEF Chain

\* A run that moves without touching the table keeps the chain when its new
\* step is justified by the ledger.
LEMMA MovedRunChain ==
  ASSUME Table, Chain, NEW r \in Runs, NEW s \in RunSteps \ {"anchored"},
         Goto(r, s), UNCHANGED rows,
         runs[r].step \notin {"anchored", "error"},
         s = "confirmed" => Transaction(r) \in ledger',
         \A x \in mempool' \cup ledger' :
            /\ x \in mempool \cup ledger \/ x = Transaction(r)
            /\ x.tx = r => s \in Sent,
         ledger \subseteq ledger'
  PROVE  Chain'
<1>1. \A x \in Runs : /\ runs'[x].batch = runs[x].batch
                      /\ runs'[x].step = IF x = r THEN s ELSE runs[x].step
  BY DEF Goto, Table, TypeOK
<1>2. Transaction(r).tx = r /\ Transaction(r).root = runs[r].batch
  BY DEF Transaction
<1>3. \A x \in Runs : Transaction(x)' = Transaction(x)
  BY <1>1 DEF Transaction
<1>4. mempool \cup ledger \subseteq Transactions /\ \A x \in Transactions : x.tx \in Runs
  BY DEF Table, TypeOK, Transactions
<1>5. LedgerTraceable'
  <2>1. ASSUME NEW x \in mempool' \cup ledger'
        PROVE  runs'[x.tx].step \in Sent /\ x.root = runs'[x.tx].batch
    <3>1. CASE x.tx = r
      BY <3>1, <1>1, <1>2 DEF Chain, LedgerTraceable
    <3>2. CASE x.tx # r
      BY <3>2, <1>1, <1>2, <1>4 DEF Chain, LedgerTraceable
    <3> QED
      BY <3>1, <3>2
  <2>2. ASSUME NEW x \in Runs, runs'[x].step \in {"confirmed", "anchored"}
        PROVE  Transaction(x)' \in ledger'
    BY <2>2, <1>1, <1>3 DEF Chain, LedgerTraceable
  <2> QED
    BY <2>1, <2>2 DEF LedgerTraceable
<1>6. MarkedByRun'
  BY <1>1, <1>3 DEF Chain, MarkedByRun, BatchRequests
<1>7. ReportedAnchored'
  BY <1>1 DEF Chain, ReportedAnchored, BatchRequests, Anchored
<1> QED
  BY <1>5, <1>6, <1>7 DEF Chain

\* A run that has not sent a transaction is named by none.
LEMMA UnsentRun ==
  ASSUME Chain, NEW r \in Runs, runs[r].step \notin Sent
  PROVE  /\ \A x \in mempool \cup ledger : x.tx # r
         /\ \A q \in Requests : Anchored(q) => rows[q].tx # r
BY DEF Chain, LedgerTraceable, MarkedByRun, Anchored, Sent

LEMMA AnchorChain ==
  ASSUME Table, Chain, NEW r \in Runs, PostAnchor(r) \/ Anchor(r)
  PROVE  Chain'
<1>1. CASE PostAnchor(r)
  BY <1>1, UnsentRun, MovedRunChain DEF PostAnchor, RunSteps, Sent
<1>2. CASE SelectBatch(r)
  <2>1. /\ runs[r].step = "listing" /\ runs'[r].step = "submitting"
        /\ \A x \in Runs \ {r} : runs'[x].step = runs[x].step /\ runs'[x].batch = runs[x].batch
    BY <1>2, Selected
  <2>2. /\ \A x \in mempool \cup ledger : x.tx # r
        /\ \A q \in Requests : Anchored(q) => rows[q].tx # r
    BY <2>1, UnsentRun DEF Sent
  <2>3. \A x \in mempool \cup ledger : x.tx \in Runs
    BY DEF Table, TypeOK, Transactions
  <2>4. UNCHANGED <<rows, mempool, ledger>>
    BY <1>2 DEF SelectBatch
  <2>5. LedgerTraceable'
    BY <2>1, <2>2, <2>3, <2>4 DEF Chain, LedgerTraceable, Transaction
  <2>6. MarkedByRun'
    BY <2>1, <2>2, <2>4 DEF Chain, MarkedByRun, Anchored, BatchRequests, Transaction
  <2>7. ReportedAnchored'
    BY <2>1, <2>4 DEF Chain, ReportedAnchored, Anchored, BatchRequests
  <2> QED
    BY <2>5, <2>6, <2>7 DEF Chain
<1>3. CASE SendTransaction(r)
  BY <1>3, UnsentRun, MovedRunChain DEF SendTransaction, RunSteps, Sent
<1>4. CASE SeeConfirmation(r)
  BY <1>4, MovedRunChain DEF SeeConfirmation, RunSteps, Sent
<1>5. CASE SubmitFails(r)
  BY <1>5, MovedRunChain DEF SubmitFails, RunSteps, Sent
<1>6. CASE StoreFails(r)
  BY <1>6, MovedRunChain DEF StoreFails, RunSteps, Sent
<1>7. CASE Marks(r)
  <2>1. MarkEffect(r) /\ UNCHANGED <<mempool, ledger>> /\ runs[r].step = "confirmed"
    BY <1>7, MarkedRows, MarkedRun DEF Table
  <2>2. /\ \A x \in Runs : /\ runs'[x].batch = runs[x].batch
                           /\ x # r => runs'[x].step = runs[x].step
        /\ runs'[r].step \in {"anchored", "error"}
    BY <1>7, MarkedRun DEF Table
  <2>3. \A x \in mempool \cup ledger : x.tx \in Runs
    BY DEF Table, TypeOK, Transactions
  <2>4. LedgerTraceable'
    BY <2>1, <2>2, <2>3 DEF Chain, LedgerTraceable, Transaction, Sent
  <2>5. \A x \in Runs : BatchRequests(x)' = BatchRequests(x)
    BY <2>2 DEF BatchRequests
  <2>6. ASSUME NEW q \in Requests, rows'[q] # NoRow
        PROVE  IF rows'[q].status = "anchored"
               THEN /\ rows'[q].tx \in Runs
                    /\ runs'[rows'[q].tx].step \in {"anchored", "error"}
                    /\ Transaction(rows'[q].tx) \in ledger
                    /\ rows'[q].root = runs'[rows'[q].tx].batch
                    /\ q \in BatchRequests(rows'[q].tx)
               ELSE rows'[q].root = NoRoot /\ rows'[q].tx = None
    <3>1. CASE Anchored(q) \/ q \notin BatchRequests(r)
      <4>1. rows'[q] = rows[q]
        BY <3>1, <2>1 DEF MarkEffect
      <4> QED
        BY <4>1, <2>2, <2>6 DEF Chain, MarkedByRun
    <3>2. CASE ~Anchored(q) /\ q \in BatchRequests(r)
      BY <3>2, <2>1, <2>2 DEF MarkEffect, Chain, LedgerTraceable
    <3> QED
      BY <3>1, <3>2
  <2>7. MarkedByRun'
    <3>1. ASSUME NEW q \in Requests, rows'[q] # NoRow, rows'[q].status = "anchored"
          PROVE  q \in {RequestOf[c] : c \in runs'[rows'[q].tx].batch}
      <4>1. rows'[q].tx \in Runs /\ q \in BatchRequests(rows'[q].tx)
        BY <3>1, <2>6
      <4> QED
        BY <4>1, <2>2 DEF BatchRequests
    <3>2. UNCHANGED ledger /\ \A x \in Runs : Transaction(x)' = Transaction(x)
      BY <2>1, <2>2 DEF Transaction
    <3> QED
      BY <2>6, <3>1, <3>2 DEF MarkedByRun, BatchRequests
  <2>8. ASSUME NEW x \in Runs, runs'[x].step = "anchored", NEW q \in BatchRequests(x)
        PROVE  Anchored(q)'
    <3>1. q \in Requests
      BY CallAssumption DEF Table, TypeOK, BatchRequests, Roots
    <3>2. CASE x = r
      <4>1. rows[q] # NoRow
        BY <3>2 DEF Table, RowsRemain, BatchRequests
      <4> QED
        BY <2>1, <3>1, <3>2, <4>1 DEF MarkEffect, Anchored
    <3>3. CASE x # r
      <4>1. Anchored(q)
        BY <2>2, <2>8, <3>3 DEF Chain, ReportedAnchored
      <4> QED
        BY <2>1, <3>1, <4>1 DEF MarkEffect, Anchored
    <3> QED
      BY <3>2, <3>3
  <2>9. ReportedAnchored'
    BY <2>5, <2>8 DEF ReportedAnchored
  <2> QED
    BY <2>4, <2>7, <2>9 DEF Chain
<1>8. CASE SelectNone(r)
  BY <1>8, UnsentRun, MovedRunChain DEF SelectNone, RunSteps, Sent
<1> QED
  BY <1>1, <1>2, <1>3, <1>4, <1>5, <1>6, <1>7, <1>8 DEF Anchor, Marks

LEMMA EnvironmentChain ==
  ASSUME Table, Chain,
         \/ \E e \in Endpoints, t \in Threads : DropConnection(e, t)
         \/ \E x \in mempool : ConfirmTransaction(x) \/ ExpireTransaction(x)
         \/ Restart
         \/ UNCHANGED vars
  PROVE  Chain'
<1>1. CASE UNCHANGED <<rows, runs>> /\ mempool' \cup ledger' \subseteq mempool \cup ledger /\ ledger \subseteq ledger'
  BY <1>1 DEF Chain, LedgerTraceable, MarkedByRun, ReportedAnchored, Transaction, BatchRequests, Anchored
<1>2. ASSUME NEW e \in Endpoints, NEW t \in Threads, DropConnection(e, t)
      PROVE  Chain'
  BY <1>1, <1>2 DEF DropConnection
<1>3. ASSUME NEW x \in mempool, ConfirmTransaction(x) \/ ExpireTransaction(x)
      PROVE  Chain'
  BY <1>1, <1>3 DEF ConfirmTransaction, ExpireTransaction
<1>4. CASE Restart
  <2>1. \A x \in Runs :
          /\ runs'[x].batch = runs[x].batch
          /\ runs'[x].step = IF Active(x) \/ runs[x].step = "listing" THEN "lost" ELSE runs[x].step
    BY <1>4 DEF Restart, Table, TypeOK
  <2>2. UNCHANGED <<rows, mempool, ledger>>
    BY <1>4 DEF Restart
  <2>3. \A x \in mempool \cup ledger : x.tx \in Runs
    BY DEF Table, TypeOK, Transactions
  <2>4. LedgerTraceable'
    BY <2>1, <2>2, <2>3 DEF Chain, LedgerTraceable, Transaction, Sent, Active
  <2>5. MarkedByRun'
    BY <2>1, <2>2 DEF Chain, MarkedByRun, BatchRequests, Active, Transaction
  <2>6. ReportedAnchored'
    BY <2>1, <2>2 DEF Chain, ReportedAnchored, BatchRequests, Anchored, Active
  <2> QED
    BY <2>4, <2>5, <2>6 DEF Chain
<1>5. CASE UNCHANGED vars
  BY <1>1, <1>5 DEF vars
<1> QED
  BY <1>2, <1>3, <1>4, <1>5

LEMMA ChainInvariant == Spec => []Chain
<1>1. Table /\ Chain /\ [Next]_vars => Chain'
  BY UpsertKeepsAnchors, KeptChain, AnchorChain, EnvironmentChain DEF Next
<1> QED
  BY <1>1, InitChain, TableInvariant, PTL DEF Spec

\* Whatever overlaps, fails or restarts, a run that reported its batch as
\* anchored has left every record of it anchored.
THEOREM ReportedAnchoredAlways == Spec => []ReportedAnchored
BY ChainInvariant, PTL DEF Chain

\* No record is ever marked before its transaction is confirmed, nor with a
\* root the transaction does not carry or that has no receipt of its own.
THEOREM AnchoredOnLedgerAlways == Spec => []AnchoredOnLedger
<1>1. Table /\ Chain => AnchoredOnLedger
  <2> SUFFICES ASSUME Table, Chain, NEW q \in Requests, rows[q] # NoRow
               PROVE  IF rows[q].status = "anchored"
                      THEN /\ [tx |-> rows[q].tx, root |-> rows[q].root] \in ledger
                           /\ \E c \in rows[q].root : RequestOf[c] = q
                      ELSE rows[q].root = NoRoot /\ rows[q].tx = None
    BY DEF AnchoredOnLedger
  <2>1. CASE rows[q].status = "anchored"
    <3>1. /\ rows[q].tx \in Runs
          /\ Transaction(rows[q].tx) \in ledger
          /\ rows[q].root = runs[rows[q].tx].batch
          /\ q \in BatchRequests(rows[q].tx)
      BY <2>1 DEF Chain, MarkedByRun
    <3> QED
      BY <2>1, <3>1 DEF Transaction, BatchRequests
  <2>2. CASE rows[q].status # "anchored"
    BY <2>2 DEF Chain, MarkedByRun
  <2> QED
    BY <2>1, <2>2
<1> QED
  BY <1>1, TableInvariant, ChainInvariant, PTL

-----------------------------------------------------------------------------
(* A run that nothing overlaps: its selection and its marks are as good as  *)
(* one step, so that its batch is whole.                                    *)

Alone == LoneRun /\ BatchSplitExplained

LEMMA InitAlone == Init => Alone
BY DEF Init, Alone, LoneRun, BatchSplitExplained, HasMarked, Active, Anchored

\* Steps that keep the anchors and leave the runs as they are.
LEMMA KeptAlone ==
  ASSUME Table, Alone, AnchorsKept, UNCHANGED runs
  PROVE  Alone'
<1>1. \A r \in Runs : BatchRequests(r) \subseteq Requests /\ BatchRequests(r)' = BatchRequests(r)
  BY CallAssumption DEF Table, TypeOK, BatchRequests, Roots
<1>2. \A r \in Runs : \A q \in BatchRequests(r) : rows[q] # NoRow
  BY DEF Table, RowsRemain, BatchRequests
<1>3. \A q \in Requests : /\ Anchored(q)' <=> Anchored(q)
                          /\ Anchored(q) => rows'[q].tx = rows[q].tx
  BY DEF AnchorsKept, Anchored
<1>4. LoneRun'
  BY <1>1, <1>2, <1>3 DEF Alone, LoneRun, Active
<1>5. ASSUME NEW r \in Runs, HasMarked(r)', ~runs'[r].overlapped
      PROVE  Whole(r)'
  <2>1. HasMarked(r) /\ ~runs[r].overlapped
    BY <1>3, <1>5 DEF HasMarked
  <2>2. Whole(r)
    BY <2>1 DEF Alone, BatchSplitExplained
  <2> QED
    BY <1>1, <1>2, <2>2 DEF Whole, AnchorsKept
<1> QED
  BY <1>4, <1>5 DEF Alone, BatchSplitExplained

\* A run that moves on without marking, and does not become active by it.
LEMMA MovedAlone ==
  ASSUME Table, Alone, NEW r \in Runs, NEW s \in RunSteps \ {"anchored"},
         Goto(r, s), UNCHANGED rows,
         s \in {"submitting", "pending", "confirmed"} => Active(r)
  PROVE  Alone'
<1>1. \A x \in Runs : /\ runs'[x].batch = runs[x].batch
                      /\ runs'[x].overlapped = runs[x].overlapped
                      /\ runs'[x].step = IF x = r THEN s ELSE runs[x].step
  BY DEF Goto, Table, TypeOK
<1>2. \A x \in Runs : /\ BatchRequests(x)' = BatchRequests(x)
                      /\ Active(x)' => Active(x)
                      /\ HasMarked(x)' => HasMarked(x)
                      /\ Whole(x)' <=> Whole(x)
  BY <1>1 DEF BatchRequests, Active, HasMarked, Anchored, Whole
<1>3. LoneRun'
  BY <1>1, <1>2 DEF Alone, LoneRun, Anchored
<1>4. BatchSplitExplained'
  BY <1>1, <1>2 DEF Alone, BatchSplitExplained
<1> QED
  BY <1>3, <1>4 DEF Alone

LEMMA AnchorAlone ==
  ASSUME Table, Chain, Alone, NEW r \in Runs, PostAnchor(r) \/ Anchor(r)
  PROVE  Alone'
<1>1. CASE PostAnchor(r)
  BY <1>1, MovedAlone DEF PostAnchor, RunSteps
<1>2. CASE SelectNone(r)
  BY <1>2, MovedAlone DEF SelectNone, RunSteps
<1>3. CASE SelectBatch(r)
  <2>1. UNCHANGED rows
    BY <1>3 DEF SelectBatch
  <2>2. /\ runs[r].step = "listing" /\ runs'[r].step = "submitting"
        /\ ~runs'[r].overlapped => \A x \in Runs : ~Active(x)
        /\ \A x \in Runs \ {r} : /\ runs'[x].step = runs[x].step
                                 /\ runs'[x].batch = runs[x].batch
                                 /\ Active(x) => runs'[x].overlapped
                                 /\ ~Active(x) => runs'[x].overlapped = runs[x].overlapped
        /\ \A d \in runs'[r].batch : ~Anchored(RequestOf[d])
    BY <1>3, Selected
  <2>3. \A q \in Requests : Anchored(q) => rows[q].tx # r
    BY <2>2, UnsentRun DEF Sent
  <2>4. LoneRun'
    <3>1. ASSUME NEW x \in Runs, Active(x)', ~runs'[x].overlapped
          PROVE  x = r
      BY <2>2, <3>1 DEF Active
    <3>2. ASSUME ~runs'[r].overlapped, NEW x \in Runs, Active(x)'
          PROVE  x = r
      BY <2>2, <3>2 DEF Active
    <3>3. \A q \in BatchRequests(r)' : ~Anchored(q)'
      BY <2>1, <2>2 DEF BatchRequests, Anchored
    <3> QED
      BY <3>1, <3>2, <3>3 DEF LoneRun
  <2>5. ASSUME NEW x \in Runs, HasMarked(x)', ~runs'[x].overlapped
        PROVE  Whole(x)'
    <3>1. x # r
      BY <2>1, <2>2, <2>3, <2>5 DEF HasMarked, Anchored
    <3>2. HasMarked(x) /\ ~runs[x].overlapped
      BY <2>1, <2>2, <2>5, <3>1 DEF HasMarked, Anchored
    <3>3. Whole(x)
      BY <3>2 DEF Alone, BatchSplitExplained
    <3> QED
      BY <2>1, <2>2, <3>1, <3>3 DEF Whole, BatchRequests
  <2> QED
    BY <2>4, <2>5 DEF Alone, BatchSplitExplained
<1>4. CASE SendTransaction(r)
  BY <1>4, MovedAlone DEF SendTransaction, RunSteps, Active
<1>5. CASE SeeConfirmation(r)
  BY <1>5, MovedAlone DEF SeeConfirmation, RunSteps, Active
<1>6. CASE SubmitFails(r)
  BY <1>6, MovedAlone DEF SubmitFails, RunSteps
<1>7. CASE StoreFails(r)
  BY <1>7, MovedAlone DEF StoreFails, RunSteps
<1>8. CASE Marks(r)
  <2>1. MarkEffect(r) /\ Active(r)
    BY <1>8, MarkedRows, MarkedRun DEF Table, Active
  <2>2. /\ \A x \in Runs : /\ runs'[x].batch = runs[x].batch
                           /\ runs'[x].overlapped = runs[x].overlapped
                           /\ x # r => runs'[x].step = runs[x].step
        /\ runs'[r].step \in {"anchored", "error"}
    BY <1>8, MarkedRun DEF Table
  <2>3. \A x \in Runs : BatchRequests(x)' = BatchRequests(x) /\ BatchRequests(x) \subseteq Requests
    BY <2>2, CallAssumption DEF BatchRequests, Table, TypeOK, Roots
  <2>4. LoneRun'
    <3>1. ASSUME NEW x \in Runs, Active(x)', ~runs'[x].overlapped
          PROVE  FALSE
      <4>1. x # r /\ Active(x) /\ ~runs[x].overlapped
        BY <2>2, <3>1 DEF Active
      <4> QED
        BY <2>1, <4>1 DEF Alone, LoneRun
    <3> QED
      BY <3>1 DEF LoneRun
  <2>5. ASSUME NEW x \in Runs, HasMarked(x)', ~runs'[x].overlapped
        PROVE  Whole(x)'
    <3>1. CASE x = r
      <4>1. \A q \in BatchRequests(r) : ~Anchored(q)
        BY <2>1, <2>2, <2>5, <3>1 DEF Alone, LoneRun
      <4> QED
        BY <2>1, <2>2, <2>3, <3>1, <4>1 DEF MarkEffect, Whole
    <3>2. CASE x # r
      <4>1. ASSUME NEW q \in Requests, Anchored(q)', rows'[q].tx = x
            PROVE  Anchored(q) /\ rows[q].tx = x
        <5>1. Anchored(q) \/ q \notin BatchRequests(r)
          BY <2>1, <3>2, <4>1 DEF MarkEffect
        <5>2. rows'[q] = rows[q]
          BY <2>1, <5>1 DEF MarkEffect
        <5> QED
          BY <4>1, <5>2 DEF Anchored
      <4>2. HasMarked(x) /\ ~runs[x].overlapped
        BY <2>2, <2>5, <3>2, <4>1 DEF HasMarked
      <4>3. Whole(x)
        BY <4>2 DEF Alone, BatchSplitExplained
      <4>4. ASSUME NEW q \in BatchRequests(x)
            PROVE  q \in Requests /\ rows'[q] = rows[q]
        <5>1. q \in Requests /\ rows[q] # NoRow /\ rows[q].tx = x
          BY <2>3, <4>3 DEF Whole, Table, RowsRemain, BatchRequests
        <5>2. Anchored(q)
          BY <2>1, <5>1, ConstantAssumption DEF Chain, MarkedByRun, Anchored, Table, TypeOK
        <5> QED
          BY <2>1, <5>1, <5>2 DEF MarkEffect
      <4> QED
        BY <2>2, <2>3, <4>3, <4>4 DEF Whole
    <3> QED
      BY <3>1, <3>2
  <2> QED
    BY <2>4, <2>5 DEF Alone, BatchSplitExplained
<1> QED
  BY <1>1, <1>2, <1>3, <1>4, <1>5, <1>6, <1>7, <1>8 DEF Anchor, Marks

LEMMA EnvironmentAlone ==
  ASSUME Table, Alone,
         \/ \E e \in Endpoints, t \in Threads : DropConnection(e, t)
         \/ \E x \in mempool : ConfirmTransaction(x) \/ ExpireTransaction(x)
         \/ Restart
         \/ UNCHANGED vars
  PROVE  Alone'
<1>1. CASE UNCHANGED <<rows, runs>>
  <2>1. AnchorsKept
    BY <1>1 DEF AnchorsKept
  <2> QED
    BY <1>1, <2>1, KeptAlone
<1>2. CASE Restart
  <2>1. \A x \in Runs :
          /\ runs'[x].batch = runs[x].batch
          /\ runs'[x].overlapped = runs[x].overlapped
          /\ runs'[x].step = IF Active(x) \/ runs[x].step = "listing" THEN "lost" ELSE runs[x].step
    BY <1>2 DEF Restart, Table, TypeOK
  <2>2. UNCHANGED rows
    BY <1>2 DEF Restart
  <2>3. \A x \in Runs : /\ ~Active(x)' /\ BatchRequests(x)' = BatchRequests(x)
                        /\ HasMarked(x)' => HasMarked(x)
                        /\ Whole(x)' <=> Whole(x)
    BY <2>1, <2>2 DEF Active, BatchRequests, HasMarked, Anchored, Whole
  <2> QED
    BY <2>1, <2>3 DEF Alone, LoneRun, BatchSplitExplained
<1> QED
  BY <1>1, <1>2 DEF DropConnection, ConfirmTransaction, ExpireTransaction, vars

LEMMA AloneInvariant == Spec => []Alone
<1>1. Table /\ Chain /\ Alone /\ [Next]_vars => Alone'
  BY UpsertKeepsAnchors, KeptAlone, AnchorAlone, EnvironmentAlone DEF Next
<1> QED
  BY <1>1, InitAlone, TableInvariant, ChainInvariant, PTL DEF Spec

\* Only overlapping runs split a batch: the records a lone run selected carry,
\* once it has marked one of them, its root and its transaction, for ever,
\* whatever fails, restarts or is answered anew.
THEOREM BatchSplitExplainedAlways == Spec => []BatchSplitExplained
BY AloneInvariant, PTL DEF Alone

\* A record whose proof the endpoint cannot give belongs to a run that
\* overlapped another, has a leaf of its batch replaced by a later receipt, or
\* a row of its batch beyond the listing.
THEOREM ProofLossExplainedAlways == Spec => []ProofLossExplained
<1>1. Table /\ Chain /\ Alone => ProofLossExplained
  <2> SUFFICES ASSUME Table, Chain, Alone,
                      NEW q \in Requests, NEW listed \in SUBSET Requests, Anchored(q),
                      ~runs[rows[q].tx].overlapped,
                      ~LeafReplaced(q), ~LeafUnlisted(q, listed)
               PROVE  RebuiltRoot(q, listed) = rows[q].root
    BY DEF ProofLossExplained, ProofValid
  <2> DEFINE r == rows[q].tx
  <2>1. r \in Runs /\ rows[q].root = runs[r].batch
    BY DEF Chain, MarkedByRun, Anchored
  <2>2. Whole(r)
    BY <2>1 DEF Alone, BatchSplitExplained, HasMarked
  <2>3. ASSUME NEW c \in runs[r].batch
        PROVE  c \in RebuiltRoot(q, listed)
    <3> DEFINE p == RequestOf[c]
    <3>1. p \in BatchRequests(r) /\ p \in listed /\ p \in Requests
      BY <2>1 DEF BatchRequests, LeafUnlisted
    <3>2. rows[p].receipt = c
      BY <2>1 DEF LeafReplaced
    <3>3. rows[p].root = rows[q].root /\ rows[p].tx = r /\ rows[p] # NoRow
      BY <2>1, <2>2, <3>1 DEF Whole, Table, RowsRemain
    <3>4. Anchored(p)
      BY <2>1, <3>1, <3>3, ConstantAssumption DEF Chain, MarkedByRun, Anchored
    <3> QED
      BY <3>1, <3>2, <3>3, <3>4 DEF RebuiltRoot
  <2>4. ASSUME NEW p \in listed, Anchored(p), rows[p].root = rows[q].root
        PROVE  rows[p].receipt \in runs[r].batch
    <3>1. rows[p].tx \in Runs /\ rows[p].root = runs[rows[p].tx].batch /\ p \in BatchRequests(rows[p].tx)
      BY <2>4 DEF Chain, MarkedByRun, Anchored
    <3>2. PICK c \in rows[p].root : RequestOf[c] = p
      BY <3>1 DEF BatchRequests
    <3>3. rows[p].receipt = c
      BY <2>4, <3>2 DEF LeafReplaced
    <3> QED
      BY <2>1, <2>4, <3>2, <3>3
  <2> QED
    BY <2>1, <2>3, <2>4 DEF RebuiltRoot
<1> QED
  BY <1>1, TableInvariant, ChainInvariant, AloneInvariant, PTL

-----------------------------------------------------------------------------
(* The cached connections: what spoils one, and which calls fail on it.     *)

Writers == ThreadsExclusive /\ BreaksExplained

LEMMA InitWriters == Init => Writers
BY DEF Init, Writers, ThreadsExclusive, BreaksExplained, Busy

\* The reasons as the next state has them.
SpoiltNext(e, t) ==
    \/ drops' > 0
    \/ \E d \in Calls : /\ calls'[d].step = "conflict"
                        /\ EndpointOf[d] = e
                        /\ calls'[d].thread = t

\* A reason for a spoilt connection stays one.
LEMMA SpoiltStays ==
  ASSUME drops \in Nat, drops' \in Nat, drops' >= drops,
         \A d \in Calls : calls[d].step = "conflict" =>
            calls'[d].step = "conflict" /\ calls'[d].thread = calls[d].thread
  PROVE  \A e, t : Spoilt(e, t) => SpoiltNext(e, t)
BY DEF Spoilt, SpoiltNext

LEMMA BreaksNext ==
  ASSUME \A e \in Endpoints, t \in Threads : conns'[<<e, t>>] = "broken" => SpoiltNext(e, t),
         \A c \in Calls : calls'[c].step = "unsaved" => SpoiltNext(EndpointOf[c], calls'[c].thread)
  PROVE  BreaksExplained'
BY DEF BreaksExplained, Spoilt, SpoiltNext

LEMMA DropsNat ==
  ASSUME Table
  PROVE  drops \in Nat
BY ConstantAssumption DEF Table, TypeOK

\* No call starts to write or fails, and no connection breaks.
LEMMA KeptWriters ==
  ASSUME Table, Writers,
         \A c \in Calls : Busy(c)' => Busy(c) /\ calls'[c] = calls[c],
         \A c \in Calls : calls'[c].step = "unsaved" => calls'[c] = calls[c],
         \A c \in Calls : calls[c].step = "conflict" => calls'[c] = calls[c],
         drops' \in Nat, drops' >= drops,
         drops' = 0 => \A et \in Endpoints \X Threads : conns'[et] = "broken" => conns[et] = "broken"
  PROVE  Writers'
<1>1. ThreadsExclusive'
  BY DEF Writers, ThreadsExclusive
<1>2. \A e, t : Spoilt(e, t) => SpoiltNext(e, t)
  BY DropsNat, SpoiltStays
<1>3. ASSUME NEW e \in Endpoints, NEW t \in Threads, conns'[<<e, t>>] = "broken"
      PROVE  SpoiltNext(e, t)
  BY <1>2, <1>3 DEF Writers, BreaksExplained, SpoiltNext
<1>4. ASSUME NEW c \in Calls, calls'[c].step = "unsaved"
      PROVE  SpoiltNext(EndpointOf[c], calls'[c].thread)
  BY <1>2, <1>4 DEF Writers, BreaksExplained
<1> QED
  BY <1>1, <1>3, <1>4, BreaksNext DEF Writers

LEMMA UpsertWriters ==
  ASSUME Table, Writers, NEW c \in Calls, Upsert(c)
  PROVE  Writers'
<1> USE CallAssumption
<1>1. ASSUME NEW t \in Threads, UpsertRead(c, t)
      PROVE  Writers'
  <2>1. /\ \A d \in Calls : d # c => calls'[d] = calls[d]
        /\ calls[c].step = "idle" /\ calls'[c].thread = t
        /\ calls'[c].step = IF conns[<<EndpointOf[c], t>>] = "broken" THEN "unsaved"
                            ELSE IF rows[RequestOf[c]] = NoRow THEN "insert" ELSE "update"
        /\ UNCHANGED <<rows, conns, drops>>
    BY <1>1 DEF UpsertRead, Table, TypeOK
  <2>2. \A d \in Calls : Busy(d) => calls[d].thread # t
    BY <1>1 DEF UpsertRead, Idle
  <2>3. ThreadsExclusive'
    BY <2>1, <2>2 DEF Writers, ThreadsExclusive, Busy
  <2>4. \A e, x : Spoilt(e, x) => SpoiltNext(e, x)
    BY <2>1, DropsNat, SpoiltStays
  <2>5. \A e \in Endpoints, x \in Threads : conns[<<e, x>>] = "broken" => SpoiltNext(e, x)
    BY <2>4 DEF Writers, BreaksExplained
  <2>6. ASSUME NEW d \in Calls, calls'[d].step = "unsaved"
        PROVE  SpoiltNext(EndpointOf[d], calls'[d].thread)
    <3>1. CASE d = c
      BY <2>1, <2>5, <2>6, <3>1
    <3>2. CASE d # c
      BY <2>1, <2>4, <2>6, <3>2 DEF Writers, BreaksExplained
    <3> QED
      BY <3>1, <3>2
  <2> QED
    BY <2>1, <2>3, <2>5, <2>6, BreaksNext DEF Writers
<1>2. ASSUME Busy(c), NEW s \in {"stored", "conflict", "unsaved"}, Finish(c, s),
             drops' \in Nat, drops' >= drops,
             \A e \in Endpoints, t \in Threads :
                conns'[<<e, t>>] = "broken" => conns[<<e, t>>] = "broken" \/ <<e, t>> = Connection(c),
             s = "stored" => UNCHANGED conns,
             s = "unsaved" => Spoilt(EndpointOf[c], calls[c].thread) \/ drops' > 0
      PROVE  Writers'
  <2>1. /\ calls'[c].step = s /\ calls'[c].thread = calls[c].thread
        /\ \A d \in Calls : d # c => calls'[d] = calls[d]
    BY <1>2 DEF Finish, Table, TypeOK
  <2>2. \A d \in Calls : Busy(d)' => Busy(d) /\ d # c /\ calls'[d] = calls[d]
    BY <2>1 DEF Busy
  <2>3. ThreadsExclusive'
    BY <2>2 DEF Writers, ThreadsExclusive
  <2>4. calls[c].step # "conflict" /\ drops \in Nat
    BY <1>2, DropsNat DEF Busy
  <2>5. \A e, t : Spoilt(e, t) => SpoiltNext(e, t)
    BY <1>2, <2>1, <2>4, SpoiltStays
  <2>6. s # "stored" => SpoiltNext(EndpointOf[c], calls[c].thread)
    BY <1>2, <2>1, <2>5 DEF SpoiltNext
  <2>7. ASSUME NEW e \in Endpoints, NEW t \in Threads, conns'[<<e, t>>] = "broken"
        PROVE  SpoiltNext(e, t)
    <3>1. CASE conns[<<e, t>>] = "broken"
      BY <2>5, <3>1 DEF Writers, BreaksExplained
    <3>2. CASE conns[<<e, t>>] # "broken"
      BY <1>2, <2>6, <2>7, <3>2 DEF Connection
    <3> QED
      BY <3>1, <3>2
  <2>8. ASSUME NEW d \in Calls, calls'[d].step = "unsaved"
        PROVE  SpoiltNext(EndpointOf[d], calls'[d].thread)
    <3>1. CASE d = c
      BY <2>1, <2>6, <2>8, <3>1
    <3>2. CASE d # c
      BY <2>1, <2>5, <2>8, <3>2 DEF Writers, BreaksExplained
    <3> QED
      BY <3>1, <3>2
  <2> QED
    BY <2>3, <2>7, <2>8, BreaksNext DEF Writers
<1>3. Busy(c) => Connection(c) = <<EndpointOf[c], calls[c].thread>> /\ calls[c].thread \in Threads
  BY DEF Writers, ThreadsExclusive, Connection
<1>4. ASSUME Busy(c), conns[Connection(c)] = "broken"
      PROVE  Spoilt(EndpointOf[c], calls[c].thread)
  BY <1>3, <1>4 DEF Writers, BreaksExplained
<1>5. CASE UpsertUpdate(c) \/ UpsertInsert(c)
  BY <1>2, <1>5, DropsNat DEF UpsertUpdate, UpsertInsert, Busy
\* Only one entry of conns may change.
<1>6. ASSUME conns' = [conns EXCEPT ![Connection(c)] = "broken"],
             NEW e \in Endpoints, NEW t \in Threads, conns'[<<e, t>>] = "broken"
      PROVE  conns[<<e, t>>] = "broken" \/ <<e, t>> = Connection(c)
  BY <1>6 DEF Table, TypeOK
<1>7. CASE UpsertConflict(c)
  BY <1>2, <1>6, <1>7, DropsNat DEF UpsertConflict, Busy
<1>8. CASE UpsertDropped(c)
  BY <1>2, <1>4, <1>8, DropsNat DEF UpsertDropped
<1>9. CASE UpsertUnacknowledged(c)
  <2>1. Busy(c) /\ Finish(c, "unsaved") /\ drops' = drops + 1 /\ drops \in Nat
        /\ conns' = [conns EXCEPT ![Connection(c)] = "broken"]
    BY <1>9, DropsNat DEF UpsertUnacknowledged
  <2> QED
    BY <1>2, <1>6, <2>1
<1> QED
  BY <1>1, <1>5, <1>7, <1>8, <1>9 DEF Upsert

LEMMA OtherWriters ==
  ASSUME Table, Writers,
         \/ \E r \in Runs : PostAnchor(r) \/ Anchor(r)
         \/ \E e \in Endpoints, t \in Threads : DropConnection(e, t)
         \/ \E x \in mempool : ConfirmTransaction(x) \/ ExpireTransaction(x)
         \/ Restart
         \/ UNCHANGED vars
  PROVE  Writers'
<1> USE DropsNat
<1>1. CASE UNCHANGED <<calls, conns, drops>>
  BY <1>1, KeptWriters DEF Busy
<1>2. ASSUME NEW r \in Runs, PostAnchor(r) \/ Anchor(r)
      PROVE  UNCHANGED <<calls, conns, drops>>
  BY <1>2 DEF PostAnchor, Anchor, SelectNone, SelectBatch, SendTransaction, SeeConfirmation,
              SubmitFails, MarkAnchored, MarkUnacknowledged, StoreFails
<1>3. ASSUME NEW e \in Endpoints, NEW t \in Threads, DropConnection(e, t)
      PROVE  Writers'
  <2>1. drops' = drops + 1 /\ UNCHANGED calls
    BY <1>3 DEF DropConnection
  <2> QED
    BY <2>1, KeptWriters DEF Busy
<1>4. CASE Restart
  <2>1. /\ \A c \in Calls : calls'[c] = IF Busy(c) THEN [calls[c] EXCEPT !.step = "lost"]
                                       ELSE calls[c]
        /\ \A et \in Endpoints \X Threads : conns'[et] = "ok"
        /\ UNCHANGED drops
    BY <1>4 DEF Restart
  <2>2. \A c \in Calls : Busy(c) => calls'[c].step = "lost"
    BY <2>1 DEF Table, TypeOK
  <2>3. \A c \in Calls : ~Busy(c) => calls'[c] = calls[c]
    BY <2>1
  <2>4. \A c \in Calls : ~Busy(c)'
    BY <2>2, <2>3 DEF Busy
  <2>5. \A c \in Calls : /\ calls'[c].step = "unsaved" => calls'[c] = calls[c]
                         /\ calls[c].step = "conflict" => calls'[c] = calls[c]
    BY <2>2, <2>3 DEF Busy
  <2> QED
    BY <2>1, <2>4, <2>5, KeptWriters
<1> QED
  BY <1>1, <1>2, <1>3, <1>4 DEF ConfirmTransaction, ExpireTransaction, vars

LEMMA WritersInvariant == Spec => []Writers
<1>1. Table /\ Writers /\ [Next]_vars => Writers'
  BY UpsertWriters, OtherWriters DEF Next
<1> QED
  BY <1>1, InitWriters, TableInvariant, PTL DEF Spec

\* The conjunction of everything above: the invariant the runs check.
THEOREM Invariance == Spec => []Inv
<1>1. Table /\ Chain /\ Alone /\ Writers => Inv
  BY DEF Table, Chain, Alone, Writers, Inv
<1> QED
  BY <1>1, TableInvariant, ChainInvariant, AloneInvariant, WritersInvariant, PTL

\* An outcome the client was answered is missing from the store only after a
\* connection was closed or its thread lost an insert of the same handler: no
\* restart, no other handler and no other thread costs it.
THEOREM OutcomeLossExplainedAlways == Spec => []OutcomeLossExplained
<1>1. Table /\ Writers => OutcomeLossExplained
  BY DEF Table, StoredTraceable, Writers, BreaksExplained, OutcomeLossExplained, Answered
<1> QED
  BY <1>1, TableInvariant, WritersInvariant, PTL

-----------------------------------------------------------------------------
(* What one step may do to the anchors, and the contract.                   *)

\* Every step either keeps the anchors of all rows or is the mark of a run
\* whose transaction the ledger has.
LEMMA StepAnchors ==
  ASSUME Table, Chain, [Next]_vars
  PROVE  \/ AnchorsKept
         \/ \E r \in Runs : /\ MarkEffect(r)
                            /\ Transaction(r) \in ledger
                            /\ UNCHANGED ledger
<1>1. ASSUME NEW c \in Calls, Upsert(c)
      PROVE  AnchorsKept
  BY <1>1, UpsertKeepsAnchors
<1>2. ASSUME UNCHANGED rows
      PROVE  AnchorsKept
  BY <1>2 DEF AnchorsKept
<1>3. ASSUME NEW r \in Runs, Marks(r)
      PROVE  MarkEffect(r) /\ Transaction(r) \in ledger /\ UNCHANGED ledger
  BY <1>3, MarkedRows, MarkedRun DEF Table, Chain, LedgerTraceable
<1>4. ASSUME NEW r \in Runs, PostAnchor(r) \/ Anchor(r), ~Marks(r)
      PROVE  UNCHANGED rows
  BY <1>4 DEF PostAnchor, Anchor, Marks, SelectNone, SelectBatch, SendTransaction, SeeConfirmation,
              SubmitFails, StoreFails
<1>5. ASSUME \/ \E e \in Endpoints, t \in Threads : DropConnection(e, t)
             \/ \E x \in mempool : ConfirmTransaction(x) \/ ExpireTransaction(x)
             \/ Restart
             \/ UNCHANGED vars
      PROVE  UNCHANGED rows
  BY <1>5 DEF DropConnection, ConfirmTransaction, ExpireTransaction, Restart, vars
<1> QED
  BY <1>1, <1>2, <1>3, <1>4, <1>5 DEF Next

\* The anchor of a record never changes once it is set.
THEOREM AnchorPermanentAlways == Spec => AnchorPermanent
<1>1. Table /\ Chain /\ [Next]_vars =>
        \A q \in Requests : Anchored(q) =>
          /\ Anchored(q)'
          /\ rows'[q].root = rows[q].root
          /\ rows'[q].tx = rows[q].tx
  BY StepAnchors DEF AnchorsKept, MarkEffect, Anchored
<1> QED
  BY <1>1, TableInvariant, ChainInvariant, PTL DEF Spec, AnchorPermanent

LEMMA ContractInit == Init => Contract!Init
BY DEF Init, Contract!Init, AnchorOf, Anchored

\* A step stores a record, publishes a transaction, attaches one, or changes
\* nothing that the contract is about.
LEMMA ContractStep ==
  ASSUME Table, Chain, [Next]_vars
  PROVE  [Contract!Next]_(Contract!contractVars)
<1> DEFINE stored == {q \in Requests : rows[q] # NoRow}
           anchors == [q \in Requests |-> AnchorOf(q)]
<1>1. ASSUME NEW c \in Calls, Upsert(c)
      PROVE  [Contract!Next]_(Contract!contractVars)
  <2>1. AnchorsKept /\ UNCHANGED ledger
    BY <1>1, UpsertKeepsAnchors
  <2>2. anchors' = anchors
    BY <2>1 DEF AnchorsKept, AnchorOf, Anchored
  <2>3. CASE UNCHANGED stored
    BY <2>1, <2>2, <2>3 DEF Contract!contractVars
  <2>4. CASE stored' # stored
    <3>1. UpsertInsert(c) \/ UpsertUpdate(c) \/ UpsertUnacknowledged(c)
      BY <1>1, <2>4 DEF Upsert, UpsertRead, UpsertConflict, UpsertDropped
    <3>2. \A q \in Requests : q # RequestOf[c] => rows'[q] = rows[q]
      BY <3>1, CallAssumption DEF UpsertInsert, UpsertUpdate, UpsertUnacknowledged, Table, TypeOK
    <3>3. stored \subseteq stored' /\ stored' \subseteq stored \cup {RequestOf[c]}
      BY <2>1, <3>2 DEF AnchorsKept
    <3>4. stored' = stored \cup {RequestOf[c]}
      BY <2>4, <3>3
    <3>5. Contract!Store(RequestOf[c])
      BY <2>1, <2>2, <3>4 DEF Contract!Store
    <3> QED
      BY <3>5, CallAssumption DEF Contract!Next
  <2> QED
    BY <2>3, <2>4
<1>2. ASSUME NEW r \in Runs, Marks(r)
      PROVE  [Contract!Next]_(Contract!contractVars)
  <2> DEFINE S == {q \in BatchRequests(r) : ~Anchored(q)}
             x == Transaction(r)
  <2>1. MarkEffect(r) /\ UNCHANGED ledger /\ x \in ledger /\ runs[r].step = "confirmed"
    BY <1>2, MarkedRows, MarkedRun DEF Table, Chain, LedgerTraceable
  <2>2. S \subseteq Requests /\ \A q \in S : rows[q] # NoRow
    BY CallAssumption DEF Table, TypeOK, RowsRemain, BatchRequests, Roots
  <2>3. x \in Transactions /\ x = [tx |-> r, root |-> runs[r].batch]
    BY DEF Transaction, Transactions, Table, TypeOK
  <2>4. stored' = stored
    BY <2>1 DEF MarkEffect
  <2>5. ASSUME NEW q \in Requests
        PROVE  AnchorOf(q)' = IF q \in S THEN x ELSE AnchorOf(q)
    <3>1. CASE q \in S
      BY <3>1, <2>1, <2>2, <2>3 DEF MarkEffect, AnchorOf, Anchored
    <3>2. CASE q \notin S
      <4>1. rows'[q] = rows[q]
        BY <3>2, <2>1 DEF MarkEffect
      <4> QED
        BY <3>2, <4>1 DEF AnchorOf, Anchored
    <3> QED
      BY <3>1, <3>2
  <2>6. anchors' = [q \in Requests |-> IF q \in S THEN x ELSE anchors[q]]
    BY <2>5
  <2>7. \A q \in S : anchors[q] = None
    BY <2>2 DEF AnchorOf
  <2>8. Contract!Attach(x, S)
    BY <2>1, <2>2, <2>4, <2>6, <2>7 DEF Contract!Attach
  <2> QED
    BY <2>2, <2>3, <2>8 DEF Contract!Next
<1>3. ASSUME NEW x \in mempool, ConfirmTransaction(x)
      PROVE  [Contract!Next]_(Contract!contractVars)
  <2>1. Contract!Publish(x)
    BY <1>3 DEF ConfirmTransaction, Contract!Publish, AnchorOf, Anchored
  <2>2. x \in Transactions
    BY DEF Table, TypeOK
  <2> QED
    BY <2>1, <2>2 DEF Contract!Next
<1>4. ASSUME UNCHANGED <<rows, ledger>>
      PROVE  [Contract!Next]_(Contract!contractVars)
  BY <1>4 DEF Contract!contractVars, AnchorOf, Anchored
<1>5. ASSUME NEW r \in Runs, PostAnchor(r) \/ Anchor(r), ~Marks(r)
      PROVE  UNCHANGED <<rows, ledger>>
  BY <1>5 DEF PostAnchor, Anchor, Marks, SelectNone, SelectBatch, SendTransaction, SeeConfirmation,
              SubmitFails, StoreFails
<1>6. ASSUME \/ \E e \in Endpoints, t \in Threads : DropConnection(e, t)
             \/ \E x \in mempool : ExpireTransaction(x)
             \/ Restart
             \/ UNCHANGED vars
      PROVE  UNCHANGED <<rows, ledger>>
  BY <1>6 DEF DropConnection, ExpireTransaction, Restart, vars
<1> QED
  BY <1>1, <1>2, <1>3, <1>4, <1>5, <1>6 DEF Next

\* The threads, runs, failures and restarts of the code implement the contract
\* of AnchoringContract.
THEOREM Refinement == Spec => ImplementsContract
<1>1. Spec => Contract!Spec
  BY ContractInit, ContractStep, TableInvariant, ChainInvariant, PTL DEF Spec, Contract!Spec
<1> QED
  BY <1>1 DEF ImplementsContract
==============================================================================
