----------------------------- MODULE RecordStore -----------------------------
(***************************************************************************)
(* The local verification record store (backend/app/storage/store.py), the *)
(* handlers that write it (api/verify.py, api/semantic.py) and the Merkle  *)
(* anchoring service that reads it, publishes a root on the ledger and     *)
(* marks the records (anchoring/service.py, api/anchor.py).                *)
(*                                                                         *)
(* A call is one execution of a handler that persists one freshly issued   *)
(* receipt, so a call stands for its receipt and for its receipt hash.  A  *)
(* request id owns at most one row (UNIQUE), so a row is named by its      *)
(* request id, which also stands for its record_id.  Every receipt has its *)
(* own hash and rows keep their (created_at, record_id) order for ever,    *)
(* so a Merkle root stands for the set of receipts of its leaves.          *)
(*                                                                         *)
(* api/anchor.py builds a MerkleAnchoringService, and with it a lock, for  *)
(* every request: no two runs ever compete for one lock, which is why the  *)
(* model has none.  Its store is new too, so a run opens a connection of   *)
(* its own.                                                                *)
(*                                                                         *)
(* The primary backend is PostgreSQL (autocommit off, READ COMMITTED) and  *)
(* the mirror is off, as on Render.                                        *)
(***************************************************************************)
EXTENDS Naturals

CONSTANTS
    Requests,       \* request ids
    Calls,          \* handler executions, one fresh receipt each
    RequestOf,      \* the request id a call's receipt is about
    EndpointOf,     \* the handler a call runs
    Threads,        \* worker threads of the server
    Runs,           \* POST /anchor executions; each submits at most one transaction
    MaxRestarts,    \* bound on process restarts
    MaxDrops,       \* bound on database connections closed by the other end
    NoRow,
    None

Endpoints == {"verify", "semantic"}

ASSUME CallAssumption ==
    /\ RequestOf \in [Calls -> Requests]
    /\ EndpointOf \in [Calls -> Endpoints]

ASSUME ConstantAssumption ==
    /\ MaxRestarts \in Nat
    /\ MaxDrops \in Nat
    /\ None \notin Runs \cup Threads

\* The empty set stands for a merkle_root that is NULL: a tree has a leaf.
Roots == SUBSET Calls
NoRoot == {}

\* A row of local_verification_records: the receipt it holds and the three
\* anchoring columns.
Row == [receipt : Calls,
        status  : {"unanchored", "anchored"},
        root    : Roots,
        tx      : Runs \cup {None}]

ASSUME RowAssumption == NoRow \notin Row

VARIABLES
    rows,      \* the table: request id -> Row or NoRow
    calls,     \* per call: its step and the thread it runs on
    conns,     \* per endpoint's store and thread: the cached connection
    runs,      \* per run: its step, the receipts it selected and, for the
               \* properties only, whether another run was under way meanwhile
    mempool,   \* transactions sent and not yet confirmed
    ledger,    \* transactions confirmed, with the root in their note
    restarts,
    drops

vars == <<rows, calls, conns, runs, mempool, ledger, restarts, drops>>

Transactions == [tx : Runs, root : Roots]

CallSteps == {"idle", "update", "insert", "stored", "conflict", "unsaved", "lost"}
RunSteps  == {"idle", "listing", "submitting", "pending", "confirmed",
              "anchored", "empty", "failed", "error", "lost"}

TypeOK ==
    /\ rows \in [Requests -> Row \cup {NoRow}]
    /\ calls \in [Calls -> [step : CallSteps, thread : Threads \cup {None}]]
    /\ conns \in [Endpoints \X Threads -> {"ok", "broken"}]
    /\ runs \in [Runs -> [step : RunSteps, batch : Roots, overlapped : BOOLEAN]]
    /\ mempool \subseteq Transactions
    /\ ledger \subseteq Transactions
    /\ restarts \in 0 .. MaxRestarts
    /\ drops \in 0 .. MaxDrops

Init ==
    /\ rows = [q \in Requests |-> NoRow]
    /\ calls = [c \in Calls |-> [step |-> "idle", thread |-> None]]
    /\ conns = [et \in Endpoints \X Threads |-> "ok"]
    /\ runs = [r \in Runs |-> [step |-> "idle", batch |-> {}, overlapped |-> FALSE]]
    /\ mempool = {}
    /\ ledger = {}
    /\ restarts = 0
    /\ drops = 0

-----------------------------------------------------------------------------
(* upsert: SELECT by request id, then UPDATE or INSERT, then COMMIT.        *)

Busy(c) == calls[c].step \in {"update", "insert"}
Idle(t) == \A c \in Calls : Busy(c) => calls[c].thread # t

Connection(c) == <<EndpointOf[c], calls[c].thread>>

\* The handler's SELECT.  On a connection whose transaction is aborted, or
\* that the server closed, the statement raises; the handler swallows the
\* exception and answers the client with a receipt that is not stored.
UpsertRead(c, t) ==
    /\ calls[c].step = "idle"
    /\ Idle(t)
    /\ calls' = [calls EXCEPT ![c] =
                   [step |-> IF conns[<<EndpointOf[c], t>>] = "broken" THEN "unsaved"
                             ELSE IF rows[RequestOf[c]] = NoRow THEN "insert"
                             ELSE "update",
                    thread |-> t]]
    /\ UNCHANGED <<rows, conns, runs, mempool, ledger, restarts, drops>>

Finish(c, step) == calls' = [calls EXCEPT ![c].step = step]

\* Faulty variant: the UPDATE writes a whole new row.
UpsertReplace(c) ==
    /\ calls[c].step = "update"
    /\ conns[Connection(c)] = "ok"
    /\ rows' = [rows EXCEPT ![RequestOf[c]] =
                   [receipt |-> c, status |-> "unanchored", root |-> NoRoot, tx |-> None]]
    /\ Finish(c, "stored")
    /\ UNCHANGED <<conns, runs, mempool, ledger, restarts, drops>>

\* UPDATE ... WHERE request_id: every receipt column, no anchoring column.
UpsertUpdate(c) ==
    /\ calls[c].step = "update"
    /\ conns[Connection(c)] = "ok"
    /\ rows' = [rows EXCEPT ![RequestOf[c]].receipt = c]
    /\ Finish(c, "stored")
    /\ UNCHANGED <<conns, runs, mempool, ledger, restarts, drops>>

NewRow(c) == [receipt |-> c, status |-> "unanchored", root |-> NoRoot, tx |-> None]

UpsertInsert(c) ==
    /\ calls[c].step = "insert"
    /\ conns[Connection(c)] = "ok"
    /\ rows[RequestOf[c]] = NoRow
    /\ rows' = [rows EXCEPT ![RequestOf[c]] = NewRow(c)]
    /\ Finish(c, "stored")
    /\ UNCHANGED <<conns, runs, mempool, ledger, restarts, drops>>

\* Faulty variant: the handlers of a thread share one store.
UpsertConflictOfAll(c) ==
    /\ calls[c].step = "insert"
    /\ conns[Connection(c)] = "ok"
    /\ rows[RequestOf[c]] # NoRow
    /\ conns' = [et \in Endpoints \X Threads |->
                   IF et[2] = calls[c].thread THEN "broken" ELSE conns[et]]
    /\ Finish(c, "conflict")
    /\ UNCHANGED <<rows, runs, mempool, ledger, restarts, drops>>

\* Another call inserted the request id since the SELECT: the INSERT raises an
\* IntegrityError, upsert does not roll back, and the thread keeps a
\* connection whose transaction is aborted.
UpsertConflict(c) ==
    /\ calls[c].step = "insert"
    /\ conns[Connection(c)] = "ok"
    /\ rows[RequestOf[c]] # NoRow
    /\ conns' = [conns EXCEPT ![Connection(c)] = "broken"]
    /\ Finish(c, "conflict")
    /\ UNCHANGED <<rows, runs, mempool, ledger, restarts, drops>>

\* Faulty variant: the exception is swallowed inside the store.
UpsertDroppedSilently(c) ==
    /\ Busy(c)
    /\ conns[Connection(c)] = "broken"
    /\ Finish(c, "stored")
    /\ UNCHANGED <<rows, conns, runs, mempool, ledger, restarts, drops>>

\* The write of a call whose connection was closed since the SELECT raises.
UpsertDropped(c) ==
    /\ Busy(c)
    /\ conns[Connection(c)] = "broken"
    /\ Finish(c, "unsaved")
    /\ UNCHANGED <<rows, conns, runs, mempool, ledger, restarts, drops>>

\* The connection is closed after the server executed the COMMIT and before
\* its acknowledgment: the row is written and commit() raises.
UpsertUnacknowledged(c) ==
    /\ drops < MaxDrops
    /\ Busy(c)
    /\ conns[Connection(c)] = "ok"
    /\ \/ /\ calls[c].step = "update"
          /\ rows' = [rows EXCEPT ![RequestOf[c]].receipt = c]
       \/ /\ calls[c].step = "insert"
          /\ rows[RequestOf[c]] = NoRow
          /\ rows' = [rows EXCEPT ![RequestOf[c]] = NewRow(c)]
    /\ conns' = [conns EXCEPT ![Connection(c)] = "broken"]
    /\ drops' = drops + 1
    /\ Finish(c, "unsaved")
    /\ UNCHANGED <<runs, mempool, ledger, restarts>>

\* The database closes a cached connection; _conn never opens it again.
DropConnection(e, t) ==
    /\ drops < MaxDrops
    /\ conns[<<e, t>>] = "ok"
    /\ conns' = [conns EXCEPT ![<<e, t>>] = "broken"]
    /\ drops' = drops + 1
    /\ UNCHANGED <<rows, calls, runs, mempool, ledger, restarts>>

-----------------------------------------------------------------------------
(* POST /anchor: select, submit, wait for the confirmation, mark.           *)

Goto(r, step) == runs' = [runs EXCEPT ![r].step = step]

PostAnchor(r) ==
    /\ runs[r].step = "idle"
    /\ Goto(r, "listing")
    /\ UNCHANGED <<rows, calls, conns, mempool, ledger, restarts, drops>>

\* A run between its selection and its end.
Active(r) == runs[r].step \in {"submitting", "pending", "confirmed"}

\* Faulty variant: the listing forgets its WHERE clause.
AnyRecord == {q \in Requests : rows[q] # NoRow}

Unanchored == {q \in Requests : rows[q] # NoRow /\ rows[q].status = "unanchored"}

\* list_unanchored_records and the choice of the batch.  The request names
\* arbitrary record ids or asks for the oldest batch_size: any subset of the
\* unanchored records.  A run that selects while others are under way
\* overlaps them.
SelectNone(r) ==
    /\ runs[r].step = "listing"
    /\ Goto(r, "empty")
    /\ UNCHANGED <<rows, calls, conns, mempool, ledger, restarts, drops>>

SelectBatch(r) ==
    /\ runs[r].step = "listing"
    /\ \E B \in SUBSET Unanchored \ {{}} :
         runs' = [s \in Runs |->
                    IF s = r
                    THEN [step       |-> "submitting",
                          batch      |-> {rows[q].receipt : q \in B},
                          overlapped |-> \E x \in Runs : Active(x)]
                    ELSE [runs[s] EXCEPT !.overlapped = @ \/ Active(s)]]
    /\ UNCHANGED <<rows, calls, conns, mempool, ledger, restarts, drops>>

Transaction(r) == [tx |-> r, root |-> runs[r].batch]

\* Faulty variant: a transaction that was sent counts as confirmed.
SendWithoutWait(r) ==
    /\ runs[r].step = "submitting"
    /\ mempool' = mempool \cup {Transaction(r)}
    /\ Goto(r, "confirmed")
    /\ UNCHANGED <<rows, calls, conns, ledger, restarts, drops>>

SendTransaction(r) ==
    /\ runs[r].step = "submitting"
    /\ mempool' = mempool \cup {Transaction(r)}
    /\ Goto(r, "pending")
    /\ UNCHANGED <<rows, calls, conns, ledger, restarts, drops>>

SeeConfirmation(r) ==
    /\ runs[r].step = "pending"
    /\ Transaction(r) \in ledger
    /\ Goto(r, "confirmed")
    /\ UNCHANGED <<rows, calls, conns, mempool, ledger, restarts, drops>>

\* Any exception of submit_anchor: the parameters, the send, the wait for
\* four rounds.  A transaction already sent may still be confirmed.
SubmitFails(r) ==
    /\ runs[r].step \in {"submitting", "pending"}
    /\ Goto(r, "failed")
    /\ UNCHANGED <<rows, calls, conns, mempool, ledger, restarts, drops>>

BatchRequests(r) == {RequestOf[c] : c \in runs[r].batch}

Marked(r, q) ==
    [rows[q] EXCEPT !.status = "anchored", !.root = runs[r].batch, !.tx = r]

\* Faulty variant: the UPDATE lacks "AND anchoring_status != 'anchored'".
MarkAgain(r) ==
    /\ runs[r].step = "confirmed"
    /\ rows' = [q \in Requests |-> IF q \in BatchRequests(r) THEN Marked(r, q) ELSE rows[q]]
    /\ Goto(r, "anchored")
    /\ UNCHANGED <<calls, conns, mempool, ledger, restarts, drops>>

\* Faulty variant: the UPDATE finds a record by the receipt that was selected.
MarkByReceipt(r) ==
    /\ runs[r].step = "confirmed"
    /\ rows' = [q \in Requests |->
                  IF /\ q \in BatchRequests(r)
                     /\ rows[q].status # "anchored"
                     /\ rows[q].receipt \in runs[r].batch
                  THEN Marked(r, q) ELSE rows[q]]
    /\ Goto(r, "anchored")
    /\ UNCHANGED <<calls, conns, mempool, ledger, restarts, drops>>

\* UPDATE ... SET anchored WHERE record_id AND anchoring_status != 'anchored',
\* for each record of the batch, in one transaction.
MarkAnchored(r) ==
    /\ runs[r].step = "confirmed"
    /\ rows' = [q \in Requests |->
                  IF q \in BatchRequests(r) /\ rows[q].status # "anchored"
                  THEN Marked(r, q) ELSE rows[q]]
    /\ Goto(r, "anchored")
    /\ UNCHANGED <<calls, conns, mempool, ledger, restarts, drops>>

\* The connection is closed after the COMMIT of the marks and before its
\* acknowledgment: the records are marked and the handler answers 500.
MarkUnacknowledged(r) ==
    /\ runs[r].step = "confirmed"
    /\ rows' = [q \in Requests |->
                  IF q \in BatchRequests(r) /\ rows[q].status # "anchored"
                  THEN Marked(r, q) ELSE rows[q]]
    /\ Goto(r, "error")
    /\ UNCHANGED <<calls, conns, mempool, ledger, restarts, drops>>

\* The listing, or a statement before the COMMIT of the marks, raises: the
\* handler answers 500, nothing is committed.
StoreFails(r) ==
    /\ runs[r].step \in {"listing", "confirmed"}
    /\ Goto(r, "error")
    /\ UNCHANGED <<rows, calls, conns, mempool, ledger, restarts, drops>>

-----------------------------------------------------------------------------
(* The ledger and the process.                                              *)

ConfirmTransaction(x) ==
    /\ mempool' = mempool \ {x}
    /\ ledger' = ledger \cup {x}
    /\ UNCHANGED <<rows, calls, conns, runs, restarts, drops>>

ExpireTransaction(x) ==
    /\ mempool' = mempool \ {x}
    /\ UNCHANGED <<rows, calls, conns, runs, ledger, restarts, drops>>

\* The process dies and comes back: calls and runs in progress are gone,
\* threads open new connections; the table and the ledger stay.
Restart ==
    /\ restarts < MaxRestarts
    /\ restarts' = restarts + 1
    /\ calls' = [c \in Calls |->
                   IF Busy(c) THEN [calls[c] EXCEPT !.step = "lost"] ELSE calls[c]]
    /\ runs' = [r \in Runs |->
                  IF Active(r) \/ runs[r].step = "listing"
                  THEN [runs[r] EXCEPT !.step = "lost"] ELSE runs[r]]
    /\ conns' = [et \in Endpoints \X Threads |-> "ok"]
    /\ UNCHANGED <<rows, mempool, ledger, drops>>

Upsert(c) ==
    \/ \E t \in Threads : UpsertRead(c, t)
    \/ UpsertUpdate(c)
    \/ UpsertInsert(c)
    \/ UpsertConflict(c)
    \/ UpsertDropped(c)
    \/ UpsertUnacknowledged(c)

Anchor(r) ==
    \/ SelectNone(r)
    \/ SelectBatch(r)
    \/ SendTransaction(r)
    \/ SeeConfirmation(r)
    \/ SubmitFails(r)
    \/ MarkAnchored(r)
    \/ MarkUnacknowledged(r)
    \/ StoreFails(r)

Next ==
    \/ \E c \in Calls : Upsert(c)
    \/ \E e \in Endpoints, t \in Threads : DropConnection(e, t)
    \/ \E r \in Runs : PostAnchor(r) \/ Anchor(r)
    \/ \E x \in mempool : ConfirmTransaction(x) \/ ExpireTransaction(x)
    \/ Restart

Spec == Init /\ [][Next]_vars

-----------------------------------------------------------------------------
(* The proof endpoint (api/proof.py): the tree is rebuilt from the current  *)
(* receipts of the listed rows that carry the same root.                    *)

Anchored(q) == rows[q] # NoRow /\ rows[q].status = "anchored"

\* listed: the requests of the newest 10000 rows, which is what list_records
\* returns; older rows are missing from the tree.
RebuiltRoot(q, listed) ==
    {rows[p].receipt : p \in {p \in listed : Anchored(p) /\ rows[p].root = rows[q].root}}

\* verification.valid of the answer: the rebuilt path ends in the stored root.
ProofValid(q, listed) == RebuiltRoot(q, listed) = rows[q].root

-----------------------------------------------------------------------------
(* Properties.                                                              *)

\* An anchored row names a transaction that the ledger confirmed, with the
\* root that transaction carries, and a receipt of that request is a leaf of
\* that root; an unanchored row names neither.  service.py: "NEVER mark
\* records anchored before confirmation".
AnchoredOnLedger ==
    \A q \in Requests : rows[q] # NoRow =>
        IF rows[q].status = "anchored"
        THEN /\ [tx |-> rows[q].tx, root |-> rows[q].root] \in ledger
             /\ \E c \in rows[q].root : RequestOf[c] = q
        ELSE rows[q].root = NoRoot /\ rows[q].tx = None

\* Once a row is anchored no later run, upsert or restart changes the root
\* and the transaction it names, or makes it unanchored again.
AnchorPermanent ==
    [][\A q \in Requests : Anchored(q) =>
          /\ Anchored(q)'
          /\ rows'[q].root = rows[q].root
          /\ rows'[q].tx = rows[q].tx]_vars

\* The receipt a row holds is about that request and was written by a call
\* that finished, and a call that was told its write succeeded has a row.
StoredTraceable ==
    /\ \A q \in Requests : rows[q] # NoRow =>
         /\ RequestOf[rows[q].receipt] = q
         /\ calls[rows[q].receipt].step \in {"stored", "unsaved"}
    /\ \A c \in Calls : calls[c].step \in {"stored", "conflict"} => rows[RequestOf[c]] # NoRow

\* A run that answers "anchored" leaves every record it selected anchored, by
\* itself or by a run that overlapped it.
ReportedAnchored ==
    \A r \in Runs : runs[r].step = "anchored" =>
        \A q \in BatchRequests(r) : Anchored(q)

Whole(r) ==
    \A q \in BatchRequests(r) : rows[q].tx = r /\ rows[q].root = runs[r].batch

\* All the records of a batch reported as anchored carry the root and the
\* transaction of that batch (tests/anchoring/test_service.py: "All records in
\* batch reference the same merkle_root").
BatchWhole == \A r \in Runs : runs[r].step = "anchored" => Whole(r)

\* A run whose marks are in the table, reported or not.
HasMarked(r) ==
    \/ runs[r].step = "anchored"
    \/ \E q \in Requests : Anchored(q) /\ rows[q].tx = r

\* Only runs that overlap split a batch: a run that was alone from its
\* selection to its end leaves all of its records with its root and its
\* transaction or none of them, whatever handlers, failures, restarts and
\* later runs do (mark_anchored is one transaction of guarded UPDATEs).
BatchSplitExplained ==
    \A r \in Runs : HasMarked(r) /\ ~runs[r].overlapped => Whole(r)

\* The proof endpoint can prove every anchored record against its root, as
\* long as the table has no more rows than it lists.
ProofsVerify == \A q \in Requests : Anchored(q) => ProofValid(q, Requests)

\* A leaf of the batch of q has been replaced by a later receipt.
LeafReplaced(q) == \E c \in rows[q].root : rows[RequestOf[c]].receipt # c

\* A row of the batch of q is older than the newest 10000.
LeafUnlisted(q, listed) == \E c \in rows[q].root : RequestOf[c] \notin listed

\* When the proof endpoint cannot prove an anchored record there is one of
\* three reasons: its run overlapped another, a record of its batch got a new
\* receipt, or one of them is beyond the rows the endpoint lists.  Failures,
\* restarts, lost acknowledgments and the other batches never cost a proof.
ProofLossExplained ==
    \A q \in Requests : \A listed \in SUBSET Requests :
      Anchored(q) /\ ~ProofValid(q, listed) =>
        \/ runs[rows[q].tx].overlapped
        \/ LeafReplaced(q)
        \/ LeafUnlisted(q, listed)

Answered(c) == calls[c].step \in {"stored", "conflict", "unsaved"}

\* Every outcome the client was answered has a record (storage/store.py:
\* "every verification request produces a durable audit trail").
OutcomePersisted ==
    \A c \in Calls : Answered(c) => rows[RequestOf[c]] # NoRow

\* A cached connection is only ever spoilt by the database closing one or by
\* a conflicting insert of the same thread and the same handler.
Spoilt(e, t) ==
    \/ drops > 0
    \/ \E d \in Calls : /\ calls[d].step = "conflict"
                        /\ EndpointOf[d] = e
                        /\ calls[d].thread = t

\* An answered outcome is without a record only when a connection had been
\* closed or when its thread had lost an insert of the same handler to
\* another thread before: a conflict costs neither its own request its
\* record, nor the other handler or the other threads theirs.
OutcomeLossExplained ==
    \A c \in Calls : Answered(c) /\ rows[RequestOf[c]] = NoRow =>
        Spoilt(EndpointOf[c], calls[c].thread)

-----------------------------------------------------------------------------
(* The inductive invariant behind the properties (proved in                 *)
(* RecordStoreProofs).                                                      *)

\* A row never goes away: the one an UPDATE is about and the ones a run
\* selected are still there when it writes.
RowsRemain ==
    /\ \A c \in Calls : calls[c].step = "update" => rows[RequestOf[c]] # NoRow
    /\ \A r \in Runs : \A c \in runs[r].batch : rows[RequestOf[c]] # NoRow

Sent == {"pending", "confirmed", "anchored", "failed", "error", "lost"}

\* Every transaction was sent by the run it is named after and carries the
\* batch that run still remembers; a run goes past its wait only when the
\* ledger has it.
LedgerTraceable ==
    /\ \A x \in mempool \cup ledger :
         runs[x.tx].step \in Sent /\ x.root = runs[x.tx].batch
    /\ \A r \in Runs : runs[r].step \in {"confirmed", "anchored"} =>
         Transaction(r) \in ledger

\* Rows are marked by runs that ended after their confirmation, with exactly
\* what they selected and the transaction the ledger has.
MarkedByRun ==
    \A q \in Requests : rows[q] # NoRow =>
        IF rows[q].status = "anchored"
        THEN /\ rows[q].tx \in Runs
             /\ runs[rows[q].tx].step \in {"anchored", "error"}
             /\ Transaction(rows[q].tx) \in ledger
             /\ rows[q].root = runs[rows[q].tx].batch
             /\ q \in BatchRequests(rows[q].tx)
        ELSE rows[q].root = NoRoot /\ rows[q].tx = None

\* A run that nothing has overlapped is the only one under way, and nobody
\* else marks what it selected.
LoneRun ==
    \A r \in Runs : Active(r) /\ ~runs[r].overlapped =>
        /\ \A s \in Runs : Active(s) => s = r
        /\ \A q \in BatchRequests(r) : ~Anchored(q)

\* A worker thread runs one handler at a time.
ThreadsExclusive ==
    \A c \in Calls : Busy(c) =>
        /\ calls[c].thread \in Threads
        /\ \A d \in Calls : Busy(d) /\ calls[d].thread = calls[c].thread => c = d

\* A connection is broken, and a call fails on one, only for the reasons that
\* Spoilt names.
BreaksExplained ==
    /\ \A e \in Endpoints, t \in Threads : conns[<<e, t>>] = "broken" => Spoilt(e, t)
    /\ \A c \in Calls : calls[c].step = "unsaved" =>
         Spoilt(EndpointOf[c], calls[c].thread)

Inv ==
    /\ TypeOK
    /\ StoredTraceable
    /\ RowsRemain
    /\ LedgerTraceable
    /\ MarkedByRun
    /\ ReportedAnchored
    /\ LoneRun
    /\ ThreadsExclusive
    /\ BreaksExplained

-----------------------------------------------------------------------------
(* The contract: the database of records and the ledger, without the        *)
(* threads, the runs and their steps.                                       *)

AnchorOf(q) ==
    IF Anchored(q) THEN [tx |-> rows[q].tx, root |-> rows[q].root] ELSE None

Contract == INSTANCE AnchoringContract WITH
    NoAnchor  <- None,
    stored    <- {q \in Requests : rows[q] # NoRow},
    published <- ledger,
    anchor    <- [q \in Requests |-> AnchorOf(q)]

\* The threads, calls, runs and crashes of the code implement the contract.
ImplementsContract == Contract!Spec
=============================================================================
