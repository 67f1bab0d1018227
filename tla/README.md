# Verified: TLA+ models and proofs

This directory is the formal-methods companion of the Verified repository, a service that checks
the structured output of AI agents. It holds TLA+ specifications of its concurrent and distributed
parts, the TLC configurations that model-check them on small instances, and proofs that TLAPS
checks for every value of the constants. All paths below are relative to the root of the
repository's sources.

## 1. The system

A browser or an agent submits an output and a policy to the backend (`POST /verify`). The backend
validates it, repairs what it can by rule, issues a signed receipt and stores it. A rejected
output can be escalated to `POST /semantic-repair`: the backend answers 402 with a challenge, the
wallet signs a payment, the middleware has a facilitator settle it on Algorand, and the handler
asks a language model once for a repair, which must pass validation again. `POST /anchor` publishes
the Merkle root of a batch of receipts on Algorand; `GET /anchor/proof/{id}` rebuilds the tree to
prove that a receipt is in it.

| Component | Code | State it keeps | Operations | What makes it correct |
| --- | --- | --- | --- | --- |
| Record store | `backend/app/storage/store.py` | the table, per-thread cached connections, an optional mirror | `upsert`, `save`, `mark_anchored`, listings | an answered outcome is missing only for known reasons; an anchor is never changed |
| Merkle anchoring | `anchoring/service.py`, `api/anchor.py` | a lock per service, the ledger | select, submit, wait, mark | marked only after confirmation; one root per batch unless runs overlap |
| Merkle tree and proofs | `anchoring/merkle.py`, `api/proof.py` | none | build, prove, verify | each leaf of an anchored batch can be proved, nothing else can |
| x402 middleware | `main.py` | settlement on `request.state` | verify, settle, call the handler | the handler runs for settled payments only |
| Semantic repair | `api/semantic.py`, `repair/semantic.py`, `repair/groq_provider.py` | none but the store | one attempt, revalidation, receipt | a payment buys one attempt and never an outcome |
| Result page | `frontend/src/pages/Result.tsx`, `api/client.ts`, `lib/x402Payment.ts` | challenge, payment state, response, session log | escalate, pay, try again | never says settled of a payment that is not |
| Verification pipeline | `services/orchestrator.py`, `validation/` | none | validate, repair, revalidate, decide | no outcome but rejected with a blocking finding |
| Deterministic repair | `repair/deterministic.py` | none | defaults, coercions | idempotent, repairs findings only |
| Receipts | `evidence/`, `crypto/`, `api/receipt.py` | the signing key | issue, sign, verify | a changed receipt does not verify |
| Record listings | `api/records.py`, `store.py` | none | list a page with a total, get one | a page and its total are of one table |
| Anchoring page | `pages/Anchoring.tsx` | list, selection, result, leaves, proof | list, select, anchor, ask for a proof | what is called anchored is; the tree drawn is the one anchored |
| Verify and result pages | `pages/Verify.tsx`, `Result.tsx`, `lib/session.ts` | form, location state, response, session log | submit, ask for a repair, log | an answer is shown and logged with its own request |
| History, record and receipt pages | `pages/History.tsx`, `RecordDetail.tsx`, `ReceiptVerify.tsx` | page of the list, record, proof, verdict | turn pages, load, verify a receipt | what is shown is what the address or the pager names |
| Router | `App.tsx` | the route, the browser's history | mount and unmount pages | requests outlive their page and harm no other |

The handlers are synchronous functions on FastAPI's thread pool, so calls interleave at every
database statement and every call to the facilitator, the model and the ledger. The parts share the
table (both handlers and the anchoring service write it), the ledger (payments and anchors) and, in
the browser, the page state between an `await` and its continuation. The hard behaviours are

* interleavings of upserts of one request, and of upserts with an anchoring run;
* connections that are cached for ever, aborted or closed, also after a COMMIT and before its
  acknowledgment;
* confirmations and settlements whose answer comes late or never;
* a process that dies between a confirmation and what records it;
* answers that reach a page which has moved on, or that come after the page is gone;
* users and clients that retry a call that is still running.

`PROJECT.json` lists each of them with its line under `hazards`.

## 2. The modules

| Module | What it is |
| --- | --- |
| `RecordStore` | the store, the handlers that write it, the anchoring service, the ledger, crashes |
| `AnchoringContract` | the abstract specification `RecordStore` implements |
| `RecordStoreProofs` | theorems about `RecordStore` |
| `PaidRepair` | the result page, the middleware, the facilitator and the paid handler |
| `PaidRepairContract` | the abstract specification `PaidRepair` implements |
| `PaidRepairProofs` | theorems about `PaidRepair` |
| `MerkleProof` | the tree of an anchored batch and the endpoint that rebuilds it to prove a record |
| `MerkleProofProofs` | theorems about `MerkleProof`: the proofs it makes |
| `MerkleTreeProofs` | theorems about `MerkleProof`: the root of a batch |
| `Verification` | validation, deterministic repair, decision and receipt of one request |
| `VerificationProofs` | theorems about `Verification` |
| `ResultView` | what the result page shows and offers, over the state of `PaidRepair` |
| `ResultViewProofs` | theorems about `ResultView` |
| `AnchoringPage` | the anchoring page over a server that anchors and that others use too |
| `AnchoringPageProofs` | theorems about `AnchoringPage` |
| `Pages` | the route, and the backend's receipts and records, which the pages below share |
| `VerifyPages` | Verify and Result: verifications and repairs in flight, the session log |
| `RecordPages` | History, RecordDetail and ReceiptVerify: their loads and what they show |
| `Browser` | one tab: `VerifyPages` and `RecordPages` composed by the navigations |
| `BrowserProofs` | theorems about `Browser` |
| `MCRecordStore`, `MCPaidRepair`, `MCMerkleProof`, `MCVerification`, `MCAnchoringPage`, `MCBrowser` | instances for TLC |

Definitions are named after the code; `PROJECT.json` maps each one to the lines it stands for. The
definitions commented "Faulty variant" are plausible defects of the operation that follows them:
no specification uses them, and each property is known to fail when its operation is replaced by
one of them.

### RecordStore

`rows` is the table, keyed by the request id (UNIQUE); a row holds the receipt, here named by the
handler execution that issued it, and the three anchoring columns. `calls` holds the step of each
execution of a handler: `upsert` is a SELECT (`UpsertRead`) and then an UPDATE or INSERT with its
COMMIT, and another thread may run in between. `conns` is the connection a thread caches in each
handler's store: an INSERT that violates UNIQUE leaves it in an aborted transaction
(`UpsertConflict`), as `upsert` does not roll back, and the server may close it
(`DropConnection`). The handlers swallow the exception and answer (`"unsaved"`).

A connection may also be closed after the server executed a COMMIT: `UpsertUnacknowledged` writes the
row and still fails, `MarkUnacknowledged` marks the batch and still answers 500.

`runs` holds the step of each `POST /anchor`: `SelectNone` or `SelectBatch` (the listing, the choice
of the batch, the tree), `SendTransaction`, `SeeConfirmation` or `SubmitFails`, `MarkAnchored`,
`MarkUnacknowledged` or `StoreFails`. The lock of `MerkleAnchoringService` is not modelled:
`api/anchor.py` creates a service, and with it a lock, for every request, so that no two runs ever
wait for one another. `overlapped` is a history variable of a run: another run was between its
selection and its end while this one was. `mempool` and `ledger` are Algorand. A Merkle root stands
for the set of its leaves, which is exact while receipts have different hashes and rows keep their
order. `Restart` ends all calls and runs in progress and keeps the table and the ledger.

The code keeps neither batches nor proofs nor outcomes in every case, so three properties say in
which cases only it loses them: `BatchSplitExplained` (a batch is split only if runs overlapped),
`ProofLossExplained` (a proof is lost only to an overlap, to a new receipt of a record of the batch,
or to the limit of the listing, `listed` in `RebuiltRoot`) and `OutcomeLossExplained` (an answered
outcome is missing only on a connection that was closed, or aborted by a conflict of the same thread
and handler). The runs that are expected to fail show that the first cases do occur.

The model has PostgreSQL as the primary backend and no mirror, as deployed (`render.yaml`). Batch
selection by id or by size becomes the choice of any subset of the unanchored rows.

### PaidRepair

One request and its result page. `page` is the React state of `Result.tsx`; `calls` is one record
per `POST /semantic-repair`, with its payment, whether `request.state.settlement_result` says
success, the candidate of the model and the outcome. `VerifyPayment`, `SettlePayment`,
`SettlementLost` and `SettlementFails` are the middleware; `SkipRepair`, `AttemptRepair`,
`ModelAnswers`, `Revalidate`, `PersistAndAnswer` and `HandlerFails` are the handler, in its order.
`LoseReply` makes the fetch of the page reject while the call goes on; `Reload` forgets the page;
`AgentCall` is any other client, which may also send a payment again. Validation is abstracted to
three kinds of payload (no blocking finding, blocking findings, invalid schema) and three of
candidate (none, one that revalidation finds bad, one it finds good); that this loses no step of
the handler is `HandlerServes` of `Verification`.

External, modelled from how the code uses them: Algorand takes a transaction at most once, and the
facilitator reports success only of a settlement that took place in that very call.

### MerkleProof

`anchor` is the tree the anchoring service builds, `tree` the one `get_merkle_proof` builds from the
rows it finds later; both grow one level per step, as in the loop of `build_merkle_tree`. `proof`
grows one sibling per step (`generate_proof`) and `call` folds them one by one (`verify_proof`), so
that each loop's invariant is a state predicate. A digest is the term that computes it, which makes
SHA-256 injective and nothing else. `rows` may change between the two readings of the table
(`ReadRecord`, `ListBatch`) and before either: `Reissue` is the update of an anchored row that
`RecordStore` allows, `NewRecord` pushes the batch towards the end of the listing. `MarkAnchored`
marks any part of the batch, as an overlapping run may have anchored the rest under another root.
The rows of a batch are taken to be adjacent in the table: other rows between them would only make
the listing end earlier. The order is by `(created_at, record_id)` in the service and in the
endpoint alike, and an update keeps both columns.

### Verification

One request of either endpoint: `Validate`, `DeterministicRepair` or `SemanticRepair`, `Revalidate`,
`GenerateReceipt`, `Answer`, in the order of `process` and of `semantic_repair`. A payload maps
fields to values with a Python type and, where they denote one, a number; `Coerce...` are the four
helpers of `DeterministicRepairEngine`, and `PyEqual` is the `==` that decides whether a coerced
value is stored, while the JSON text decides whether the payload changed at all. `Double` is
Python's conversion to float: an int need not be a float, a float is its own. A rule compares one
computed field with one operand; arithmetic and the tolerance of 0.01 are left out. Numbers out of a
float's range have the double `Infinity`. The exceptions that the code does not catch are modelled
(`RuleRaises`: a malformed formula, an infinite operand; `CoerceRaises`: an array of types, a number
out of range) with the 500 they end in (`ValidationFails`, `RepairFails`); how the framework renders
an infinite number in an answer is not. The language
model may answer any payload of `Candidates` or nothing. Payment, settlement and failures of the
paid handler are in `PaidRepair`, persistence in `RecordStore`. Left out of a schema: keywords other
than `type`, `required` and `default`, nested schemas, and strings such as `"1e5"` that `float`
takes and the coercions refuse.

`PaidHandler` is `PaidRepair` with one call whose payment is settled, and with the kind of payload
and candidate computed from the findings of `Verification`. `HandlerServes` says that every step of
the pipeline on a paid request is a step `PaidRepair` gives its handler, an exception its
`HandlerFails`, or none in its eyes: the receipt is generated after the verdict it states, except when the model had no answer of use, where
the verdict is the receipt's.

### ResultView

Operators over the state of `PaidRepair`: the stages of the pipeline with their status, the button
that escalates and the panel of the wallet payment, as `Result.tsx` computes them from `attempted`,
`escalating`, the challenge, the payment state and the response. It adds no step. `StagesTruthful`
says of each stage when it is done and when it has failed, in both directions: the payment of the
call shown is settled, the model made a candidate or none, revalidation accepted it or not. One stage
is wrong in the code and the property says so: of a policy with an invalid schema the model is never
asked, and the page says that the repair failed. `OffersOpen` says when an escalation or a payment is
offered; that an earlier payment may be on the ledger by then is what `charged_page_says_failed` shows.

### AnchoringPage

`page` is the React state of `Anchoring.tsx`; `load`, `call` and `proofs` are its listing, its
`POST /anchor` and its proof requests in flight; `server` is what is anchored in the table and on
the ledger. A POST is served in two steps (`SelectBatch`, then `SubmitBatch` or `SubmitFails`), so
that others may anchor or create records before, between and after (`AnchorElsewhere`,
`NewRecord`); `RecordStore` has what happens in between. `SubmitFails` is the answer with status
"failed", which has a root and no record ids (`RecordIds`) and may hide a transaction that is
confirmed later. `CallFails` loses the answer of a
POST or its connection. `Remount` is the user leaving and coming back. The list of the page is the
newest `Window` records; the table of proofs has the newest `ProofRows` anchored ones. Receipts are
not issued again while they are selected: what that does to a batch is in `RecordStore` and
`MerkleProof`.

### Pages, VerifyPages, RecordPages, Browser

`Pages` numbers receipts and records in the order of their creation; a record is the row of its
request and keeps its place in the listings when it is updated (`Issue`). `IssueElsewhere` and
`Anchor` are other clients.

`VerifyPages` has one record per `POST /verify` in flight (`calls`) and one per repair (`repairs`),
each with a flag that says whether its page is still mounted: a continuation on a page that is gone
sets no state, but it does navigate (`DeliverVerify`) and it does append to the session log
(`DeliverRepair`), as neither is tied to the component. A page waits for one repair at a time; the
repairs of pages that were left may still be in flight beside it. The storage may refuse an entry
(`session.ts` swallows that). `due` is a history variable, the repairs that were saved since the log
was cleared, and `LogTrue` says that the log is what fits of it. `navigate('/result')` while
the result page is shown replaces `location.state` and leaves `useState` as it is
(`ReplaceState`). How a repair is paid is in `PaidRepair`.

`RecordPages` has History (`listing`, whose total and page are two SELECTs, `CountRecords` and
`ServeListing`, `TurnPage`, the source toggle), RecordDetail (`recordLoad`,
`proofLoad`, and `SwitchRecord` for an address that changes under the mounted page) and
ReceiptVerify (`check`). The first two load in effects whose cleanup cancels what is under way, so
that at most one request per effect has a say; ReceiptVerify has no cleanup and keeps a request
while its text is edited. Nothing resets the proof on RecordDetail when the address changes, and
it is drawn whatever the status of the record (`ProofPanel`, line 289): `ForeignProofExplained` says
in which states the proof of another record may be beside the one shown, and that an anchored record
always has a proof, a spinner that ends or an error. `history.shown`, `result.replaced` and
`visited` are history variables, of which the last is also what Back and Forward can reach.

`Browser` composes them: `Mount` unmounts one page and mounts another, `GoTo`, `OpenRecord`,
`OpenReceipt` and `Revisit` are the links, addresses and history moves that lead to it. The
anchoring page and the pages without requests of their own are the route `home` here.

## 3. The runs

| Run | Instance | Shows |
| --- | --- | --- |
| `store_concurrent` | 3 receipts of 2 requests, 2 threads, 2 runs, 1 restart, 1 closed connection | the invariant, `AnchoredOnLedger`, `StoredTraceable`, `ReportedAnchored`, the three explained losses, `AnchorPermanent`, refinement of `AnchoringContract` |
| `paid_safety` | 4 calls, 2 payments, all kinds of payload | attempts are paid, once; repairs are earned; the page is right about settled; its stages tell what took place and its offers are open (`ViewInv`, `StagesTruthful`, `OffersOpen`); refinement of `PaidRepairContract` |
| `paid_liveness` | 2 calls, 2 payments, fairness | a submitted payment ends on the page |
| `merkle_proof` | batches of 1 to 5 of 6 receipt hashes, a listing of 5, one newer record | the invariant, soundness and completeness of proofs, the root against a reference |
| `verification` | 2 fields, every value with numbers 0, 1, 1.5, 2, 3, 4 and infinity, of which 3 stands for an int that is no float and 4 for one out of a float's range, every type, required or not, with and without default, with a rule, a malformed rule or none, valid schema or not | the invariant, outcome, receipt and response agree, repair is minimal, the paid handler takes the steps of `PaidRepair` |
| `anchoring_page` | 3 records, a listing of 2, 1 row of proofs, 2 proof requests at once, 1 remount | the invariant; "all selected" means all; what is shown as anchored is; the leaves drawn are those anchored; a proof is of the record highlighted unless two requests crossed; under fairness running and loading end |
| `browser` | 3 requests, 2 of them of this tab, 3 receipts, pages of 1 record, a total capped at 2, a log of 1 entry, 1 verification and 2 repairs at once, records 1 and 2 may be anchored | the invariant; the session log is true; result and history show what the location and the pager name; a foreign proof is explained; turning pages skips no record |

Two receipts of one request, a second request, two threads and two runs are enough for each
conflict of the store to happen: first insert against first insert, update against selection,
selection against selection, with a third call left over to meet a broken connection, whose request
has no row yet. Four calls
are a challenge, a payment whose reply is lost, its retry with a new payment and another client's
call. Five leaves give every shape of tree up to three levels above the leaves, with an odd level at
the bottom, above it, and at both; a sixth hash is the one a row is reissued with. One field with
every value and type, and one to make a rule with it, meet every branch of validation and repair,
which treat fields one by one.

For `anchoring_page`, three records with a listing of two let a record leave the list while it is
selected or proved, two proof requests cross, and one remount abandons a POST. For `browser`, the
cap of 2 under 3 records makes a total that is too small, pages of one record make two pages to turn
between while a third record pushes them on, a log of one entry is cut by the second repair, of two that
may be in flight at once, and two
anchorable records let the detail page go from one anchored record to another and to one that is
not. `MaxReceipts` leaves one receipt beside two of this tab: a repair, or a record of another
client. Larger numbers add longer histories of the same steps; the theorems of section 4 have no
bound.

One verification in flight at a time is enough for the properties of `browser`;
`result_of_other_request` has the instance with two, and the proofs have any number. Every property
of `store_concurrent` is one of pairs of actors, so a third of a kind adds no new conflict; the
proofs below cover any number. Symmetry is used for runs, threads, calls and payments
only where no other constant mentions them, for receipt hashes and for verifications and repairs in
flight, and never with a liveness property. Deadlock is checked in `browser`, where the user can always
navigate. Elsewhere it is not: the instances are finite, and a system whose calls are all spent
stops.

Runs that are expected to fail show where the code and what the repository says of it disagree:

| Run | The claim | What the code does |
| --- | --- | --- |
| `overlapping_services` | a lock prevents duplicate anchoring of the same batch | a lock per request protects nothing: two runs report the same records |
| `repair_after_anchor` | the transaction of a record enables its proof of inclusion | a repair after anchoring breaks the proofs of the whole batch |
| `lost_outcome` | every verification outcome is persisted as a local record | two first upserts of a request conflict, and `upsert` leaves the aborted transaction on the cached connection of the thread, whose next outcome is answered and not stored |
| `charged_page_says_failed` | "Payment failed" | the payment may be on the ledger |
| `result_of_other_request` | a new verification shows its result on the result page | an answer that comes while the result page is shown changes the location only: the page keeps the response before and would repair another request |

Further disagreements between the code and its documentation, visible in the models' actions
without a run of their own:

* a late `/verify` replaces the record of a paid repair (`UpsertUpdate`; the docstring of `upsert`
  has the database reflect the final lifecycle state);
* a valid integer of a number field that no double holds becomes the nearest float (`CoerceNumber`;
  `deterministic.py:148` converts a value "if it can be losslessly converted"), which
  `RepairIsMinimal` excludes, and one out of a float's range makes the repair raise (`CoerceRaises`);
* a settled call whose schema is invalid or whose payload has no blocking finding carries payment
  metadata although no repair was attempted (`SkipRepair`; `docs/API.md:183` says otherwise);
* a failure of the handler after settlement buys no attempt (`HandlerFails`; `api/semantic.py:97`);
* the proof endpoint looks for a batch among the newest 10000 rows of the table only (`Listed`;
  "Find all records with the same merkle_root", `api/proof.py:93`), so older batches lose their
  proofs (`ProofLossExplained`); no wrong proof follows, which is what `ValidIsCommitted` is about;
* every integer of a Boolean field becomes a Boolean (`CoerceBool`; `deterministic.py:87` admits
  only the strings "true" and "false");
* an array of types makes deterministic repair raise (`RepairRaises`), a malformed formula or an
  infinite operand makes the rule raise (`RuleRaises`), and the endpoints answer 500;
* a transaction that fails is answered 200 with status "failed", and the page shows it under
  "Anchored on Algorand TestNet" with the pill "confirmed" (`ConfirmedShown`; `Anchoring.tsx:512`,
  `api/anchor.py:107`, `service.py:251`); `ShownIsAnchored` speaks of status "anchored" only;
* "Every local verification record is already anchored" is said when the selected ones are
  (`NothingReported`), and "All records are already anchored" when the newest 200 are;
* a listing that fails after a run hides the table, and nothing on the page retries it (`NotListed`);
* the verdict on a receipt that was edited while it was verified is shown beside the new text
  (`EditReceipt`; `ReceiptVerify.tsx:46`), and an error stays beside it;
* the session log gets repairs only (`DeliverRepair`), though `History.tsx:281` says "Run a
  verification and it will appear here", and it is shared by all tabs, not "from this tab";
* the total of History stops at 1000 (`Total`), so that older records have no page;
* RecordDetail shows the proof of the record before beside the spinner or the error of its own, and
  beside a record that is not anchored, in place of the hint to anchor it (`ProofPanel`, `AnchorHint`;
  `RecordDetail.tsx:289`);
* for a rejected candidate the page says both that the provider could not produce a valid one and
  that one was rejected (`Result.tsx:279` and `284`);
* of a paid call whose schema is invalid the page says that the repair failed and that the provider
  could not produce a candidate, although the model was not asked (`StagesTruthful`; `SkipRepair`);
* a failed escalation cannot be tried again without a reload (`Offers`: `attempted` never resets);
* an invalid schema definition is answered 200 with a rejection (`SchemaFindings`), where
  `api/verify.py:37` announces a 400 and a test expects the 200.

### Fairness

`RecordStore` states no fairness: its properties are of safety. `PaidRepair` assumes weak fairness of each
call's server steps, as the facilitator and the model are called with timeouts
(`GROQ_TIMEOUT_SECONDS`), and of the delivery of a reply that is there. `AnchoringPage` assumes weak
fairness of its listing, of the server's part of a POST and of each proof, which answer or are
refused, and of the continuations of the page. Neither the user nor the wallet is fair. `Browser`
states no fairness: its properties are of safety.

## 4. The proofs

`RecordStoreProofs` proves, for any number of requests, calls, threads, runs, restarts and dropped
connections, from the named assumptions of the module (`CallAssumption`, `ConstantAssumption`,
`RowAssumption`), `TypeCorrect`, `Invariance` (`Inv`), `TraceableAlways`, `ReportedAnchoredAlways`,
`AnchoredOnLedgerAlways`, `BatchSplitExplainedAlways`, `ProofLossExplainedAlways`,
`OutcomeLossExplainedAlways`, `AnchorPermanentAlways` and `Refinement`. None of them has a hypothesis
beyond those assumptions: services are per run, requests have several writers, connections close.

`AnchoredOnLedger` is not inductive: that a marked row's transaction is on the ledger depends on
what its run remembers. `Inv` adds that rows never go away (`RowsRemain`), that every transaction
carries the batch of the run it is named after and no run passes its wait without it
(`LedgerTraceable`), and that rows are marked by runs that ended after their confirmation with
exactly what those selected (`MarkedByRun`). For a batch that stays whole it adds `LoneRun`: a run
that nothing has overlapped is the only one under way, and what it selected is still unanchored. For
the outcomes it adds that a thread runs one handler at a time (`ThreadsExclusive`) and why a
connection is broken or a call failed (`BreaksExplained`). The proof goes in four layers, each using
the ones before: the table and its receipts (`Table`), the chain from a marked row through its run to
the ledger (`Chain`), the runs that are alone (`Alone`), and the writers (`Writers`). Each layer has
one lemma for the upserts, one for the steps of a run and one for the environment.
`ProofLossExplained` then follows without another induction: a batch whose run was alone carries its
root on all of its rows, and a row with that root was selected with a receipt of it, so that the
rebuilt leaves differ from the batch only by a row beyond the listing or a receipt that is new.

`PaidRepairProofs` proves `TypeCorrect`, `Invariance`, `OneAttemptAlways`, `RepairEarnedAlways`,
`PageShowsSettledAlways` and `Refinement` for any number of calls, payments and clients, from
`PayloadAssumption` and `NoneAssumption`. The heart of `Inv` is `PaidOnce`: a settlement that a call
saw is on the ledger, no other call saw it, and no call passes the middleware without one.
`OutcomeEarned` ties candidate and outcome to the steps of the handler and `PageWaits` says that the
page waits for one fetch at a time.

`MerkleProofProofs` proves `TypeCorrect`, `Invariance`, `ValidIsCommittedAlways` and
`IntactIsValidAlways` for batches, listings and tables of any size, from `BoundAssumption` and the
injectivity of terms. Soundness is the interesting half: the rebuilt tree need not be the anchored
one, so the siblings may be anything. `FoldIsInjective` says that a folded digest can be a node of
the anchored tree only if the receipt is a leaf of it that many levels below; going one level up,
a node has two children and the folded one is one of them, whatever the sibling. `TreeFits` gives
that the rebuilt tree is not higher than the anchored one, so that a path cannot end below a leaf,
and `FoldFollowsPath` that the leaf is the one at the index of the record. Completeness follows the
path in the tree itself (`FoldGivesParent`), the odd last node included.

`MerkleTreeProofs` proves `RootIsReferenceAlways` and `RootDeterminesBatch`. `RootIsReference`
compares the loop of `build_merkle_tree` with the definition of the tree over its leaves padded to a
power of two (`Block`, a recursive function). Its recursion is over numbers, for which the
least-number principle (`LeastNumber`, from the well-foundedness of Nat) gives induction over a set
of numbers (`InductionOverSet`): the value of `Block` exists (`BlocksExist`), and node i of level k
is the block of the 2^k padded leaves from i * 2^k on, as an odd level is padded with the very node
the padded leaves hash to. `RootDeterminesBatch` goes down the two trees level by level
(`SameFromTop`): equal roots have equal children, a tree cannot end where the other goes on
(`NotLower`), and a padded node can be no other receipt's (`NotPadded`). The receipts of a batch
differ there; the same receipt twice would give the root of a longer batch. This is what lets
`RecordStore` take a root for the set of its leaves.

`VerificationProofs` proves `TypeCorrect`, `Invariance`, `OutcomeMatchesOutputAlways`,
`ReceiptAgreesAlways`, `RepairIsMinimalAlways`, `ResponseShowsRepairAlways` and
`HandlerServesAlways` for any fields,
schemas, payloads and answers of the model, from `PolicyAssumption` (a conversion to float is
idempotent and exact on 0 and 1). `StepEarned` says what each step has established; `RepairIsMinimalAlways` and
`ResponseShowsRepairAlways` rest on lemmas about the coercions: a value of the right type is kept, a coerced one is
coerced to itself, and a repair that changes the JSON changes the payload for Python's `==` too.
`HandlerServesAlways` has a lemma for each step, which computes the call that `PaidRepair` sees
before and after it; it needs of the invariant that only a repairable request has a candidate.

`ResultViewProofs` proves `ViewInvariance`, `StagesTruthfulAlways` and `OffersOpenAlways` on top of
`PaidRepairProofs`. `ViewInv` adds two parts to the invariant there: `Judged`, which ties the outcome
of a call to its candidate, and `Offers`, by which everything on the page begins with an attempt to
escalate and everything about a payment with a challenge.

`AnchoringPageProofs` proves `TypeCorrect`, `Invariance`, `AllSelectedIsAllAlways`,
`ShownIsAnchoredAlways`, `LeavesAccountedAlways` and `ProofOfHighlightAlways` for any number of
records, fetches and visits, from `PageAssumption` and `NoneAssumption`. `Inv` says that the page is
busy exactly while a request of its own is in flight (`RequestsApart`), that only unanchored records
of its list are selected (`SelectionFresh`) and what an answer on its way may claim. The page decides
"all selected" by comparing sizes, which `SameSizeSameSet` justifies for subsets.

`BrowserProofs` proves `Correctness` (`Inv`), `LogTrueAlways`, `ResultIsOfRequestAlways`,
`HistoryShowsItsPageAlways`, `NoRecordSkippedAlways` and `ForeignProofExplainedAlways` for any number of
requests, receipts, verifications and repairs and any sizes of pages and log, from `PagesAssumption`, `LogAssumption`
and `ListingAssumption`. The inductive invariant has a part for the backend (`TableInv`: a request has
one row), one for the pages that make receipts (`VerifyInv`, with the repair a page waits for tied to
its location in `RepairOfState`, and the log to what is due) and one for the pages that show records (`RecordInv`). Each step
changes one of the parts, and a navigation is one `Mount`. That no record is skipped rests on
`Listings`: what History shows and what it waits for are pages of two listings made one after the
other, when there were m and then n records with m <= n; by `NoneBetween` the rows of the later page
begin no further down than the earlier page ends, since new records push rows towards later pages.

Only model-checked: `PaymentResolves` and `WaitingEnds`, as liveness under fairness is
out of the prover's reach, like ENABLED. Every invariant and action property of a passing run, and
both refinements, are proved. The induction theorems of the library, whose parameter is an operator,
cannot be used with the installed provers, which is why `MerkleTreeProofs` does induction over sets;
no module with theorems has a RECURSIVE operator.

## 5. What is not modelled

* The mirror database. Every write goes to the primary first and every reader reads the primary
  only; what the mirror misses is seen by nobody who uses the program. `save` has no caller.
* Hashing, signing and verifying of receipts: arithmetic on bytes without state. A receipt is a
  name here, and its outcome, output and repair are in `Verification`.
* `GET /records/unanchored` and `compute_root`, which only tests call.
* On the pages: the public key panel, the tamper test, the outcome filter (of rows already on the
  page), what other tabs do to the shared session log, the comparison of outputs before and after
  a repair, and everything that is layout, wording or animation. Home's list of recent records is a
  listing without paging.
* Configuration, the health endpoint, the proxy and the scripts have no state of their own.
* Facilitator, language model and Algorand are external, modelled from how the code uses them.

## 6. Plan

Done: `RecordStore` with its contract and proofs, `PaidRepair` with its contract and proofs,
`MerkleProof`, `Verification`, `ResultView`, `AnchoringPage` and `Browser`, each with its proofs.

Left, in this order:

1. A composition of `RecordStore` with the order of calls that `PaidRepair` and `Browser` can
   produce, for the lifecycle of one request from `/verify` to a proof.
2. `StoreMirror`: primary and mirror, best-effort writes and what heals. The claim that a mirror
   heals on the next write against marks that are missed; theorem: the mirror never gets ahead of
   the primary.
3. `Receipts`: issue, sign, change, verify, with the symbolic hash of `MerkleProof`.
4. The comparison of outputs in `lib/repairDisplay.ts` and `lib/diff.ts` as operators.
