# FinSight in TLA+

A verification project for the FinSight backend (Express, Drizzle on PostgreSQL, BullMQ on Redis):
TLA+ modules translated from `src/src`, TLC runs that check them on small instances, and TLAPS proofs
of what holds for every value of their constants.

## The system

| Component | State | Operations | Interacts with |
| --- | --- | --- | --- |
| Invoice service (`modules/invoices`) | `invoices`, `invoice_items`, `invoice_payments`, `invoice_status_history`, `invoice_sequences` | create, issue, pay, void, mark overdue, list, get | ledger (same transaction), overdue job |
| Ledger (`modules/ledger`, `modules/accounts`) | `accounts`, `journal_entries`, `entry_lines` | post an entry under an idempotency key, list, balances | invoices |
| Overdue job (`infrastructure/queue/invoice.*`) | BullMQ queue `invoice`, a daily scheduler | run `markOverdueInvoices`, 3 attempts | invoice service |
| Documents (`modules/documents`) | `documents`, `document_files`, `document_chunks` | upload, retry, delete, list, download | ingestion queue |
| Ingestion (`document.ingest.js`, `ingest/`, `document.worker.js`) | the claim (`status`), BullMQ jobs | claim, extract, chunk, embed, write, mark failed | documents, Redis |
| Ask (`modules/ask`, `retrieval/`, `infrastructure/llm`) | none; LLM budget counter | retrieve, spend budget, call the model, validate citations | documents, Redis |
| Limits (`middleware/rateLimit.js`, `ask/llmBudget.js`) | Redis counters per window and per day | increment with a timeout, fail open | Redis |
| Auth and members | `tenants`, `users`, `memberships`, JWT | register, log in, create member | all routes |
| Shutdown (`lib/shutdown.js`) | one flag | ordered steps within a deadline | workers, queues, Redis, PostgreSQL |

Everything that can go wrong here goes wrong between two awaits: a Node process runs many handlers at
once, several processes share PostgreSQL at READ COMMITTED, and no transaction spans PostgreSQL and
Redis. What makes each component correct:

- **Invoices.** However requests and the overdue job interleave, the status of an invoice and its
  payment rows agree, it is never overpaid, an idempotency key pays once, the receivable in the ledger
  is the total less the payments, every request ends, and a past-due invoice gets marked.
- **Ledger.** Entries balance, a key posts once, a replay returns the first entry or is refused.
- **Documents and ingestion.** Chunks exist exactly for ready documents, a document is not deleted
  under a worker, a late worker neither brings a document back nor takes it out of ready (it may fail a retried one), and
  no document stays on its way for ever, unless its job stalls out or the write that marks it failed is lost.
- **Ask.** An answer cites what the tenant's ready documents say; an abstention names the right reason.
- **Limits.** At most twice the limit within any window length; failing open is the only other excess.
- **Auth.** One user per email; the loser of a race leaves no tenant behind.
- **Shutdown.** Nothing is closed while a client waits for a request or a job is at work; the process ends by its deadline.

The hazards are listed line by line in `PROJECT.json`.

## Modules

| Module | Models |
| --- | --- |
| `InvoiceState` | `invoice.state.js`: the transition table, `canTransition`, `statusThatCanReach` |
| `InvoiceLifecycle` | The abstract specification of invoices: one atomic step per issue, payment, void and overdue sweep |
| `InvoiceService` | `invoice.service.js`, statement by statement over row locks, a unique index and commits |
| `InvoiceBook` | `createInvoice` with its number, `listInvoices` and `getInvoice`, over `InvoiceLifecycle` |
| `DocumentLifecycle` | The abstract specification of documents: the edges of `document_status`, and chunks with them |
| `DocumentIngestion` | Upload, retry, delete, the BullMQ job and the worker, with faults in either store |
| `Pagination` | `lib/cursor.js`: the cursors of documents and entries, which change and grow under the walk |
| `Ledger` | `createJournalEntryTx` as a transaction, issues in the same key space, balances |
| `Membership` | Registration, new members, logins |
| `Limits` | `rateLimit.js` and `llmBudget.js` on Redis |
| `Ask` | `/ask` from retrieval to citations, with the LLM client and the budget |
| `Shutdown` | `lib/shutdown.js` in the API, the API with workers, and the worker |
| `TextPipeline` | `extract.js` (boilerplate), `structure.js` and `chunk.js` on lines of given kinds and words of given lengths |
| `SumTheorems` | Lemmas about sums over finite sets, which the proofs about money, lines and calls need |
| `SequenceLemmas` | Lemmas about folds, flattened, mapped and filtered sequences, which the proofs about texts need |
| `*_proofs` | The theorems: `InvoiceBook_proofs` has those of the life cycle and of `Pagination` too, `Services_proofs` those of `Membership`, `Shutdown`, `Limits` and `Ask` |
| `MC*` | Instances for TLC |

What composes what: `InvoiceService` implements `InvoiceLifecycle`, and `InvoiceBook` adds creations and readers to the latter; so
what a reader of the book sees holds for every behaviour of the service. `DocumentIngestion` implements `DocumentLifecycle`, and `Ask`
asks its questions over the latter's documents. `MCInvoiceBook` (book, pages and ledger) and `MCServices` (the other five) put components that share no
state in one specification: a behaviour has one of them in focus, so their states add up and do not multiply.

**InvoiceService.** A worker is a request (`Procs`) or a run of the overdue job (`Jobs`). `status`,
`issuedTo`, `payments`, `history` and `posted` are the committed tables; `lock` is who holds the row lock
of an invoice; `row`, `target`, `todo`, `current` and `marked` are what the JavaScript holds in local
variables between awaits. `history` is a bag of rows for each invoice: a row has no order but its `changed_at`, the start of its
transaction, and transactions that queue on a row lock commit in another order than they began. The steps of a handler are its statements:

| Step | Code |
| --- | --- |
| `LockInvoice` | `SELECT ... FOR UPDATE` and, for issue and void, `assertTransition` |
| `InsertPayment` | `INSERT ... ON CONFLICT DO NOTHING`, and `replayPayment` on a conflict |
| `ValidateIssue/Payment/Void` | the account checks, the limit, the target status |
| `CommitIssue/Payment/Void` | journal entry, history and status, visible together at COMMIT |
| `SelectCandidates`, `NextCandidate`, `UpdateCandidate`, `CommitJob` | the SELECT without a lock, the loop, the guarded UPDATE, COMMIT |
| `AbortDeadlock`, `Crash` | a rollback by PostgreSQL's detector, or because the connection is lost |

A payment that waits for an idempotency key in flight waits for that transaction to end, whichever
invoice it is about: `HoldsKey` is PostgreSQL's unique index on uncommitted rows. Writes a transaction
has not committed are not in the tables; a handler sees its own through `req` and `target`.

**DocumentIngestion.** `Upload`, `SelectExisting`, `Enqueue` are the INSERT, the SELECT after a
conflict and the call to BullMQ of `createDocument`; `Retry` and `Enqueue` are `retryDocument`;
`LockForDelete` and `CommitDelete` are `deleteDocument`. `Take` to `Finish` are one attempt of a job:
claim, read the file, compute, write the chunks, mark the document failed when the attempt is the last or the error
permanent. A job's record holds its state, `attemptsMade`, its stalls and its owner. Requests that are refused change nothing
and are not steps. `Fault(kind)` is the environment: an enqueue that is lost with its process, an aborted delete, a
failed statement of an attempt, a mark that fails after the last attempt, a dead worker, a worker so late that BullMQ hands its job to another
while it computes on. `FaultKinds` names the ones an instance has.

**InvoiceBook.** A creation is `Allocate` (the upsert of the counter row, which stays locked until the end of the transaction) and
`CommitCreate` or `RollbackCreate`. A list is a filter and a cursor; every page and every `getInvoice` is two statements at READ
COMMITTED, `SelectPage` or `SelectInvoice` and then `SelectColumn`, with commits of others between them.

**Ledger.** A poster posts a client's entry or an issue's: `InsertEntry` is the INSERT with ON CONFLICT, which waits for a transaction in flight with
the key, and the comparison of fingerprints; `CheckAccounts` the account checks; `CommitEntry` the COMMIT. `LosePosting` is a connection that is lost.
`CommitAdopted` is an issue whose key is taken by an identical entry: it may be a client's, since the code does not look whether its entry was a replay.

**Membership.** `InsertTenant`, `InsertUser`, `CommitRegistration` and `CommitMember` are the statements of `registerUser` and `createMember`;
`FindUser` and `FindMembership` those of `loginUser`. The unique index on the email makes a second INSERT wait.

**Limits.** A visitor arrives with the window of its arrival and counts later: the counter may have expired, or Redis may have failed, in
which case the INCR is still on its way (`LateIncrement`) when the request has gone on. `Tick` moves time only while no request is past its timeout.

**Ask.** `Retrieve` reads the chunks of ready documents; an empty result needs `ReasonForEmpty`, a second statement. `BelowFloor`, `BuildPrompt`,
`BuildAndLoad`, `Spend`, `CallOnce`, `RetryCall`, `Answer` are the awaits of `askQuestion` in order. Documents go their way in between.

**Shutdown.** `awaited` is the step under way. A step settles when what it closes has drained, fails, or hangs; requests
and jobs come and go, and a client may keep its connection. `Drop` is a client that closes it in mid-request: `server.close()` waits for
connections, so it no longer waits for this one, whose handler runs on until `Respond`.

**TextPipeline.** The documents grow by lines and pages; the algorithms are operators on them, evaluated in every state. A line has a kind, which
stands for the regular expressions that decide it, a number of characters, and words with token counts. `EdgeLines` is the number of lines at
the top and at the bottom of a page that boilerplate is looked for in (2 in the code), `MinChars` the characters below which a page is empty (20).

## Runs

| Run | Instance | Shows |
| --- | --- | --- |
| `book` | 2 invoices of 1 and 3, 2 creators, 1 rollback, pages of one row; 3 rows at 4 timestamps in 2 ms; the ledger with 2 posters, a client's key and the issue's, 5 bodies (the issue's own among them) over 3 accounts in 2 currencies, 1 lost connection | status matches paid, gapless numbers, a page and an invoice fit together, walks along cursors miss and repeat nothing and end; a key posts once, an answer is posted, an issue is posted once, trial balance, posts end |
| `invoice_one` | 1 invoice of 3, 2 requests, 1 job, 2 keys, amounts 1 and 2, three account pairs, 1 crash | no overpayment, receivable nets out, locked rows are current, the history accounts for the status, retries are replayed |
| `invoice_two` | 2 invoices past due, 2 requests, 1 key, 2 jobs | one payment per key across invoices; implements `InvoiceLifecycle`; requests end although jobs deadlock, and a request may wait for a row and then for the other's key |
| `invoice_live` | 2 invoices, 1 request, 1 job, 1 crash | past-due invoices get marked |
| `ingest` | 1 document id, 2 handlers, 2 workers, 2 attempts, 1 retry, 2 faults of any kind | chunks, no lost work, implements `DocumentLifecycle`, documents settle |
| `services` | below | members, limits, ask, shutdown, text |
| `invoice_history`, `invoice_netting`, `ask_reason`, `ingest_retry`, `ingest_upload`, `ingest_stuck` | 1 or 2 rows each | six findings, see below |

`services` has, for each component, the smallest instance in which its cases meet:

| Part | Instance | Shows |
| --- | --- | --- |
| Members | 2 callers, 2 spellings of one address and another, 1 rollback | one user per email, nothing orphaned, users can log in |
| Limits | 2 visitors, limit 1, windows of 2, 3 windows, 4 visits | the day's budget holds, a burst is at most twice the limit |
| Ask | 2 questions, 2 documents of a chunk, top 2, a budget of 1 | citations of what was sent, calls within the budget, abstentions are free |
| Shutdown | 3 programs, 2 connections, 2 workers | nobody who waits is cut off, a shutdown ends |
| Text | every document of up to 6 lines of 4 shapes on up to 3 pages, 1 edge line; target 5, cap 7, overlap 2 tokens | chunks fit the model, no word is lost |

**Bounds.** Two workers of a kind are enough for every race the code can have: each critical step
concerns one row or one key and excludes all others at once. A total of 3 with amounts 1 and 2 has a
partial payment, an exact one and one that exceeds what is left. Two attempts have a first and a last one,
`attempts: 3` only repeats the first; two faults are what it takes for a job to stall out, or for a crash and a
late worker to meet. Two requests and two jobs past due are what it takes for a deadlock with requests behind it. Invoices past due from the start leave out
drafts and issues there; `invoice_one` has them. Two milliseconds with two timestamps each have rows that a cursor in milliseconds cannot tell apart, and a third row. Three windows
have the two that a burst can straddle and one after them. Six lines have a heading, a clause, text that is merged and text that is split; up to three pages
have a line that repeats and one that does not. With one edge line, a page of three lines has one between its edges, which in the code
(two edge lines) takes five; the theorems are for any number. `MaxCrashes`, `MaxFaults`, `MaxRetries`, `MaxLost`, `MaxAborts`, `MaxRollbacks`, `MaxVisits` and `MaxInserts` bound what
the environment does, not the code; payments are bounded by the total. One document id per file is used up by a delete, accounts, addresses and visits
run out: there TLC's deadlock check is off, since the instance may really stop. `AllSymmetry` permutes requests and keys, which no definition
distinguishes; the runs with liveness use no symmetry.

**Fairness.** Handlers get strong fairness of their steps: PostgreSQL queues the waiters of a lock, so
one that is enabled again and again is served; the same holds for posters in `Ledger`, which wait for keys. Jobs likewise: the scheduler and BullMQ run the job
again after every abort. `AbortDeadlock` is weakly fair, the detector runs every second. In ingestion weak
fairness of handlers, workers and the stalled-job check is enough. A reader of the book takes its next page (weak fairness). In `Shutdown`, requests and jobs end, idle connections time
out, a step whose resource has drained settles, and the timer fires when a step hangs. No client has to send anything, and no
crash has to happen. `PastDueIsMarked` is checked with one job: with two, TLC shows that a fair schedule may
let them deadlock again and again, which the 5 s exponential backoff of `invoice.jobs.js` makes practically impossible
but fairness does not express.

**Ghosts.** `stranded` in `DocumentIngestion` is the set of documents a fault has cut off from their job. `WorkIsQueued`
and `DocumentsSettle` except exactly these, so they say that lost work comes from three windows only: an enqueue lost after the commit,
`markDocumentsFailed` failing after the last attempt, and a job BullMQ fails for stalling; the runs `ingest_retry` and `ingest_stuck` show what comes of the first and the last
(findings 3 and 6). `failed` and `hung` in `Shutdown` are the steps that did not do what they
are called for.

## Findings

1. `markOverdueInvoices` writes a stale `from_status` into the history when a payment commits between its SELECT
   and its UPDATE (`invoice_history`; README.md:22).
2. A payment with `bankAccountId` equal to the receivable marks an invoice PAID without touching the
   receivable (`invoice_netting`; invoice.service.js:46).
3. A retry can commit `failed -> pending` and lose its job; neither another retry (409) nor a re-upload (the default
   job id is still taken by the failed job) queues it again (`ingest_retry`; README.md:32).
4. A re-upload whose existing document is deleted between its INSERT and its SELECT answers 500
   (`ingest_upload`; README.md:30).
5. A document that becomes ready between the empty search and the query for documents in progress makes `/ask` answer `no_documents`
   (`ask_reason`; README.md:436).
6. When a worker dies twice during one job, BullMQ fails the job as stalled without running `processDocumentJob`: nothing marks the
   document failed, and it stays in `processing`, where it can be neither retried nor deleted (`ingest_stuck`; README.md:569). A
   `markDocumentsFailed` that fails after the last attempt ends the same way.

Two observations are not findings. Voiding an ISSUED invoice leaves its receivable in the ledger; the repository documents that as a
limitation. And a client that closes its connection in mid-request lets `server.close()` settle while the handler runs on, so queues, Redis and the
pool may be closed under it: the shutdown drains connections, not handlers. `NobodyWaitingIsCutOff` says exactly what is left, that no client waits for such a handler.

## Proofs

All theorems are safety properties, proved from the named assumptions on the constants (`TotalAssumption`,
`ServiceAssumption`, `NoneAssumption`, `IngestionAssumption`, and those of the modules below), for any number of workers and rows.

- **Sums.** A fold of the community modules is a CHOOSE of a recursive function, which has to be shown to exist. `SumTheorems` does so by
  induction over finite sets, stated for sets instead of predicates, and derives what sums are: independent of the order, additive, bounded
  (`SumBounded`), and the same for a table by rows and by columns (`SumExchange`).
- **InvoiceLifecycle.** The inductive invariant is `TypeOK` and `StatusMatchesPaid` itself. `LegalTransitions` and `PaymentsOnlyGrow` follow step by step; no run
  checks them, since `ImplementsLifecycle` says more.
- **InvoiceService.** `Inv` is `TypeOK` and five parts. `Control` says what a worker holds at each statement. `Locking`
  is the heart: whoever has read a row FOR UPDATE, or updated it, holds its lock, and the row is unchanged. It is
  inductive because every commit to a row needs its lock. `Decision` carries an `assertTransition` from the statement that made it to
  the commit; `KeyExclusion` says a payment past its INSERT is alone with its key, from which `OnePaymentPerKey` follows at the commit. They give
  `LockedRowStaysCurrent`, `KeyPaysOnce`, `RetryAlwaysReplayed` and `CommitsFollowStateMachine`.
  `HistoryInv` says that the rows of an invoice enter every phase of its life as often as they leave it, and its present one once more; a phase is a status,
  but for ISSUED and PARTIALLY_PAID, which are one, since the overdue job may write either as the status it left (finding 1). A sum over a bag has no order, so whatever
  order the rows are read in, they tell the same. `Locking` carries it over a commit, since the row of a handler starts from the status it read. It gives `HistoryAlwaysTellsStatus`.
- **Money.** `MoneyInv` adds to `Inv` what is paid, what is posted, and what a handler between its checks and its COMMIT has decided: the sum it
  computed is the sum of the committed payments, because it holds the lock, and the amount is not more than what is left. `StatusAlwaysMatchesPayments`
  and `ReceivableAlwaysNetsOut` follow. With it each commit is a step of `InvoiceLifecycle` under `paid <- Paid`, an overdue job's COMMIT a sweep over the invoices it
  marked, and every other statement a stutter: `ServiceImplementsLifecycle`.
- **InvoiceBook.** The counter row is locked from `Allocate` to the end of the creation, and a creation in flight holds the number after the
  last committed one: that is inductive, and `NumbersAlwaysGapless` follows. `ReaderInv` says of a page between its two statements that what it read then still bounds
  what is read later (the status it saw can only move on, the sum only grow), and of a walk that every invoice which matched throughout and is above
  the cursor has been shown. It gives `ShownAlwaysConsistent` and `ListAlwaysComplete`.
- **Pagination.** Between pages, every row that was there throughout has been shown or is below the cursor, and what has been shown is not. A cursor
  that orders rows as the list does carries this over a page, whatever is inserted or removed: `WalkAlwaysComplete`, `WalkAlwaysShowsOnce`.
- **Ledger.** `KeyIsHeld`: a poster past its INSERT is the only one in flight with its key, and no committed entry has it. Hence a commit adds a new key. An issue that is
  given an entry got one with its own key and body, and that is the only one with the key: `IssueIsAlwaysPostedOnce`.
  `PostedBalances`: the lines of every committed entry, and of one past its account checks, add up to zero and are in accounts of one currency. The balances of a currency
  are a table of entries by accounts summed by columns; by rows it is a sum of zeros (`LedgerAlwaysBalances`).
- **Membership.** `EmailIsHeld`: the same for addresses in lower case, and tenant, user and membership of a call are visible together or not at all.
- **Shutdown.** `CalledInOrder` says that no resource is called before the places of the HTTP server and the workers are passed, `PassedIsDrained` that what has been
  passed has drained (its connections are closed, or dropped by their clients), unless its step failed, and takes nothing new; a lemma reads the places off the three programs' steps.
- **Limits.** A request is counted between the start of its window and a tick after its end (`CountedInTime`), and the counter lives for its lifetime from then.
  So an expired counter has no request of the last window's length left to forget (`RecentAreCounted`), and the budget's, which lives a tick longer, has all of its day while
  the day can still be counted (`DayIsCounted`): `DailyBudgetAlwaysHolds`. What was counted within a window's length lies in two windows, with at most the limit in each:
  `BurstIsAlwaysAtMostTwice`.
- **Ask.** `Metered` are the requests that were given a unit of the budget: `UnitsAreGivenOnce` bounds their number by the budget and by the counter. `Progress` says that a call
  needs a unit or an open limiter, and that there are at most two. The sum of the calls is bounded by that (`CallsAlwaysBudgeted`); `CitesWhatWasSent` and
  `AbstainingIsFree` are parts of the invariant.
- **TextPipeline.** What is read is any pages of lines, with any number of edge lines; the bound on a chunk is carried through the pipeline like a type. For each fold of `structure.js` and `chunk.js` a set of
  results is named that one more line, word, piece or block does not leave (`Sectioned`, `Piece`, `Windows`, `Collected`); `FoldedStays` makes this, by induction over
  the positions, a fact about the fold. A word fits behind the prefix by assumption, a piece because it was cut until it does, a window because its
  tail was shortened until it does: `ChunksAlwaysFit`.
- **Sequences.** `SequenceLemmas` has FoldLeft one element at a time (`FoldedNone`, `FoldedAppend`), FlattenSeq of what is appended, concatenated, mapped and
  filtered, and induction over a sequence as a set of sequences that Append does not leave (`SeqInduction`). `Covers(chunks, words)` is what the pipeline
  keeps: the words of the chunks that are not in the chunk before are exactly `words`, in order. A chunk that starts with a tail of the one before it extends a cover
  (`CoverNext`), and covers of two texts without a common word make one of both (`CoverConcat`).
- **The text.** No two words of a document are alike, since each has its page, line, sentence and position; so the words of pieces, blocks and sections do not meet, and the cover is
  carried from windows (`WindowsCover`) over blocks and sections to the document (`DocumentCovers`). On the other side `ParsedReads` says, line by line, that the sections so far
  hold the words of the lines so far, each under as many headings as there are before it: a line that is read changes what is due for no earlier one, because
  it is none of them. `StructureWords` lets empty blocks and sections go, `StrippedLines`, `EdgesAreOnEdge` and `SharedIsRepeated` identify what boilerplate removal leaves: what it counts are
  lines on an edge of their page, and what it drops half of the pages have there. Together:
  `NothingIsEverLost`.
- **DocumentIngestion.** `Inv` is `TypeOK`, `ChunksIffReady`, `Locking` (a delete between its statements holds the row lock, and its
  document is not in processing) and `Counting` (a job that can run again has an attempt and a stall left; only an active job has an owner).
  `StepImplements` checks every step's edge under `Inv`, and `LifecycleImplemented` makes it the refinement.
- **The queue.** `WorkIsQueued` is far from inductive: an active job may have a worker that is about to give it up. `QueueInv` adds to `Inv`
  that the owner of a job runs it at its current attempt (`OwnerRuns`), that no job is ahead of its document's retries (`JobsAreKnown`), and
  `Hopeful`: some job of a document on its way is about to be queued, waits, or is active with no owner that is `Spent`, and, for a pending
  document, none that has claimed it. Each step either keeps such a job (`HopeKept`, `JobMoves`) or makes one.

Only model-checked: liveness (`PastDueIsMarked`, `RequestsEnd`, `DocumentsSettle`, `PostingsEnd`, `ShutdownEnds`, `ListEnds`), since no prover here has ENABLED.
Every safety property and refinement that a passing run checks is a theorem.

## Not modelled

- Several tenants: every WHERE clause has `tenant_id`, and the modules are one tenant's view (but for emails, which are global).
- Text: Unicode clean-up, pdf.js, the regular expressions that classify a line, names, messages. The embedding model is arithmetic on floats; similarity is
  an order among chunks.
- Single reads that change nothing (`getCurrentUser`, `listMembers`, downloads), token signatures and expiry.
- HTTP plumbing: stateless formatting and error mapping. The append-only triggers forbid statements the code does not make, and migrations run once.
- Scripts and benchmarks: tools that change no state of the system.
- BullMQ's backoff and schedule beyond fairness.

## Plan

What is left is the safety behind liveness: that requests alone wait for each other in no cycle, neither for row locks and keys in `InvoiceService` nor for
keys in `Ledger`, is an invariant that could be stated and proved; that they then end stays with TLC.
