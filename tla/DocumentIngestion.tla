------------------------- MODULE DocumentIngestion -------------------------
(***************************************************************************)
(* modules/documents and infrastructure/queue/document.*.js: a document    *)
(* from its upload to its chunks.                                          *)
(*                                                                         *)
(* The API commits a document in PostgreSQL and then, in a call of its     *)
(* own, adds a job to the BullMQ queue; workers run the job's attempts;    *)
(* no transaction spans the two stores.  One tenant.  A single SQL         *)
(* statement, and a transaction nothing can wait in, is one step.          *)
(***************************************************************************)
EXTENDS Integers

CONSTANTS
    Docs,        \* documents.id, never used twice
    Files,       \* documents.content_sha256
    Handlers,    \* concurrent HTTP requests
    Workers,     \* document workers, each with concurrency 1
    Attempts,    \* defaultJobOptions.attempts
    MaxStalled,  \* how often BullMQ runs a stalled job again
    MaxRetries,  \* bound: how often a document is retried
    FaultKinds,  \* what can fail
    MaxFaults,   \* bound: how often something fails
    None

ASSUME IngestionAssumption ==
    /\ Attempts \in Nat \ {0}
    /\ MaxStalled \in Nat
    /\ MaxRetries \in Nat
    /\ FaultKinds \subseteq {"enqueue", "delete", "statement", "mark", "crash", "late"}
    /\ MaxFaults \in Nat
    /\ None \notin Handlers \cup Workers \cup Files

VARIABLES
    \* PostgreSQL
    status,    \* documents.status, "absent" before and "deleted" after the row
    fileOf,    \* content_sha256 of the row, and of its document_files row
    chunks,    \* the document has document_chunks
    lock,      \* the deleteDocument that holds the row lock
    \* BullMQ
    job,       \* job[<<d, n>>]: ingest-<d> if n = 0, otherwise its n-th retry
    \* API
    hpc,       \* what a handler does next
    arg,       \* the file, the document or the job it does it to
    retries,   \* retries of a document so far, each with a job id of its own
    \* workers
    wpc,       \* what a worker does next
    running,   \* the job it runs
    made,      \* job.attemptsMade when it took the job
    result,    \* how its attempt ends
    \* ghosts
    stranded,  \* documents that a fault has cut off from their job
    faults

tables == <<status, fileOf, chunks>>
api    == <<hpc, arg, retries>>
worker == <<wpc, running, made, result>>
vars   == <<tables, lock, job, api, worker, stranded, faults>>

-----------------------------------------------------------------------------
Status == {"absent", "pending", "processing", "ready", "failed", "deleted"}

JobIds == Docs \X (0 .. MaxRetries)

Job == [state: {"none", "waiting", "active", "completed", "failed"},
        attempts: 0 .. Attempts, stalls: 0 .. MaxStalled + 1,
        owner: Workers \cup {None}]

NoJob == [state |-> "none", attempts |-> 0, stalls |-> 0, owner |-> None]

Exists(d) == status[d] \notin {"absent", "deleted"}

Init ==
    /\ status = [d \in Docs |-> "absent"]
    /\ fileOf = [d \in Docs |-> None]
    /\ chunks = [d \in Docs |-> FALSE]
    /\ lock = [d \in Docs |-> None]
    /\ job = [id \in JobIds |-> NoJob]
    /\ hpc = [h \in Handlers |-> "idle"]
    /\ arg = [h \in Handlers |-> None]
    /\ retries = [d \in Docs |-> 0]
    /\ wpc = [w \in Workers |-> "idle"]
    /\ running = [w \in Workers |-> None]
    /\ made = [w \in Workers |-> 0]
    /\ result = [w \in Workers |-> "ok"]
    /\ stranded = {}
    /\ faults = 0

-----------------------------------------------------------------------------
(* HTTP handlers; "error" is a handler that has answered 500 *)

Handle(h, next, x) ==
    /\ hpc' = [hpc EXCEPT ![h] = next]
    /\ arg' = [arg EXCEPT ![h] = x]

Free(h) == hpc[h] \in {"idle", "error"}

\* createDocument: INSERT ... ON CONFLICT (tenant_id, content_sha256) DO
\* NOTHING, and the file of a new document in the same transaction.
Upload(h, f) ==
    /\ Free(h)
    /\ \/ /\ \E d \in Docs : fileOf[d] = f
          /\ Handle(h, "select", f)
          /\ UNCHANGED tables
       \/ /\ \A d \in Docs : fileOf[d] # f
          /\ \E d \in Docs :
                /\ status[d] = "absent"
                /\ status' = [status EXCEPT ![d] = "pending"]
                /\ fileOf' = [fileOf EXCEPT ![d] = f]
                /\ Handle(h, "enqueue", <<d, 0>>)
          /\ UNCHANGED chunks
    /\ UNCHANGED <<lock, job, retries, worker, stranded, faults>>

\* The row that was in the way is read by the next statement.  If it has been
\* deleted since, result.document is undefined and line 59 throws a TypeError.
SelectExisting(h) ==
    /\ hpc[h] = "select"
    /\ \/ \E d \in Docs :
             /\ fileOf[d] = arg[h]
             /\ IF status[d] = "pending" THEN Handle(h, "enqueue", <<d, 0>>)
                                         ELSE Handle(h, "idle", None)
       \/ /\ \A d \in Docs : fileOf[d] # arg[h]
          /\ Handle(h, "error", None)
    /\ UNCHANGED <<tables, lock, job, retries, worker, stranded, faults>>

\* Mutation: the retry is queued under the default job id.
Retry_DefaultJobId(h, d) ==
    /\ Free(h)
    /\ status[d] = "failed"
    /\ lock[d] = None
    /\ retries[d] < MaxRetries
    /\ status' = [status EXCEPT ![d] = "pending"]
    /\ retries' = [retries EXCEPT ![d] = @ + 1]
    /\ Handle(h, "enqueue", <<d, 0>>)
    /\ UNCHANGED <<fileOf, chunks, lock, job, worker, stranded, faults>>

\* retryDocument: UPDATE ... WHERE status = 'failed' waits for the row lock.
\* A document in another status is answered 409 or 404, and nothing changes.
Retry(h, d) ==
    /\ Free(h)
    /\ status[d] = "failed"
    /\ lock[d] = None
    /\ retries[d] < MaxRetries
    /\ status' = [status EXCEPT ![d] = "pending"]
    /\ retries' = [retries EXCEPT ![d] = @ + 1]
    /\ Handle(h, "enqueue", <<d, retries[d] + 1>>)
    /\ UNCHANGED <<fileOf, chunks, lock, job, worker, stranded, faults>>

\* enqueueIngestion: BullMQ ignores an add whose job id still exists.
Enqueue(h) ==
    /\ hpc[h] = "enqueue"
    /\ IF job[arg[h]].state = "none"
       THEN /\ job' = [job EXCEPT ![arg[h]].state = "waiting"]
            /\ stranded' = stranded \ {arg[h][1]}
       ELSE UNCHANGED <<job, stranded>>
    /\ Handle(h, "idle", None)
    /\ UNCHANGED <<tables, lock, retries, worker, faults>>

\* Mutation: the status is read without FOR UPDATE.
LockForDelete_PlainSelect(h, d) ==
    /\ Free(h)
    /\ Exists(d)
    /\ status[d] # "processing"
    /\ Handle(h, "delete", d)
    /\ UNCHANGED <<tables, lock, job, retries, worker, stranded, faults>>

\* deleteDocument: SELECT ... FOR UPDATE.  A document that is being processed
\* is answered 409, and nothing changes.
LockForDelete(h, d) ==
    /\ Free(h)
    /\ Exists(d)
    /\ lock[d] = None
    /\ status[d] # "processing"
    /\ lock' = [lock EXCEPT ![d] = h]
    /\ Handle(h, "delete", d)
    /\ UNCHANGED <<tables, job, retries, worker, stranded, faults>>

\* The chunks, the file and the document go in one commit.
CommitDelete(h) ==
    LET d == arg[h] IN
    /\ hpc[h] = "delete"
    /\ status' = [status EXCEPT ![d] = "deleted"]
    /\ fileOf' = [fileOf EXCEPT ![d] = None]
    /\ chunks' = [chunks EXCEPT ![d] = FALSE]
    /\ lock' = [lock EXCEPT ![d] = None]
    /\ stranded' = stranded \ {d}
    /\ Handle(h, "idle", None)
    /\ UNCHANGED <<job, retries, worker, faults>>

-----------------------------------------------------------------------------
(* processDocumentJob *)

DocOf(w) == running[w][1]

Goto(w, next) == wpc' = [wpc EXCEPT ![w] = next]

\* The attempt of w has ended; processDocumentJob returns or throws.
End(w, r) ==
    /\ Goto(w, "finish")
    /\ result' = [result EXCEPT ![w] = r]

\* Mutation: attemptsMade is taken for the number of the current attempt.
Throw_OffByOne(w, e) ==
    IF e = "permanent" \/ made[w] >= Attempts
    THEN /\ Goto(w, "mark")
         /\ result' = [result EXCEPT ![w] = e]
    ELSE End(w, e)

\* An error reaches the catch clause: after the last attempt, or one that is
\* in vain to repeat, the document is marked first.
Throw(w, e) ==
    IF e = "permanent" \/ made[w] + 1 >= Attempts
    THEN /\ Goto(w, "mark")
         /\ result' = [result EXCEPT ![w] = e]
    ELSE End(w, e)

Take(w, id) ==
    /\ wpc[w] = "idle"
    /\ job[id].state = "waiting"
    /\ job' = [job EXCEPT ![id].state = "active", ![id].owner = w]
    /\ running' = [running EXCEPT ![w] = id]
    /\ made' = [made EXCEPT ![w] = job[id].attempts]
    /\ Goto(w, "claim")
    /\ UNCHANGED <<tables, lock, api, result, stranded, faults>>

\* UPDATE ... SET status = 'processing' WHERE status IN (...).
Claim(w) ==
    LET d == DocOf(w) IN
    /\ wpc[w] = "claim"
    /\ lock[d] = None
    /\ \/ /\ status[d] \in {"pending", "processing"}
          /\ status' = [status EXCEPT ![d] = "processing"]
          /\ Goto(w, "read")
          /\ UNCHANGED result
       \/ /\ status[d] \notin {"pending", "processing"}
          /\ End(w, "ok")
          /\ UNCHANGED status
    /\ UNCHANGED <<fileOf, chunks, lock, job, api, running, made, stranded, faults>>

ReadFile(w) ==
    /\ wpc[w] = "read"
    /\ \/ fileOf[DocOf(w)] # None /\ Goto(w, "compute") /\ UNCHANGED result
       \/ fileOf[DocOf(w)] = None /\ Throw(w, "permanent")
    /\ UNCHANGED <<tables, lock, job, api, running, made, stranded, faults>>

\* Extraction, chunking and embedding succeed, fail, or find the PDF
\* unextractable, whatever the file.
Compute(w) ==
    /\ wpc[w] = "compute"
    /\ \/ Goto(w, "write") /\ UNCHANGED result
       \/ \E e \in {"transient", "permanent"} : Throw(w, e)
    /\ UNCHANGED <<tables, lock, job, api, running, made, stranded, faults>>

\* writeChunks: the claim check, the old and the new chunks in one commit.
WriteChunks(w) ==
    LET d == DocOf(w) IN
    /\ wpc[w] = "write"
    /\ lock[d] = None
    /\ \/ /\ status[d] = "processing"
          /\ status' = [status EXCEPT ![d] = "ready"]
          /\ chunks' = [chunks EXCEPT ![d] = TRUE]
       \/ status[d] # "processing" /\ UNCHANGED <<status, chunks>>
    /\ End(w, "ok")
    /\ UNCHANGED <<fileOf, lock, job, api, running, made, stranded, faults>>

\* Mutation: the UPDATE finds the document by its id alone.
MarkFailed_AnyStatus(w) ==
    LET d == DocOf(w) IN
    /\ wpc[w] = "mark"
    /\ lock[d] = None
    /\ status' = [status EXCEPT ![d] = IF Exists(d) THEN "failed" ELSE @]
    /\ Goto(w, "finish")
    /\ UNCHANGED <<fileOf, chunks, lock, job, api, running, made, result, stranded, faults>>

\* markDocumentsFailed
MarkFailed(w) ==
    LET d == DocOf(w) IN
    /\ wpc[w] = "mark"
    /\ lock[d] = None
    /\ status' = [status EXCEPT ![d] =
                     IF @ \in {"pending", "processing"} THEN "failed" ELSE @]
    /\ Goto(w, "finish")
    /\ UNCHANGED <<fileOf, chunks, lock, job, api, running, made, result, stranded, faults>>

\* Mutation: a failed job is tried again however often it has been tried.
Finish_NoLimit(w) ==
    LET id == running[w] IN
    /\ wpc[w] = "finish"
    /\ \/ job[id].owner # w /\ UNCHANGED job
       \/ /\ job[id].owner = w
          /\ result[w] = "ok"
          /\ job' = [job EXCEPT ![id].owner = None, ![id].state = "completed"]
       \/ /\ job[id].owner = w
          /\ result[w] # "ok"
          /\ job' = [job EXCEPT ![id].owner = None, ![id].attempts = @ + 1,
                               ![id].state = "waiting"]
    /\ Goto(w, "idle")
    /\ running' = [running EXCEPT ![w] = None]
    /\ UNCHANGED <<tables, lock, api, made, result, stranded, faults>>

\* BullMQ records the attempt, unless the job's lock has passed to another:
\* an UnrecoverableError or the last attempt fails the job, any other error
\* puts it back.
Finish(w) ==
    LET id == running[w]
        over == result[w] = "permanent" \/ job[id].attempts + 1 >= Attempts
    IN
    /\ wpc[w] = "finish"
    /\ \/ job[id].owner # w /\ UNCHANGED job
       \/ /\ job[id].owner = w
          /\ result[w] = "ok"
          /\ job' = [job EXCEPT ![id].owner = None, ![id].state = "completed"]
       \/ /\ job[id].owner = w
          /\ result[w] # "ok"
          /\ job' = [job EXCEPT ![id].owner = None, ![id].attempts = @ + 1,
                               ![id].state = IF over THEN "failed" ELSE "waiting"]
    /\ Goto(w, "idle")
    /\ running' = [running EXCEPT ![w] = None]
    /\ UNCHANGED <<tables, lock, api, made, result, stranded, faults>>

-----------------------------------------------------------------------------
(* Faults *)

Fault(kind) ==
    /\ kind \in FaultKinds
    /\ faults < MaxFaults
    /\ faults' = faults + 1

\* The process ends, or Redis refuses the command, between the commit and
\* the job.
LoseEnqueue(h) ==
    /\ hpc[h] = "enqueue"
    /\ Fault("enqueue")
    /\ stranded' = stranded \cup {arg[h][1]}
    /\ Handle(h, "error", None)
    /\ UNCHANGED <<tables, lock, job, retries, worker>>

\* The transaction of deleteDocument is rolled back.
AbortDelete(h) ==
    /\ hpc[h] = "delete"
    /\ Fault("delete")
    /\ lock' = [lock EXCEPT ![arg[h]] = None]
    /\ Handle(h, "error", None)
    /\ UNCHANGED <<tables, job, retries, worker, stranded>>

\* A statement of an attempt fails.  When it is markDocumentsFailed, its error
\* is thrown from the catch clause in the place of the first one.
FailStatement(w) ==
    /\ \/ /\ wpc[w] \in {"claim", "read", "write"}
          /\ Fault("statement")
          /\ Throw(w, "transient")
          /\ UNCHANGED stranded
       \/ /\ wpc[w] = "mark"
          /\ Fault("mark")
          /\ End(w, "transient")
          /\ stranded' = IF made[w] + 1 >= Attempts THEN stranded \cup {DocOf(w)} ELSE stranded
    /\ UNCHANGED <<tables, lock, job, api, running, made>>

\* A worker process dies; its job stays active and nobody renews its lock.
CrashWorker(w) ==
    /\ wpc[w] # "idle"
    /\ Fault("crash")
    /\ Goto(w, "idle")
    /\ running' = [running EXCEPT ![w] = None]
    /\ job' = [id \in JobIds |-> IF job[id].owner = w THEN [job[id] EXCEPT !.owner = None]
                                                      ELSE job[id]]
    /\ UNCHANGED <<tables, lock, api, made, result, stranded>>

\* BullMQ puts an active job whose lock has expired back, or fails it without
\* calling processDocumentJob when it has stalled too often.
Stalled(id) ==
    LET over == job[id].stalls >= MaxStalled IN
    /\ job[id].state = "active"
    /\ job' = [job EXCEPT ![id].owner = None, ![id].stalls = @ + 1,
                         ![id].state = IF over THEN "failed" ELSE "waiting"]
    /\ stranded' = IF over THEN stranded \cup {id[1]} ELSE stranded
    /\ UNCHANGED <<tables, lock, api, worker>>

CheckStalled(id) == job[id].owner = None /\ Stalled(id) /\ UNCHANGED faults

\* A worker that is alive but late loses its lock, and does not notice.
LateRenewal(id) == job[id].owner # None /\ Stalled(id) /\ Fault("late")

-----------------------------------------------------------------------------
HandlerStep(h) == SelectExisting(h) \/ Enqueue(h) \/ CommitDelete(h)

WorkerStep(w) ==
    \/ \E id \in JobIds : Take(w, id)
    \/ Claim(w) \/ ReadFile(w) \/ Compute(w) \/ WriteChunks(w)
    \/ MarkFailed(w) \/ Finish(w)

Next ==
    \/ \E h \in Handlers :
          \/ \E f \in Files : Upload(h, f)
          \/ \E d \in Docs : Retry(h, d) \/ LockForDelete(h, d)
          \/ HandlerStep(h)
          \/ LoseEnqueue(h) \/ AbortDelete(h)
    \/ \E w \in Workers : WorkerStep(w) \/ FailStatement(w) \/ CrashWorker(w)
    \/ \E id \in JobIds : CheckStalled(id) \/ LateRenewal(id)

Spec == Init /\ [][Next]_vars

\* The event loop runs every continuation, and BullMQ hands out every waiting
\* job and checks for stalled ones.  Nobody has to send a request.
Fairness ==
    /\ \A h \in Handlers : WF_vars(HandlerStep(h))
    /\ \A w \in Workers : WF_vars(WorkerStep(w))
    /\ \A id \in JobIds : WF_vars(CheckStalled(id))

FairSpec == Spec /\ Fairness

-----------------------------------------------------------------------------
(* Properties *)

\* What a handler works on suits what it does next.
ArgOK ==
    \A h \in Handlers :
        /\ hpc[h] = "select" => arg[h] \in Files
        /\ hpc[h] = "enqueue" => arg[h] \in JobIds
        /\ hpc[h] = "delete" => arg[h] \in Docs

\* Every variable has the type the schema, the code and BullMQ give it; a job
\* in particular is never tried more than Attempts times.
TypeOK ==
    /\ status \in [Docs -> Status]
    /\ fileOf \in [Docs -> Files \cup {None}]
    /\ chunks \in [Docs -> BOOLEAN]
    /\ lock \in [Docs -> Handlers \cup {None}]
    /\ job \in [JobIds -> Job]
    /\ hpc \in [Handlers -> {"idle", "error", "select", "enqueue", "delete"}]
    /\ arg \in [Handlers -> Files \cup Docs \cup JobIds \cup {None}]
    /\ ArgOK
    /\ retries \in [Docs -> 0 .. MaxRetries]
    /\ wpc \in [Workers -> {"idle", "claim", "read", "compute", "write", "mark", "finish"}]
    /\ running \in [Workers -> JobIds \cup {None}]
    /\ \A w \in Workers : wpc[w] # "idle" => running[w] \in JobIds
    /\ made \in [Workers -> 0 .. Attempts]
    /\ result \in [Workers -> {"ok", "transient", "permanent"}]
    /\ stranded \subseteq Docs
    /\ faults \in 0 .. MaxFaults

\* What retrieval reads: a document has chunks exactly while it is ready, even
\* if a worker that has lost its job finishes after the one that took it over.
ChunksIffReady == \A d \in Docs : chunks[d] <=> status[d] = "ready"

\* README.md:31-32: the component implements the life cycle its readers rely
\* on.  No document is deleted while it is processing, although a delete
\* decides before it deletes; a late worker neither brings one back nor takes
\* it out of ready; chunks come and go in the commit that moves the status.
Lifecycle ==
    INSTANCE DocumentLifecycle WITH searchable <- {d \in Docs : chunks[d]}

ImplementsLifecycle == Lifecycle!Spec

Live(id) == job[id].state \in {"waiting", "active"}

\* A document on its way has a job, or a handler about to queue one, in every
\* interleaving of uploads, retries and two workers on one job, but for the
\* faults that stranded it.
WorkIsQueued ==
    \A d \in Docs :
        status[d] \in {"pending", "processing"} =>
            \/ \E n \in 0 .. MaxRetries : Live(<<d, n>>)
            \/ \E h \in Handlers : hpc[h] = "enqueue" /\ arg[h][1] = d
            \/ d \in stranded

\* A document on its way gets to ready or failed, or is deleted: after failed
\* statements, the death of a worker between any two steps, and a worker that
\* runs a job it has lost.  The code does not promise it of a document whose
\* job is never queued, stalls out, or cannot mark it failed: RetriedHasJob and
\* StuckIsMarkedFailed are about these, and do not hold.
DocumentsSettle ==
    \A d \in Docs :
        status[d] \in {"pending", "processing"}
            ~> status[d] \notin {"pending", "processing"} \/ d \in stranded

\* README.md:569 "A document stuck in `processing` (for example after a worker
\* crash) cannot be deleted or retried until its job exhausts its attempts and
\* marks it `failed`": once no job is left and no worker is at it, a document
\* is not in processing any more.
StuckIsMarkedFailed ==
    \A d \in Docs :
        status[d] = "processing" =>
            \/ \E n \in 0 .. MaxRetries : Live(<<d, n>>)
            \/ \E w \in Workers : wpc[w] # "idle" /\ DocOf(w) = d

\* README.md:32 "retried after a failure (`failed -> pending`, with a new
\* ingestion job)": a document that has been retried has a job.
RetriedHasJob ==
    \A d \in Docs :
        status[d] = "pending" /\ retries[d] > 0 =>
            \/ \E n \in 0 .. MaxRetries : Live(<<d, n>>)
            \/ \E h \in Handlers : hpc[h] = "enqueue" /\ arg[h][1] = d

\* README.md:30 "Re-uploading the same file returns the existing document with
\* `200`; a new upload returns `202`": without faults no request ends in 500.
UploadsAreAnswered == faults = 0 => \A h \in Handlers : hpc[h] # "error"
=============================================================================
