---------------------- MODULE DocumentIngestion_proofs ----------------------
(* What holds of DocumentIngestion for every value of its constants. *)
EXTENDS DocumentIngestion, TLAPS

\* A deleteDocument between its two statements holds the row lock, and its
\* document still is one it may delete.
Locking ==
    \A h \in Handlers :
        hpc[h] = "delete" =>
            /\ lock[arg[h]] = h
            /\ status[arg[h]] \in {"pending", "ready", "failed"}

\* A job that may run again has an attempt and a stall left, and only a job
\* that runs has an owner.
Counting ==
    \A id \in JobIds :
        /\ job[id].state \in {"none", "waiting", "active"} =>
              job[id].attempts < Attempts /\ job[id].stalls <= MaxStalled
        /\ job[id].owner # None => job[id].state = "active"

Inv == TypeOK /\ ChunksIffReady /\ Locking /\ Counting

\* README.md:31-32: the edges of a document's life.
Legal == {<<"absent", "pending">>, <<"pending", "processing">>,
          <<"processing", "ready">>, <<"pending", "failed">>,
          <<"processing", "failed">>, <<"failed", "pending">>,
          <<"pending", "deleted">>, <<"ready", "deleted">>, <<"failed", "deleted">>}

Changes(d) == status'[d] # status[d] => <<status[d], status'[d]>> \in Legal

-----------------------------------------------------------------------------
\* Init establishes the invariant: no job exists and nobody is at work.
LEMMA InitInv == Init => Inv
<1> SUFFICES ASSUME Init PROVE Inv
  OBVIOUS
<1> USE IngestionAssumption DEF Init
<1>1. NoJob \in Job
  BY DEF NoJob, Job
<1>2. TypeOK
  BY <1>1 DEF TypeOK, ArgOK, Status
<1>3. ChunksIffReady /\ Locking
  BY DEF ChunksIffReady, Locking
<1>4. Counting
  BY DEF Counting, NoJob
<1> QED
  BY <1>2, <1>3, <1>4 DEF Inv

\* A job's document is a document.
LEMMA JobDoc == \A id \in JobIds : id[1] \in Docs
  BY DEF JobIds

\* The default job id and those of the retries are job ids.
LEMMA DocJob == \A d \in Docs : \A n \in 0 .. MaxRetries : <<d, n>> \in JobIds
  BY DEF JobIds

\* What a handler carries between its statements.
LEMMA ArgTypes ==
  ASSUME TypeOK, NEW h \in Handlers
  PROVE  /\ hpc[h] = "select" => arg[h] \in Files
         /\ hpc[h] = "enqueue" => arg[h] \in JobIds
         /\ hpc[h] = "delete" => arg[h] \in Docs
<1>1. ArgOK
  BY DEF TypeOK
<1> QED
  BY <1>1 DEF ArgOK

\* The table of jobs.
LEMMA JobTypes == TypeOK => job \in [JobIds -> Job]
  BY DEF TypeOK, ArgOK

-----------------------------------------------------------------------------
(* Each operation preserves the invariant and moves documents legally. *)

\* createDocument up to the INSERT.
LEMMA UploadStep ==
  ASSUME Inv, NEW h \in Handlers, NEW f \in Files, Upload(h, f)
  PROVE  Inv' /\ \A d \in Docs : Changes(d)
<1> USE IngestionAssumption
         DEF Inv, Upload, Handle, Free, api, worker, tables
<1>1. CASE /\ Handle(h, "select", f)
            /\ UNCHANGED tables
  <2>1. TypeOK'
    BY <1>1 DEF TypeOK, ArgOK
  <2>2. ChunksIffReady' /\ Locking' /\ Counting' /\ \A d \in Docs : Changes(d)
    BY <1>1 DEF TypeOK, ArgOK, ChunksIffReady, Locking, Counting, Changes
  <2> QED
    BY <2>1, <2>2
<1>2. CASE /\ \E d \in Docs :
                  /\ status[d] = "absent"
                  /\ status' = [status EXCEPT ![d] = "pending"]
                  /\ fileOf' = [fileOf EXCEPT ![d] = f]
                  /\ Handle(h, "enqueue", <<d, 0>>)
            /\ UNCHANGED chunks
  <2>1. PICK d \in Docs :
           /\ status[d] = "absent"
           /\ status' = [status EXCEPT ![d] = "pending"]
           /\ fileOf' = [fileOf EXCEPT ![d] = f]
           /\ Handle(h, "enqueue", <<d, 0>>)
    BY <1>2
  <2>2. <<d, 0>> \in JobIds
    BY DocJob
  <2>3. TypeOK'
    BY <1>2, <2>1, <2>2 DEF TypeOK, ArgOK, Status
  <2>4. ChunksIffReady'
    BY <1>2, <2>1 DEF TypeOK, ArgOK, ChunksIffReady
  <2>5. Locking'
    BY <2>1 DEF TypeOK, ArgOK, Locking
  <2>6. \A e \in Docs : Changes(e)
    BY <2>1 DEF TypeOK, ArgOK, Changes, Legal
  <2>7. Counting'
    BY DEF Counting
  <2> QED
    BY <2>3, <2>4, <2>5, <2>6, <2>7
<1> QED
  BY <1>1, <1>2

\* createDocument, the SELECT after a conflict.
LEMMA SelectStep ==
  ASSUME Inv, NEW h \in Handlers, SelectExisting(h)
  PROVE  Inv' /\ \A d \in Docs : Changes(d)
<1> USE IngestionAssumption
         DEF Inv, SelectExisting, Handle, worker, tables
<1>1. TypeOK'
  BY DocJob DEF TypeOK, ArgOK
<1>2. ChunksIffReady' /\ Locking' /\ Counting' /\ \A d \in Docs : Changes(d)
  BY DEF TypeOK, ArgOK, ChunksIffReady, Locking, Counting, Changes
<1> QED
  BY <1>1, <1>2

\* retryDocument up to its COMMIT.
LEMMA RetryStep ==
  ASSUME Inv, NEW h \in Handlers, NEW d \in Docs, Retry(h, d)
  PROVE  Inv' /\ \A e \in Docs : Changes(e)
<1> USE IngestionAssumption
         DEF Inv, Retry, Handle, Free, worker
<1>1. TypeOK'
  BY DEF TypeOK, ArgOK, JobIds, Job, Status
<1>2. ChunksIffReady'
  BY DEF TypeOK, ArgOK, ChunksIffReady
<1>3. Locking'
  BY DEF TypeOK, ArgOK, Locking
<1>4. Counting'
  BY DEF Counting
<1>5. \A e \in Docs : Changes(e)
  BY DEF TypeOK, ArgOK, Changes, Legal
<1> QED
  BY <1>1, <1>2, <1>3, <1>4, <1>5

\* The call to BullMQ.
LEMMA EnqueueStep ==
  ASSUME Inv, NEW h \in Handlers, Enqueue(h)
  PROVE  Inv' /\ \A d \in Docs : Changes(d)
<1> USE IngestionAssumption, JobDoc
         DEF Inv, Enqueue, Handle, worker, tables
<1>1. arg[h] \in JobIds
  BY ArgTypes
<1>2. job' \in [JobIds -> Job]
  <2>1. job \in [JobIds -> Job]
    BY JobTypes
  <2>2. [job[arg[h]] EXCEPT !.state = "waiting"] \in Job
    BY <1>1, <2>1 DEF Job
  <2> QED
    BY <1>1, <2>1, <2>2
<1>3. TypeOK'
  BY <1>1, <1>2 DEF TypeOK, ArgOK
<1>4. ChunksIffReady' /\ Locking' /\ \A d \in Docs : Changes(d)
  BY DEF TypeOK, ArgOK, ChunksIffReady, Locking, Changes
<1>5. Counting'
  <2>1. job \in [JobIds -> Job]
    BY JobTypes
  <2> QED
    BY <1>1, <2>1 DEF Counting, Job
<1> QED
  BY <1>3, <1>4, <1>5

\* deleteDocument up to its lock.
LEMMA LockStep ==
  ASSUME Inv, NEW h \in Handlers, NEW d \in Docs, LockForDelete(h, d)
  PROVE  Inv' /\ \A e \in Docs : Changes(e)
<1> USE IngestionAssumption
         DEF Inv, LockForDelete, Handle, Free, Exists, worker, tables
<1>1. TypeOK'
  BY DEF TypeOK, ArgOK
<1>2. Locking'
  BY DEF TypeOK, ArgOK, Locking, Status
<1>3. ChunksIffReady' /\ Counting' /\ \A e \in Docs : Changes(e)
  BY DEF TypeOK, ArgOK, ChunksIffReady, Counting, Changes
<1> QED
  BY <1>1, <1>2, <1>3

\* deleteDocument, its COMMIT.
LEMMA DeleteStep ==
  ASSUME Inv, NEW h \in Handlers, CommitDelete(h)
  PROVE  Inv' /\ \A d \in Docs : Changes(d)
<1> USE IngestionAssumption
         DEF Inv, CommitDelete, Handle, worker
<1>1. /\ arg[h] \in Docs
      /\ lock[arg[h]] = h
      /\ status[arg[h]] \in {"pending", "ready", "failed"}
  BY ArgTypes DEF Locking
<1>2. TypeOK'
  <2>1. /\ status' \in [Docs -> Status]
        /\ fileOf' \in [Docs -> Files \cup {None}]
        /\ chunks' \in [Docs -> BOOLEAN]
        /\ lock' \in [Docs -> Handlers \cup {None}]
    BY <1>1 DEF TypeOK, ArgOK, Status
  <2>2. stranded' \subseteq Docs
    BY DEF TypeOK, ArgOK
  <2> QED
    BY <2>1, <2>2 DEF TypeOK, ArgOK
<1>3. ChunksIffReady'
  BY <1>1 DEF TypeOK, ArgOK, ChunksIffReady
<1>4. Locking'
  BY <1>1 DEF TypeOK, ArgOK, Locking
<1>5. \A d \in Docs : Changes(d)
  BY <1>1 DEF TypeOK, ArgOK, Changes, Legal
<1>6. Counting'
  BY DEF Counting
<1> QED
  BY <1>2, <1>3, <1>4, <1>5, <1>6

\* A delete that is rolled back.
LEMMA AbortStep ==
  ASSUME Inv, NEW h \in Handlers, AbortDelete(h)
  PROVE  Inv' /\ \A d \in Docs : Changes(d)
<1> USE IngestionAssumption
         DEF Inv, AbortDelete, Fault, Handle, worker, tables
<1>1. arg[h] \in Docs /\ lock[arg[h]] = h
  BY ArgTypes DEF Locking
<1>2. TypeOK'
  BY <1>1 DEF TypeOK, ArgOK
<1>3. Locking'
  BY <1>1 DEF TypeOK, ArgOK, Locking
<1>4. ChunksIffReady' /\ Counting' /\ \A d \in Docs : Changes(d)
  BY DEF ChunksIffReady, Counting, Changes
<1> QED
  BY <1>2, <1>3, <1>4

\* A process that dies between the commit and the call to BullMQ.
LEMMA LoseStep ==
  ASSUME Inv, NEW h \in Handlers, LoseEnqueue(h)
  PROVE  Inv' /\ \A d \in Docs : Changes(d)
<1> USE IngestionAssumption
         DEF Inv, LoseEnqueue, Fault, Handle, worker, tables
<1>1. arg[h] \in JobIds /\ arg[h][1] \in Docs
  BY ArgTypes, JobDoc
<1>2. TypeOK'
  BY <1>1 DEF TypeOK, ArgOK
<1>3. ChunksIffReady' /\ Locking' /\ Counting' /\ \A d \in Docs : Changes(d)
  BY DEF TypeOK, ArgOK, ChunksIffReady, Locking, Counting, Changes
<1> QED
  BY <1>2, <1>3

-----------------------------------------------------------------------------
(* Steps of a worker *)

\* A worker that is not idle has a job, and the job a document.
LEMMA RunningTypes ==
  ASSUME TypeOK, NEW w \in Workers, wpc[w] # "idle"
  PROVE  running[w] \in JobIds /\ DocOf(w) \in Docs
  BY JobDoc DEF TypeOK, ArgOK, DocOf

\* An attempt that ends leaves the types of its variables alone.
LEMMA ThrowTypes ==
  ASSUME TypeOK, NEW w \in Workers, wpc[w] # "idle",
         NEW e \in {"transient", "permanent"}, Throw(w, e)
  PROVE  /\ wpc' \in [Workers -> {"idle", "claim", "read", "compute", "write", "mark", "finish"}]
         /\ result' \in [Workers -> {"ok", "transient", "permanent"}]
         /\ \A v \in Workers : v # w => wpc'[v] = wpc[v]
  BY DEF TypeOK, ArgOK, Throw, End, Goto

\* BullMQ hands a job to a worker.
LEMMA TakeStep ==
  ASSUME Inv, NEW w \in Workers, NEW id \in JobIds, Take(w, id)
  PROVE  Inv' /\ \A d \in Docs : Changes(d)
<1> USE IngestionAssumption
         DEF Inv, Take, Goto, api, tables
<1>1. job \in [JobIds -> Job]
  BY JobTypes
<1>2. job' \in [JobIds -> Job] /\ job[id].attempts \in 0 .. Attempts
  BY <1>1 DEF Job
<1>3. TypeOK'
  BY <1>2 DEF TypeOK, ArgOK
<1>4. Counting'
  BY <1>1 DEF Counting, Job
<1>5. ChunksIffReady' /\ Locking' /\ \A d \in Docs : Changes(d)
  BY DEF ChunksIffReady, Locking, Changes
<1> QED
  BY <1>3, <1>4, <1>5

\* The UPDATE to processing.
LEMMA ClaimStep ==
  ASSUME Inv, NEW w \in Workers, Claim(w)
  PROVE  Inv' /\ \A d \in Docs : Changes(d)
<1> USE IngestionAssumption
         DEF Inv, Claim, Goto, End, api
<1>1. running[w] \in JobIds /\ DocOf(w) \in Docs
  BY RunningTypes
<1>2. TypeOK'
  BY <1>1 DEF TypeOK, ArgOK, Status
<1>3. ChunksIffReady'
  BY <1>1 DEF TypeOK, ArgOK, ChunksIffReady
<1>4. Locking'
  <2>1. \A h \in Handlers : hpc[h] = "delete" => arg[h] # DocOf(w)
    BY DEF Locking
  <2>2. \A d \in Docs : d # DocOf(w) => status'[d] = status[d]
    BY <1>1 DEF TypeOK
  <2> QED
    BY <2>1, <2>2, ArgTypes DEF Locking
<1>5. Counting'
  BY DEF Counting
<1>6. \A d \in Docs : Changes(d)
  BY <1>1 DEF TypeOK, ArgOK, Changes, Legal
<1> QED
  BY <1>2, <1>3, <1>4, <1>5, <1>6

\* Reading the file and computing chunks change no table.
LEMMA ReadStep ==
  ASSUME Inv, NEW w \in Workers, ReadFile(w) \/ Compute(w)
  PROVE  Inv' /\ \A d \in Docs : Changes(d)
<1> USE IngestionAssumption
         DEF Inv, ReadFile, Compute, api, tables
<1>1. running[w] \in JobIds
  BY RunningTypes
<1>2. CASE \E e \in {"transient", "permanent"} : Throw(w, e)
  <2>1. PICK e \in {"transient", "permanent"} : Throw(w, e)
    BY <1>2
  <2> QED
    BY <1>1, <2>1, ThrowTypes DEF TypeOK, ArgOK, ChunksIffReady, Locking, Counting, Changes
<1>3. CASE \E next \in {"compute", "write"} : Goto(w, next) /\ UNCHANGED result
  BY <1>1, <1>3 DEF Goto, TypeOK, ArgOK, ChunksIffReady, Locking, Counting, Changes
<1> QED
  BY <1>2, <1>3

\* The transaction that replaces the chunks and ends in ready.
LEMMA WriteStep ==
  ASSUME Inv, NEW w \in Workers, WriteChunks(w)
  PROVE  Inv' /\ \A d \in Docs : Changes(d)
<1> USE IngestionAssumption
         DEF Inv, WriteChunks, Goto, End, api
<1>1. running[w] \in JobIds /\ DocOf(w) \in Docs
  BY RunningTypes
<1>2. TypeOK'
  BY <1>1 DEF TypeOK, ArgOK, Status
<1>3. ChunksIffReady'
  BY <1>1 DEF TypeOK, ArgOK, ChunksIffReady
<1>4. Locking'
  <2>1. \A h \in Handlers : hpc[h] = "delete" => arg[h] # DocOf(w)
    BY DEF Locking
  <2>2. \A d \in Docs : d # DocOf(w) => status'[d] = status[d]
    BY <1>1 DEF TypeOK
  <2> QED
    BY <2>1, <2>2, ArgTypes DEF Locking
<1>5. Counting'
  BY DEF Counting
<1>6. \A d \in Docs : Changes(d)
  BY <1>1 DEF TypeOK, ArgOK, Changes, Legal
<1> QED
  BY <1>2, <1>3, <1>4, <1>5, <1>6

\* markDocumentsFailed.
LEMMA MarkStep ==
  ASSUME Inv, NEW w \in Workers, MarkFailed(w)
  PROVE  Inv' /\ \A d \in Docs : Changes(d)
<1> USE IngestionAssumption
         DEF Inv, MarkFailed, Goto, api
<1>1. running[w] \in JobIds /\ DocOf(w) \in Docs
  BY RunningTypes
<1>2. TypeOK'
  BY <1>1 DEF TypeOK, ArgOK, Status
<1>3. ChunksIffReady'
  BY <1>1 DEF TypeOK, ArgOK, ChunksIffReady
<1>4. Locking'
  <2>1. \A h \in Handlers : hpc[h] = "delete" => arg[h] # DocOf(w)
    BY DEF Locking
  <2>2. \A d \in Docs : d # DocOf(w) => status'[d] = status[d]
    BY <1>1 DEF TypeOK
  <2> QED
    BY <2>1, <2>2, ArgTypes DEF Locking
<1>5. Counting'
  BY DEF Counting
<1>6. \A d \in Docs : Changes(d)
  BY <1>1 DEF TypeOK, ArgOK, Changes, Legal
<1> QED
  BY <1>2, <1>3, <1>4, <1>5, <1>6

\* The worker reports to BullMQ.
LEMMA FinishStep ==
  ASSUME Inv, NEW w \in Workers, Finish(w)
  PROVE  Inv' /\ \A d \in Docs : Changes(d)
<1> USE IngestionAssumption
         DEF Inv, Finish, Goto, api, tables
<1> DEFINE id == running[w]
<1>1. id \in JobIds
  BY RunningTypes
<1>2. job \in [JobIds -> Job] /\ result[w] \in {"ok", "transient", "permanent"}
  BY DEF TypeOK, ArgOK
<1>3. CASE UNCHANGED job
  <2>1. TypeOK'
    BY <1>1, <1>3 DEF TypeOK, ArgOK
  <2> QED
    BY <1>3, <2>1 DEF ChunksIffReady, Locking, Counting, Changes
<1>4. CASE /\ job[id].owner = w
            /\ result[w] = "ok"
            /\ job' = [job EXCEPT ![id].owner = None, ![id].state = "completed"]
  <2>1. job' \in [JobIds -> Job]
    BY <1>1, <1>2, <1>4 DEF Job
  <2>2. TypeOK'
    BY <2>1 DEF TypeOK, ArgOK
  <2>3. Counting'
    BY <1>1, <1>2, <1>4 DEF Counting, Job
  <2>4. ChunksIffReady' /\ Locking' /\ \A d \in Docs : Changes(d)
    BY DEF ChunksIffReady, Locking, Changes
  <2> QED
    BY <2>2, <2>3, <2>4
<1>5. ASSUME job[id].owner = w,
             NEW s \in {"waiting", "failed"},
             s = "waiting" => job[id].attempts + 1 < Attempts,
             job' = [job EXCEPT ![id].owner = None, ![id].attempts = @ + 1,
                                ![id].state = s]
      PROVE  Inv' /\ \A d \in Docs : Changes(d)
  <2>1. /\ job[id].attempts \in Nat /\ job[id].attempts < Attempts
        /\ job[id].stalls <= MaxStalled
    BY <1>1, <1>2, <1>5 DEF Counting, Job
  <2>2. /\ job'[id].state = s /\ job'[id].attempts = job[id].attempts + 1
        /\ job'[id].stalls = job[id].stalls /\ job'[id].owner = None
    BY <1>1, <1>2, <1>5 DEF Job
  <2>3. \A k \in JobIds : k # id => job'[k] = job[k]
    BY <1>1, <1>2, <1>5
  <2>4. job' \in [JobIds -> Job]
    BY <1>1, <1>2, <1>5, <2>1 DEF Job
  <2>5. TypeOK'
    BY <2>4 DEF TypeOK, ArgOK
  <2>6. Counting'
    <3>1. job[id].attempts + 1 < Attempts \/ job'[id].state = "failed"
      BY <1>5, <2>2
    <3> HIDE DEF id
    <3> QED
      BY <2>1, <2>2, <2>3, <3>1 DEF Counting
  <2>7. ChunksIffReady' /\ Locking' /\ \A d \in Docs : Changes(d)
    BY DEF ChunksIffReady, Locking, Changes
  <2> QED
    BY <2>5, <2>6, <2>7
<1>6. CASE /\ job[id].owner = w
           /\ result[w] # "ok"
           /\ job' = [job EXCEPT ![id].owner = None, ![id].attempts = @ + 1,
                       ![id].state = IF result[w] = "permanent" \/ job[id].attempts + 1 >= Attempts
                                     THEN "failed" ELSE "waiting"]
  <2>1. CASE result[w] = "permanent" \/ job[id].attempts + 1 >= Attempts
    BY <1>5, <1>6, <2>1
  <2>2. CASE ~(result[w] = "permanent" \/ job[id].attempts + 1 >= Attempts)
    <3>1. job[id].attempts + 1 < Attempts
      BY <1>1, <1>2, <2>2 DEF Job
    <3> QED
      BY <1>5, <1>6, <2>2, <3>1
  <2> QED
    BY <2>1, <2>2
<1> QED
  BY <1>3, <1>4, <1>6

\* A statement of a worker fails.
LEMMA FailStep ==
  ASSUME Inv, NEW w \in Workers, FailStatement(w)
  PROVE  Inv' /\ \A d \in Docs : Changes(d)
<1> USE IngestionAssumption
         DEF Inv, FailStatement, Fault, api, tables
<1>1. wpc[w] # "idle" /\ running[w] \in JobIds /\ DocOf(w) \in Docs
  BY RunningTypes
<1>2. CASE Throw(w, "transient") /\ UNCHANGED stranded
  BY <1>1, <1>2, ThrowTypes DEF TypeOK, ArgOK, ChunksIffReady, Locking, Counting, Changes
<1>3. CASE /\ End(w, "transient")
            /\ stranded' = IF made[w] + 1 >= Attempts THEN stranded \cup {DocOf(w)} ELSE stranded
  BY <1>1, <1>3 DEF End, Goto, TypeOK, ArgOK, ChunksIffReady, Locking, Counting, Changes
<1> QED
  BY <1>2, <1>3

\* A worker dies.
LEMMA CrashStep ==
  ASSUME Inv, NEW w \in Workers, CrashWorker(w)
  PROVE  Inv' /\ \A d \in Docs : Changes(d)
<1> USE IngestionAssumption
         DEF Inv, CrashWorker, Fault, Goto, api, tables
<1>1. job \in [JobIds -> Job]
  BY JobTypes
<1>2. job' \in [JobIds -> Job]
  BY <1>1 DEF Job
<1>3. TypeOK'
  BY <1>2 DEF TypeOK, ArgOK
<1>4. Counting'
  BY <1>1 DEF Counting, Job
<1>5. ChunksIffReady' /\ Locking' /\ \A d \in Docs : Changes(d)
  BY DEF ChunksIffReady, Locking, Changes
<1> QED
  BY <1>3, <1>4, <1>5

\* BullMQ takes a job from its owner.
LEMMA StalledStep ==
  ASSUME Inv, NEW id \in JobIds, CheckStalled(id) \/ LateRenewal(id)
  PROVE  Inv' /\ \A d \in Docs : Changes(d)
<1> USE IngestionAssumption
         DEF Inv, CheckStalled, LateRenewal, Stalled, Fault, api, tables, worker
<1>1. job \in [JobIds -> Job] /\ id[1] \in Docs
  BY JobTypes, JobDoc
<1>2. job[id].stalls <= MaxStalled /\ job[id].stalls \in Nat
  BY <1>1 DEF Counting, Job
<1> DEFINE s == IF job[id].stalls >= MaxStalled THEN "failed" ELSE "waiting"
<1>3. /\ job'[id].state = s /\ job'[id].attempts = job[id].attempts
      /\ job'[id].stalls = job[id].stalls + 1 /\ job'[id].owner = None
      /\ \A k \in JobIds : k # id => job'[k] = job[k]
  BY <1>1 DEF Job
<1>4. TypeOK'
  <2>1. job' \in [JobIds -> Job]
    BY <1>1, <1>2 DEF Job
  <2> QED
    BY <1>1, <2>1 DEF TypeOK, ArgOK
<1>5. Counting'
  <2>1. s = "waiting" => job[id].stalls + 1 <= MaxStalled
    BY <1>2
  <2>2. job[id].attempts < Attempts
    BY DEF Counting
  <2> QED
    BY <1>3, <2>1, <2>2 DEF Counting
<1>6. ChunksIffReady' /\ Locking' /\ \A d \in Docs : Changes(d)
  BY DEF ChunksIffReady, Locking, Changes
<1> QED
  BY <1>4, <1>5, <1>6

-----------------------------------------------------------------------------
\* A stutter.
LEMMA StutterStep ==
  ASSUME Inv, UNCHANGED vars
  PROVE  Inv' /\ \A d \in Docs : Changes(d)
  BY DEF Inv, vars, tables, api, worker, TypeOK, ArgOK, ChunksIffReady, Locking, Counting, Changes

\* Every step keeps the invariant and moves each document along an edge of its life.
LEMMA NextStep ==
  ASSUME Inv, [Next]_vars
  PROVE  Inv' /\ \A d \in Docs : Changes(d)
<1>1. ASSUME NEW h \in Handlers, NEW f \in Files, Upload(h, f)
      PROVE  Inv' /\ \A d \in Docs : Changes(d)
  BY <1>1, UploadStep
<1>2. ASSUME NEW h \in Handlers, NEW d \in Docs, Retry(h, d) \/ LockForDelete(h, d)
      PROVE  Inv' /\ \A e \in Docs : Changes(e)
  BY <1>2, RetryStep, LockStep
<1>3. ASSUME NEW h \in Handlers, HandlerStep(h) \/ LoseEnqueue(h) \/ AbortDelete(h)
      PROVE  Inv' /\ \A d \in Docs : Changes(d)
  BY <1>3, SelectStep, EnqueueStep, DeleteStep, LoseStep, AbortStep DEF HandlerStep
<1>4. ASSUME NEW w \in Workers, WorkerStep(w)
      PROVE  Inv' /\ \A d \in Docs : Changes(d)
  BY <1>4, TakeStep, ClaimStep, ReadStep, WriteStep, MarkStep, FinishStep DEF WorkerStep
<1>5. ASSUME NEW w \in Workers, FailStatement(w) \/ CrashWorker(w)
      PROVE  Inv' /\ \A d \in Docs : Changes(d)
  BY <1>5, FailStep, CrashStep
<1>6. ASSUME NEW id \in JobIds, CheckStalled(id) \/ LateRenewal(id)
      PROVE  Inv' /\ \A d \in Docs : Changes(d)
  BY <1>6, StalledStep
<1>7. CASE UNCHANGED vars
  BY <1>7, StutterStep
<1> QED
  BY <1>1, <1>2, <1>3, <1>4, <1>5, <1>6, <1>7 DEF Next

\* The invariant of the queue and of the row locks holds throughout.
THEOREM Invariance == Spec => []Inv
<1>1. Inv /\ [Next]_vars => Inv'
  BY NextStep
<1> QED
  BY InitInv, <1>1, PTL DEF Spec

\* Whatever the number of documents, requests, workers, attempts and faults,
\* every variable keeps its type, and no job is tried too often.
THEOREM TypeCorrect == Spec => []TypeOK
<1>1. Inv => TypeOK
  BY DEF Inv
<1> QED
  BY Invariance, <1>1, PTL

\* Retrieval never finds a ready document without chunks, or the chunks of one
\* that is not ready.
THEOREM ReadyMeansChunks == Spec => []ChunksIffReady
<1>1. Inv => ChunksIffReady
  BY DEF Inv
<1> QED
  BY Invariance, <1>1, PTL

-----------------------------------------------------------------------------
(* The refinement *)

Found == {d \in Docs : chunks[d]}

\* A step moves at most one document.
LEMMA OneMove ==
  ASSUME Inv, [Next]_vars
  PROVE  \/ status' = status
         \/ \E d \in Docs : status' = [status EXCEPT ![d] = status'[d]]
<1> USE DEF tables, worker, api
<1>1. ASSUME NEW h \in Handlers, NEW f \in Files, Upload(h, f)
      PROVE  \/ status' = status
             \/ \E d \in Docs : status' = [status EXCEPT ![d] = status'[d]]
  BY <1>1, ZenonT(60) DEF Upload, Inv, TypeOK
<1>2. ASSUME NEW h \in Handlers, NEW d \in Docs, Retry(h, d)
      PROVE  status' = [status EXCEPT ![d] = status'[d]]
  BY <1>2 DEF Retry, Inv, TypeOK
<1>3. ASSUME NEW h \in Handlers, NEW d \in Docs, LockForDelete(h, d)
      PROVE  status' = status
  BY <1>3 DEF LockForDelete
<1>4. ASSUME NEW h \in Handlers,
             SelectExisting(h) \/ Enqueue(h) \/ LoseEnqueue(h) \/ AbortDelete(h)
      PROVE  status' = status
  BY <1>4 DEF SelectExisting, Enqueue, LoseEnqueue, AbortDelete
<1>5. ASSUME NEW h \in Handlers, CommitDelete(h)
      PROVE  \E d \in Docs : status' = [status EXCEPT ![d] = status'[d]]
  <2>1. arg[h] \in Docs
    BY <1>5, ArgTypes DEF Inv, CommitDelete
  <2> QED
    BY <1>5, <2>1 DEF CommitDelete, Inv, TypeOK
<1>6. ASSUME NEW w \in Workers, Claim(w) \/ WriteChunks(w) \/ MarkFailed(w)
      PROVE  \/ status' = status
             \/ \E d \in Docs : status' = [status EXCEPT ![d] = status'[d]]
  <2>1. DocOf(w) \in Docs
    BY <1>6, RunningTypes DEF Inv, Claim, WriteChunks, MarkFailed
  <2>2. CASE Claim(w)
    BY <2>1, <2>2 DEF Claim, Inv, TypeOK
  <2>3. CASE WriteChunks(w)
    BY <2>1, <2>3 DEF WriteChunks, Inv, TypeOK
  <2>4. CASE MarkFailed(w)
    BY <2>1, <2>4 DEF MarkFailed, Inv, TypeOK
  <2> QED
    BY <1>6, <2>2, <2>3, <2>4
<1>7. ASSUME NEW w \in Workers,
             \/ \E id \in JobIds : Take(w, id)
             \/ ReadFile(w) \/ Compute(w) \/ Finish(w)
             \/ FailStatement(w) \/ CrashWorker(w)
      PROVE  status' = status
  BY <1>7 DEF Take, ReadFile, Compute, Finish, FailStatement, CrashWorker
<1>8. ASSUME NEW id \in JobIds, CheckStalled(id) \/ LateRenewal(id)
      PROVE  status' = status
  BY <1>8 DEF CheckStalled, LateRenewal, Stalled
<1>9. CASE UNCHANGED vars
  BY <1>9 DEF vars
<1> QED
  BY <1>1, <1>2, <1>3, <1>4, <1>5, <1>6, <1>7, <1>8, <1>9
  DEF Next, HandlerStep, WorkerStep

\* Every step of the queue, the handlers and the workers is a step of the
\* life cycle or changes nothing its readers see.
LEMMA StepImplements ==
  ASSUME Inv, [Next]_vars
  PROVE  Lifecycle!Next \/ UNCHANGED <<status, Found>>
<1>1. Inv' /\ \A d \in Docs : Changes(d)
  BY NextStep
<1>2. /\ Found = {d \in Docs : status[d] = "ready"}
      /\ Found' = {d \in Docs : status'[d] = "ready"}
  BY <1>1 DEF Inv, ChunksIffReady, Found
<1>3. status \in [Docs -> Status]
  BY DEF Inv, TypeOK
<1>4. CASE status' = status
  BY <1>2, <1>4
<1>5. ASSUME NEW d \in Docs, status' = [status EXCEPT ![d] = status'[d]], status' # status
      PROVE  Lifecycle!DocumentStep(d)
  <2>1. status'[d] # status[d] /\ <<status[d], status'[d]>> \in Legal
    BY <1>1, <1>3, <1>5 DEF Changes
  <2>2. \A e \in Docs : e # d => status'[e] = status[e]
    BY <1>3, <1>5
  <2>3. CASE status'[d] = "ready"
    <3>1. status[d] = "processing"
      BY <2>1, <2>3 DEF Legal
    <3>2. Found' = Found \cup {d}
      BY <1>2, <2>2, <2>3
    <3> QED
      BY <1>5, <2>3, <3>1, <3>2
      DEF Lifecycle!DocumentStep, Lifecycle!Succeed, Lifecycle!Move, Found
  <2>4. CASE status'[d] = "deleted"
    <3>1. status[d] \in {"pending", "ready", "failed"}
      BY <2>1, <2>4 DEF Legal
    <3>2. Found' = Found \ {d}
      BY <1>2, <2>2, <2>4
    <3> QED
      BY <1>5, <2>4, <3>1, <3>2
      DEF Lifecycle!DocumentStep, Lifecycle!Delete, Lifecycle!Move, Found
  <2>5. CASE status'[d] \notin {"ready", "deleted"}
    <3>1. <<status[d], status'[d]>> \in
             {<<"absent", "pending">>, <<"pending", "processing">>, <<"pending", "failed">>,
              <<"processing", "failed">>, <<"failed", "pending">>}
      BY <2>1, <2>5 DEF Legal
    <3>2. Found' = Found
      BY <1>2, <2>2, <2>5, <3>1
    <3> QED
      BY <1>5, <3>1, <3>2
      DEF Lifecycle!DocumentStep, Lifecycle!Upload, Lifecycle!Claim, Lifecycle!Fail,
          Lifecycle!Retry, Lifecycle!Move, Found
  <2> QED
    BY <2>3, <2>4, <2>5
<1> QED
  BY <1>4, <1>5, OneMove DEF Lifecycle!Next

\* For any number of handlers, workers, retries and faults, the component
\* keeps the promise of DocumentLifecycle: no delete, retry or late worker
\* moves a document along an edge its life does not have, and what retrieval
\* finds changes in the same commit.
THEOREM LifecycleImplemented == Spec => ImplementsLifecycle
<1>1. Init => Lifecycle!Init
  BY DEF Init, Lifecycle!Init
<1>2. Inv /\ [Next]_vars => [Lifecycle!Next]_Lifecycle!vars
  BY StepImplements DEF Lifecycle!vars, Found
<1> QED
  BY Invariance, <1>1, <1>2, PTL DEF Spec, ImplementsLifecycle, Lifecycle!Spec

-----------------------------------------------------------------------------
(* The queue: no document is left without work *)

\* w is on its way out, and its job will not run again: the attempt succeeded,
\* failed for good, or was the last.
Spent(w) ==
    wpc[w] = "finish" /\ (result[w] # "transient" \/ made[w] + 1 >= Attempts)

Claimed(w) == wpc[w] \in {"read", "compute", "write"}

\* Job id will still do something about its document, whose status is s: it is
\* about to be queued, waits, or is active and its owner, if it has one, is not
\* spent.  A document that is pending waits for its claim, or for a worker
\* that is about to mark it.
Hope(id, s) ==
    \/ job[id].state = "none" /\ \E h \in Handlers : hpc[h] = "enqueue" /\ arg[h] = id
    \/ job[id].state = "waiting"
    \/ /\ job[id].state = "active"
       /\ \A w \in Workers : job[id].owner = w =>
              ~Spent(w) /\ (s = "pending" => ~Claimed(w))

\* The owner of a job runs it, at the attempt the job is at.
OwnerRuns ==
    \A id \in JobIds : \A w \in Workers : job[id].owner = w =>
        wpc[w] # "idle" /\ running[w] = id /\ made[w] = job[id].attempts

\* Jobs, and calls that are to queue them, belong to documents that have been
\* uploaded, and the job of a retry to come does not exist yet.
JobsAreKnown ==
    /\ \A id \in JobIds :
          job[id].state # "none" => status[id[1]] # "absent" /\ id[2] <= retries[id[1]]
    /\ \A h \in Handlers :
          hpc[h] = "enqueue" => status[arg[h][1]] # "absent" /\ arg[h][2] <= retries[arg[h][1]]

Hopeful ==
    \A d \in Docs \ stranded :
        status[d] \in {"pending", "processing"} =>
            \E n \in 0 .. MaxRetries : Hope(<<d, n>>, status[d])

QueueInv == Inv /\ OwnerRuns /\ JobsAreKnown /\ Hopeful

-----------------------------------------------------------------------------
\* Nothing has been uploaded.
LEMMA QueueInit == Init => QueueInv
<1> SUFFICES ASSUME Init PROVE QueueInv
  OBVIOUS
<1>1. Inv
  BY InitInv
<1>2. OwnerRuns /\ JobsAreKnown /\ Hopeful
  BY IngestionAssumption DEF Init, NoJob, OwnerRuns, JobsAreKnown, Hopeful
<1> QED
  BY <1>1, <1>2 DEF QueueInv

\* A document's jobs, one by one.
LEMMA DocJobs == \A d \in Docs, n \in 0 .. MaxRetries :
    <<d, n>> \in JobIds /\ <<d, n>>[1] = d /\ <<d, n>>[2] = n
BY DEF JobIds

\* Hope outlives whatever happens to other jobs, handlers and workers.
LEMMA HopeKept ==
  ASSUME NEW id \in JobIds, NEW s, NEW t, Hope(id, s), job'[id] = job[id],
         t = "pending" => s = "pending",
         \A h \in Handlers : hpc[h] = "enqueue" /\ arg[h] = id =>
                                hpc'[h] = "enqueue" /\ arg'[h] = id,
         \A w \in Workers : job[id].owner = w =>
                                wpc'[w] = wpc[w] /\ result'[w] = result[w] /\ made'[w] = made[w]
  PROVE  Hope(id, t)'
BY DEF Hope, Spent, Claimed

-----------------------------------------------------------------------------
(* Steps of handlers *)

\* A handler that is not about to queue a job leaves all hope alone.
LEMMA HandlerKeepsHope ==
  ASSUME QueueInv, NEW h \in Handlers,
         hpc[h] # "enqueue",
         \A g \in Handlers : g # h => hpc'[g] = hpc[g] /\ arg'[g] = arg[g],
         UNCHANGED <<job, worker>>,
         NEW id \in JobIds, NEW s, Hope(id, s)
  PROVE  Hope(id, s)'
BY HopeKept DEF worker

\* An upload brings a document with a job to be queued.
LEMMA UploadQueues ==
  ASSUME QueueInv, NEW h \in Handlers, NEW f \in Files, Upload(h, f)
  PROVE  OwnerRuns' /\ JobsAreKnown' /\ Hopeful'
<1> USE IngestionAssumption DEF QueueInv
<1>1. TypeOK
  BY DEF Inv
<1>2. hpc[h] # "enqueue" /\ UNCHANGED <<job, retries, worker, stranded>>
  BY DEF Upload, Free, tables, worker
<1>3. \A g \in Handlers : g # h => hpc'[g] = hpc[g] /\ arg'[g] = arg[g]
  BY <1>1 DEF Upload, Handle, TypeOK
<1>4. OwnerRuns'
  BY <1>2 DEF OwnerRuns, worker
<1>5. CASE Handle(h, "select", f) /\ UNCHANGED tables
  <2>1. hpc'[h] = "select"
    BY <1>1, <1>5 DEF Handle, TypeOK
  <2>2. JobsAreKnown'
    BY <1>2, <1>3, <1>5, <2>1 DEF JobsAreKnown, tables
  <2>3. Hopeful'
    BY <1>2, <1>3, <1>5, DocJobs, HandlerKeepsHope DEF Hopeful, tables
  <2> QED
    BY <1>4, <2>2, <2>3
<1>6. ASSUME NEW d \in Docs, status[d] = "absent",
             status' = [status EXCEPT ![d] = "pending"],
             Handle(h, "enqueue", <<d, 0>>)
      PROVE  OwnerRuns' /\ JobsAreKnown' /\ Hopeful'
  <2>1. /\ status'[d] = "pending" /\ \A e \in Docs : e # d => status'[e] = status[e]
        /\ hpc'[h] = "enqueue" /\ arg'[h] = <<d, 0>>
        /\ retries[d] \in 0 .. MaxRetries
    BY <1>1, <1>6 DEF Handle, TypeOK
  <2>2. JobsAreKnown'
    <3>1. \A id \in JobIds :
             job'[id].state # "none" => status'[id[1]] # "absent" /\ id[2] <= retries'[id[1]]
      BY <1>2, <1>6, <2>1, JobDoc DEF JobsAreKnown
    <3>2. ASSUME NEW g \in Handlers, hpc'[g] = "enqueue"
          PROVE  status'[arg'[g][1]] # "absent" /\ arg'[g][2] <= retries'[arg'[g][1]]
      <4>1. CASE g = h
        BY <1>2, <2>1, <4>1
      <4>2. CASE g # h
        <5>1. arg[g] \in JobIds /\ hpc[g] = "enqueue"
          BY <1>1, <1>3, <3>2, <4>2, ArgTypes
        <5> QED
          BY <1>2, <1>3, <2>1, <4>2, <5>1, JobDoc DEF JobsAreKnown
      <4> QED
        BY <4>1, <4>2
    <3> QED
      BY <3>1, <3>2 DEF JobsAreKnown
  <2>3. Hope(<<d, 0>>, "pending")'
    <3>1. <<d, 0>> \in JobIds /\ job[<<d, 0>>].state = "none"
      BY <1>6, DocJobs DEF JobsAreKnown
    <3> QED
      BY <1>2, <2>1, <3>1 DEF Hope
  <2>4. Hopeful'
    <3> SUFFICES ASSUME NEW e \in Docs \ stranded', status'[e] \in {"pending", "processing"}
                 PROVE  \E n \in 0 .. MaxRetries : Hope(<<e, n>>, status[e])'
      BY DEF Hopeful
    <3>1. CASE e = d
      BY <2>1, <2>3, <3>1 DEF Hope
    <3>2. CASE e # d
      <4>1. PICK n \in 0 .. MaxRetries : Hope(<<e, n>>, status[e])
        BY <1>2, <2>1, <3>2 DEF Hopeful
      <4> DEFINE s == status[e]
      <4>2. s' = s
        BY <2>1, <3>2
      <4>3. Hope(<<e, n>>, s)'
        BY <1>2, <1>3, <4>1, <4>2, DocJobs, HopeKept DEF worker
      <4> QED
        BY <4>3
    <3> QED
      BY <3>1, <3>2
  <2> QED
    BY <1>4, <2>2, <2>4
<1> QED
  BY <1>5, <1>6 DEF Upload

\* The handlers that queue nothing, or queue a document again that is pending
\* already, and move no document but to delete it.
LEMMA QuietHandler ==
  ASSUME QueueInv, NEW h \in Handlers,
         SelectExisting(h) \/ CommitDelete(h) \/ AbortDelete(h) \/ \E d \in Docs : LockForDelete(h, d)
  PROVE  OwnerRuns' /\ JobsAreKnown' /\ Hopeful'
<1> USE IngestionAssumption DEF QueueInv
<1>1. TypeOK
  BY DEF Inv
<1>2. hpc[h] # "enqueue" /\ UNCHANGED <<job, retries, worker>>
  BY DEF SelectExisting, CommitDelete, AbortDelete, LockForDelete, Free, worker
<1>3. \A g \in Handlers : g # h => hpc'[g] = hpc[g] /\ arg'[g] = arg[g]
  BY <1>1 DEF SelectExisting, CommitDelete, AbortDelete, LockForDelete, Handle, TypeOK
<1>4. /\ \A d \in Docs : status'[d] = status[d] \/ status'[d] = "deleted"
      /\ \A d \in Docs : d \in stranded /\ d \notin stranded' => status'[d] = "deleted"
  <2>1. CASE CommitDelete(h)
    <3>1. arg[h] \in Docs
      BY <1>1, <2>1, ArgTypes DEF CommitDelete
    <3> QED
      BY <1>1, <2>1, <3>1 DEF CommitDelete, TypeOK
  <2>2. CASE UNCHANGED <<status, stranded>>
    BY <2>2
  <2> QED
    BY <2>1, <2>2 DEF SelectExisting, AbortDelete, LockForDelete, tables
<1>5. hpc'[h] = "enqueue" =>
         \E d \in Docs : status[d] # "absent" /\ UNCHANGED status /\ arg'[h] = <<d, 0>>
  BY <1>1 DEF SelectExisting, CommitDelete, AbortDelete, LockForDelete, Handle, TypeOK, tables
<1>6. OwnerRuns'
  BY <1>2 DEF OwnerRuns, worker
<1>7. JobsAreKnown'
  <2>1. \A id \in JobIds :
           job'[id].state # "none" => status'[id[1]] # "absent" /\ id[2] <= retries'[id[1]]
    BY <1>2, <1>4, JobDoc DEF JobsAreKnown
  <2>2. ASSUME NEW g \in Handlers, hpc'[g] = "enqueue"
        PROVE  status'[arg'[g][1]] # "absent" /\ arg'[g][2] <= retries'[arg'[g][1]]
    <3>1. CASE g = h
      <4>1. \A d \in Docs : retries[d] \in 0 .. MaxRetries
        BY <1>1 DEF TypeOK
      <4> QED
        BY <1>2, <1>5, <2>2, <3>1, <4>1
    <3>2. CASE g # h
      <4>1. arg[g] \in JobIds /\ hpc[g] = "enqueue"
        BY <1>1, <1>3, <2>2, <3>2, ArgTypes
      <4> QED
        BY <1>2, <1>3, <1>4, <3>2, <4>1, JobDoc DEF JobsAreKnown
    <3> QED
      BY <3>1, <3>2
  <2> QED
    BY <2>1, <2>2 DEF JobsAreKnown
<1>8. Hopeful'
  <2> SUFFICES ASSUME NEW e \in Docs \ stranded', status'[e] \in {"pending", "processing"}
               PROVE  \E n \in 0 .. MaxRetries : Hope(<<e, n>>, status[e])'
    BY DEF Hopeful
  <2>1. status'[e] = status[e] /\ e \notin stranded
    BY <1>4
  <2>2. PICK n \in 0 .. MaxRetries : Hope(<<e, n>>, status[e])
    BY <2>1 DEF Hopeful
  <2> DEFINE s == status[e]
  <2>3. s' = s
    BY <2>1
  <2>4. Hope(<<e, n>>, s)'
    BY <1>2, <1>3, <2>2, <2>3, DocJobs, HopeKept DEF worker
  <2> QED
    BY <2>4
<1> QED
  BY <1>6, <1>7, <1>8

\* A retry brings a job to be queued under an id of its own.
LEMMA RetryQueues ==
  ASSUME QueueInv, NEW h \in Handlers, NEW d \in Docs, Retry(h, d)
  PROVE  OwnerRuns' /\ JobsAreKnown' /\ Hopeful'
<1> USE IngestionAssumption DEF QueueInv
<1>1. TypeOK
  BY DEF Inv
<1>2. hpc[h] # "enqueue" /\ UNCHANGED <<job, worker, stranded>>
  BY DEF Retry, Free, worker
<1>3. PICK n \in 0 .. MaxRetries :
      /\ n = retries[d] + 1
      /\ status[d] = "failed" /\ status'[d] = "pending"
      /\ \A e \in Docs : e # d => status'[e] = status[e] /\ retries'[e] = retries[e]
      /\ retries'[d] = n
      /\ hpc'[h] = "enqueue" /\ arg'[h] = <<d, n>>
      /\ \A g \in Handlers : g # h => hpc'[g] = hpc[g] /\ arg'[g] = arg[g]
      /\ \A e \in Docs : retries[e] \in 0 .. MaxRetries
  BY <1>1 DEF Retry, Handle, TypeOK
<1>4. \A e \in Docs : retries[e] <= retries'[e]
  BY <1>3
<1>5. n > retries[d]
  BY <1>3
<1>6. OwnerRuns'
  BY <1>2 DEF OwnerRuns, worker
<1>7. JobsAreKnown'
  <2>1. ASSUME NEW id \in JobIds, job'[id].state # "none"
        PROVE  status'[id[1]] # "absent" /\ id[2] <= retries'[id[1]]
    <3>1. id[1] \in Docs /\ id[2] \in 0 .. MaxRetries
      BY DEF JobIds
    <3>2. status[id[1]] # "absent" /\ id[2] <= retries[id[1]]
      BY <1>2, <2>1 DEF JobsAreKnown
    <3> QED
      BY <1>3, <1>4, <3>1, <3>2
  <2>2. ASSUME NEW g \in Handlers, hpc'[g] = "enqueue"
        PROVE  status'[arg'[g][1]] # "absent" /\ arg'[g][2] <= retries'[arg'[g][1]]
    <3>1. CASE g = h
      BY <1>3, <3>1
    <3>2. CASE g # h
      <4>1. arg[g] \in JobIds /\ hpc[g] = "enqueue" /\ arg'[g] = arg[g]
        BY <1>1, <1>3, <2>2, <3>2, ArgTypes
      <4>2. arg[g][1] \in Docs /\ arg[g][2] \in 0 .. MaxRetries
        BY <4>1 DEF JobIds
      <4>3. status[arg[g][1]] # "absent" /\ arg[g][2] <= retries[arg[g][1]]
        BY <4>1 DEF JobsAreKnown
      <4> QED
        BY <1>3, <1>4, <4>1, <4>2, <4>3
    <3> QED
      BY <3>1, <3>2
  <2> QED
    BY <2>1, <2>2 DEF JobsAreKnown
<1>8. Hopeful'
  <2> SUFFICES ASSUME NEW e \in Docs \ stranded', status'[e] \in {"pending", "processing"}
               PROVE  \E k \in 0 .. MaxRetries : Hope(<<e, k>>, status[e])'
    BY DEF Hopeful
  <2>1. CASE e = d
    <3>1. <<d, n>> \in JobIds /\ job[<<d, n>>].state = "none"
      <4>1. <<d, n>> \in JobIds /\ <<d, n>>[1] = d /\ <<d, n>>[2] = n
        BY <1>3, DocJobs
      <4>2. ~(n <= retries[d])
        BY <1>3, <1>5
      <4> QED
        BY <4>1, <4>2 DEF JobsAreKnown
    <3>2. Hope(<<d, n>>, status[d])'
      BY <1>2, <1>3, <3>1 DEF Hope
    <3> QED
      BY <1>3, <2>1, <3>2
  <2>2. CASE e # d
    <3>1. PICK k \in 0 .. MaxRetries : Hope(<<e, k>>, status[e])
      BY <1>2, <1>3, <2>2 DEF Hopeful
    <3> DEFINE s == status[e]
    <3>2. s' = s
      BY <1>3, <2>2
    <3>3. Hope(<<e, k>>, s)'
      BY <1>2, <1>3, <3>1, <3>2, DocJobs, HopeKept DEF worker
    <3> QED
      BY <3>3
  <2> QED
    BY <2>1, <2>2
<1> QED
  BY <1>6, <1>7, <1>8

\* The call to BullMQ, or its loss, which strands the document.
LEMMA EnqueueQueues ==
  ASSUME QueueInv, NEW h \in Handlers, Enqueue(h) \/ LoseEnqueue(h)
  PROVE  OwnerRuns' /\ JobsAreKnown' /\ Hopeful'
<1> USE IngestionAssumption DEF QueueInv
<1> DEFINE id == arg[h]
<1>1. TypeOK /\ job \in [JobIds -> Job]
  BY JobTypes DEF Inv
<1>2. hpc[h] = "enqueue" /\ UNCHANGED <<status, retries, worker>>
  BY DEF Enqueue, LoseEnqueue, tables, worker
<1>3. id \in JobIds /\ id[1] \in Docs
  BY <1>1, <1>2, ArgTypes, JobDoc
<1>4. /\ hpc'[h] # "enqueue"
      /\ \A g \in Handlers : g # h => hpc'[g] = hpc[g] /\ arg'[g] = arg[g]
  BY <1>1 DEF Enqueue, LoseEnqueue, Handle, TypeOK
<1>5. \A k \in JobIds : job'[k].owner = job[k].owner /\ job'[k].attempts = job[k].attempts
  BY <1>1, <1>3 DEF Enqueue, LoseEnqueue, Job
<1>6. OwnerRuns'
  BY <1>2, <1>5 DEF OwnerRuns, worker
<1>7. \A k \in JobIds : k # id => job'[k] = job[k]
  BY <1>1 DEF Enqueue, LoseEnqueue
<1>8. status[id[1]] # "absent" /\ id[2] <= retries[id[1]]
  BY <1>2 DEF JobsAreKnown
<1>9. \/ job[id].state = "none" /\ job'[id].state = "waiting" /\ stranded' = stranded \ {id[1]}
      \/ job[id].state # "none" /\ job'[id] = job[id] /\ stranded' = stranded
      \/ job'[id] = job[id] /\ stranded' = stranded \cup {id[1]}
  BY <1>1, <1>3 DEF Enqueue, LoseEnqueue, Job
<1> HIDE DEF id
<1>10. JobsAreKnown'
  <2>1. \A k \in JobIds :
           job'[k].state # "none" => status'[k[1]] # "absent" /\ k[2] <= retries'[k[1]]
    BY <1>2, <1>7, <1>8 DEF JobsAreKnown
  <2> QED
    BY <1>2, <1>4, <2>1 DEF JobsAreKnown
<1>11. Hopeful'
  <2> SUFFICES ASSUME NEW e \in Docs \ stranded', status[e] \in {"pending", "processing"}
               PROVE  \E n \in 0 .. MaxRetries : Hope(<<e, n>>, status[e])'
    BY <1>2 DEF Hopeful
  <2> DEFINE s == status[e]
  <2>1. s' = s
    BY <1>2
  <2>2. CASE e = id[1] /\ job'[id].state = "waiting" /\ job[id].state = "none"
    <3>1. PICK n \in 0 .. MaxRetries : id = <<e, n>>
      BY <1>3, <2>2 DEF JobIds
    <3>2. Hope(<<e, n>>, s)'
      BY <2>2, <3>1 DEF Hope
    <3> QED
      BY <3>2
  <2>3. CASE e # id[1]
    <3>1. PICK n \in 0 .. MaxRetries : Hope(<<e, n>>, s)
      BY <1>9, <2>3 DEF Hopeful
    <3>2. <<e, n>> \in JobIds /\ <<e, n>> # id
      BY <2>3, DocJobs
    <3>3. Hope(<<e, n>>, s)'
      BY <1>2, <1>4, <1>7, <2>1, <3>1, <3>2, HopeKept DEF worker, id
    <3> QED
      BY <3>3
  <2>4. CASE job[id].state # "none" /\ job'[id] = job[id] /\ stranded' = stranded
    <3>1. PICK n \in 0 .. MaxRetries : Hope(<<e, n>>, s)
      BY <2>4 DEF Hopeful
    <3>2. <<e, n>> \in JobIds /\ job'[<<e, n>>] = job[<<e, n>>]
      BY <1>7, <2>4, DocJobs
    <3>3. Hope(<<e, n>>, s)'
      <4>1. CASE <<e, n>> = id
        BY <1>2, <2>1, <2>4, <3>1, <3>2, <4>1 DEF Hope, Spent, Claimed, worker
      <4>2. CASE <<e, n>> # id
        BY <1>2, <1>4, <2>1, <3>1, <3>2, <4>2, HopeKept DEF worker, id
      <4> QED
        BY <4>1, <4>2
    <3> QED
      BY <3>3
  <2> QED
    BY <1>9, <2>2, <2>3, <2>4
<1> QED
  BY <1>6, <1>10, <1>11

-----------------------------------------------------------------------------
(* Steps of workers *)

\* An attempt that is not spent is not spent by a step, unless its document
\* has got where it is going or is stranded.
LEMMA AttemptGoesOn ==
  ASSUME QueueInv, NEW w \in Workers,
         Claim(w) \/ ReadFile(w) \/ Compute(w) \/ WriteChunks(w) \/ MarkFailed(w) \/ FailStatement(w),
         DocOf(w) \notin stranded',
         status'[DocOf(w)] \in {"pending", "processing"}
  PROVE  LET d == DocOf(w) IN
         /\ status[d] \in {"pending", "processing"}
         /\ status'[d] = "pending" => status[d] = "pending"
         /\ ~Spent(w) /\ (status[d] = "pending" => ~Claimed(w))
               => ~Spent(w)' /\ (status'[d] = "pending" => ~Claimed(w)')
<1> USE IngestionAssumption DEF QueueInv
<1> DEFINE d == DocOf(w)
<1>1. TypeOK /\ wpc[w] # "idle"
  BY DEF Inv, Claim, ReadFile, Compute, WriteChunks, MarkFailed, FailStatement
<1>2. /\ d \in Docs /\ DocOf(w)' = d /\ made' = made
      /\ wpc \in [Workers -> {"idle", "claim", "read", "compute", "write", "mark", "finish"}]
      /\ result \in [Workers -> {"ok", "transient", "permanent"}] /\ made[w] \in Nat
      /\ status \in [Docs -> Status]
  BY <1>1, RunningTypes
     DEF TypeOK, DocOf, Claim, ReadFile, Compute, WriteChunks, MarkFailed, FailStatement
<1> HIDE DEF d
<1> USE DEF Spent, Claimed
<1>3. ASSUME NEW e \in {"transient", "permanent"}, Throw(w, e)
      PROVE  ~Spent(w)' /\ ~Claimed(w)'
  BY <1>2, <1>3 DEF Throw, End, Goto
<1>4. CASE Claim(w)
  BY <1>2, <1>4 DEF Claim, Goto, End, d
<1>5. CASE ReadFile(w) \/ Compute(w)
  <2>1. UNCHANGED status
    BY <1>5 DEF ReadFile, Compute, tables
  <2>2. CASE \E e \in {"transient", "permanent"} : Throw(w, e)
    BY <1>3, <2>1, <2>2
  <2>3. CASE \E next \in {"compute", "write"} : Goto(w, next)
    BY <1>2, <1>5, <2>1, <2>3 DEF Goto, ReadFile, Compute
  <2> QED
    BY <1>5, <2>2, <2>3 DEF ReadFile, Compute
<1>6. CASE WriteChunks(w)
  BY <1>2, <1>6 DEF WriteChunks, d
<1>7. CASE MarkFailed(w)
  BY <1>2, <1>7 DEF MarkFailed, d
<1>8. CASE FailStatement(w)
  <2>1. UNCHANGED status
    BY <1>8 DEF FailStatement, tables
  <2>2. CASE Throw(w, "transient")
    BY <1>3, <2>1, <2>2
  <2>3. CASE End(w, "transient") /\ made[w] + 1 < Attempts
    BY <1>2, <2>1, <2>3 DEF End, Goto
  <2>4. CASE stranded' = stranded \cup {DocOf(w)}
    BY <2>4
  <2> QED
    BY <1>2, <1>8, <2>2, <2>3, <2>4 DEF FailStatement
<1> QED
  BY <1>4, <1>5, <1>6, <1>7, <1>8 DEF d

\* The statements of an attempt.
LEMMA AttemptQueues ==
  ASSUME QueueInv, NEW w \in Workers,
         Claim(w) \/ ReadFile(w) \/ Compute(w) \/ WriteChunks(w) \/ MarkFailed(w) \/ FailStatement(w)
  PROVE  OwnerRuns' /\ JobsAreKnown' /\ Hopeful'
<1> USE IngestionAssumption DEF QueueInv
<1>1. TypeOK /\ wpc[w] # "idle"
  BY DEF Inv, Claim, ReadFile, Compute, WriteChunks, MarkFailed, FailStatement
<1>2. DocOf(w) \in Docs /\ DocOf(w) = running[w][1]
  BY <1>1, RunningTypes DEF DocOf
<1>3. UNCHANGED <<job, api, running, made>>
  BY DEF Claim, ReadFile, Compute, WriteChunks, MarkFailed, FailStatement
<1>4. /\ wpc'[w] # "idle"
      /\ \A v \in Workers : v # w => wpc'[v] = wpc[v] /\ result'[v] = result[v]
  BY <1>1 DEF Claim, ReadFile, Compute, WriteChunks, MarkFailed, FailStatement,
              Throw, End, Goto, TypeOK
<1>5. /\ \A d \in Docs : d # DocOf(w) => status'[d] = status[d]
      /\ \A d \in Docs : status'[d] = "absent" => status[d] = "absent"
  BY <1>1, <1>2 DEF Claim, ReadFile, Compute, WriteChunks, MarkFailed, FailStatement, tables, TypeOK
<1>6. stranded \subseteq stranded'
  BY DEF Claim, ReadFile, Compute, WriteChunks, MarkFailed, FailStatement
<1>7. OwnerRuns'
  BY <1>3, <1>4 DEF OwnerRuns
<1>8. JobsAreKnown'
  <2>1. \A h \in Handlers : hpc[h] = "enqueue" => arg[h][1] \in Docs
    BY <1>1, ArgTypes, JobDoc
  <2> QED
    BY <1>3, <1>5, <2>1, JobDoc DEF JobsAreKnown, api
<1>9. Hopeful'
  <2> SUFFICES ASSUME NEW d \in Docs \ stranded', status'[d] \in {"pending", "processing"}
               PROVE  \E n \in 0 .. MaxRetries : Hope(<<d, n>>, status[d])'
    BY DEF Hopeful
  <2>1. status[d] \in {"pending", "processing"} /\ (status'[d] = "pending" => status[d] = "pending")
    BY <1>5, AttemptGoesOn
  <2>2. PICK n \in 0 .. MaxRetries : Hope(<<d, n>>, status[d])
    BY <1>6, <2>1 DEF Hopeful
  <2>3. <<d, n>> \in JobIds /\ <<d, n>>[1] = d
    BY DocJobs
  <2>4. CASE job[<<d, n>>].state \in {"none", "waiting"}
    BY <1>3, <2>2, <2>4 DEF Hope, api
  <2>5. CASE job[<<d, n>>].state = "active"
    <3> SUFFICES ASSUME NEW v \in Workers, job[<<d, n>>].owner = v
                 PROVE  ~Spent(v)' /\ (status'[d] = "pending" => ~Claimed(v)')
      BY <1>3, <2>5 DEF Hope
    <3>1. ~Spent(v) /\ (status[d] = "pending" => ~Claimed(v))
      BY <2>2, <2>5 DEF Hope
    <3>2. CASE v = w
      <4>1. DocOf(w) = d
        BY <1>2, <2>3, <3>2 DEF OwnerRuns
      <4> QED
        BY <3>1, <3>2, <4>1, AttemptGoesOn
    <3>3. CASE v # w
      BY <1>3, <1>4, <2>1, <3>1, <3>3 DEF Spent, Claimed
    <3> QED
      BY <3>2, <3>3
  <2> QED
    BY <2>2, <2>4, <2>5 DEF Hope
<1> QED
  BY <1>7, <1>8, <1>9

\* What BullMQ does to one job: it becomes active for a worker that starts, is
\* put back or ends for a worker that is done, or is taken from a late one.
\* The job still is hope afterwards, or never was, or its document is stranded.
LEMMA JobMoves ==
  ASSUME QueueInv, NEW id \in JobIds,
         \A k \in JobIds : k # id => job'[k] = job[k],
         UNCHANGED <<status, api>>,
         stranded \subseteq stranded',
         job[id].state # "none",
         NEW V \in SUBSET Workers,
         \A v \in Workers \ V : wpc'[v] = wpc[v] /\ running'[v] = running[v]
                                /\ result'[v] = result[v] /\ made'[v] = made[v],
         \A k \in JobIds, v \in V : k # id => job[k].owner # v,
         \A v \in Workers : job'[id].owner = v =>
             wpc'[v] # "idle" /\ running'[v] = id /\ made'[v] = job'[id].attempts,
         \A s : id[1] \notin stranded' /\ Hope(id, s) => Hope(id, s)'
  PROVE  OwnerRuns' /\ JobsAreKnown' /\ Hopeful'
<1> USE DEF QueueInv
<1>1. OwnerRuns'
  BY DEF OwnerRuns
<1>2. JobsAreKnown'
  BY DEF JobsAreKnown, api
<1>3. Hopeful'
  <2> SUFFICES ASSUME NEW d \in Docs \ stranded', status[d] \in {"pending", "processing"}
               PROVE  \E n \in 0 .. MaxRetries : Hope(<<d, n>>, status[d])'
    BY DEF Hopeful
  <2>1. PICK n \in 0 .. MaxRetries : Hope(<<d, n>>, status[d])
    BY DEF Hopeful
  <2> DEFINE s == status[d]
  <2>2. s' = s
    OBVIOUS
  <2>3. <<d, n>> \in JobIds /\ <<d, n>>[1] = d
    BY DocJobs
  <2>4. CASE <<d, n>> = id
    <3>1. Hope(id, s)'
      BY <2>1, <2>2, <2>3, <2>4
    <3> QED
      BY <2>4, <3>1
  <2>5. CASE <<d, n>> # id
    <3>1. Hope(<<d, n>>, s)'
      BY <2>1, <2>2, <2>3, <2>5, HopeKept DEF api
    <3> QED
      BY <3>1
  <2> QED
    BY <2>4, <2>5
<1> QED
  BY <1>1, <1>2, <1>3

\* A waiting job becomes active.
LEMMA TakeQueues ==
  ASSUME QueueInv, NEW w \in Workers, NEW id \in JobIds, Take(w, id)
  PROVE  OwnerRuns' /\ JobsAreKnown' /\ Hopeful'
<1> USE IngestionAssumption DEF QueueInv, Take, Goto, api, tables
<1>1. TypeOK /\ job \in [JobIds -> Job]
  BY JobTypes DEF Inv
<1>2. /\ job'[id].state = "active" /\ job'[id].owner = w /\ job'[id].attempts = job[id].attempts
      /\ \A k \in JobIds : k # id => job'[k] = job[k]
  BY <1>1 DEF Job
<1>3. /\ wpc'[w] = "claim" /\ running'[w] = id /\ made'[w] = job[id].attempts
      /\ \A v \in Workers \ {w} : wpc'[v] = wpc[v] /\ running'[v] = running[v]
                                  /\ result'[v] = result[v] /\ made'[v] = made[v]
  BY <1>1 DEF TypeOK
<1>4. \A k \in JobIds, v \in {w} : k # id => job[k].owner # v
  BY DEF OwnerRuns
<1>5. \A s : Hope(id, s) => Hope(id, s)'
  BY <1>2, <1>3, ZenonT(60) DEF Hope, Spent, Claimed
<1>6. /\ \A v \in Workers : job'[id].owner = v =>
             wpc'[v] # "idle" /\ running'[v] = id /\ made'[v] = job'[id].attempts
      /\ {w} \in SUBSET Workers /\ stranded \subseteq stranded'
      /\ UNCHANGED <<status, api>> /\ job[id].state # "none"
  BY <1>2, <1>3
<1> QED
  BY <1>2, <1>3, <1>4, <1>5, <1>6, JobMoves

\* BullMQ ends a job only for an attempt that was spent.
LEMMA FinishQueues ==
  ASSUME QueueInv, NEW w \in Workers, Finish(w)
  PROVE  OwnerRuns' /\ JobsAreKnown' /\ Hopeful'
<1> USE IngestionAssumption DEF QueueInv, Finish, Goto
<1>1. TypeOK /\ job \in [JobIds -> Job] /\ wpc[w] = "finish"
  BY JobTypes DEF Inv
<1>2. PICK id \in JobIds : running[w] = id
  BY <1>1, RunningTypes
<1>3. /\ UNCHANGED <<status, api, stranded, result, made>>
      /\ \A v \in Workers \ {w} : wpc'[v] = wpc[v] /\ running'[v] = running[v]
  BY <1>1 DEF TypeOK, tables
<1>4. CASE job[id].owner # w
  <2>1. UNCHANGED job /\ \A k \in JobIds : job[k].owner # w
    BY <1>2, <1>4 DEF OwnerRuns
  <2>2. OwnerRuns' /\ JobsAreKnown'
    BY <1>3, <2>1 DEF OwnerRuns, JobsAreKnown, api
  <2>3. Hopeful'
    <3> SUFFICES ASSUME NEW d \in Docs \ stranded, status[d] \in {"pending", "processing"}
                 PROVE  \E n \in 0 .. MaxRetries : Hope(<<d, n>>, status[d])'
      BY <1>3 DEF Hopeful
    <3>1. PICK n \in 0 .. MaxRetries : Hope(<<d, n>>, status[d])
      BY DEF Hopeful
    <3> DEFINE s == status[d]
    <3>2. s' = s
      BY <1>3
    <3>3. Hope(<<d, n>>, s)'
      BY <1>3, <2>1, <3>1, <3>2, DocJobs, HopeKept DEF api
    <3> QED
      BY <3>3
  <2> QED
    BY <2>2, <2>3
<1>5. CASE job[id].owner = w
  <2>1. job[id].state = "active" /\ made[w] = job[id].attempts
        /\ \A k \in JobIds : k # id => job[k].owner # w
    BY <1>2, <1>5, <1>1 DEF OwnerRuns, Inv, Counting, TypeOK
  <2>2. job[id].attempts \in Nat /\ result[w] \in {"ok", "transient", "permanent"}
    BY <1>1, <1>2 DEF TypeOK, Job
  <2>3. /\ \A k \in JobIds : k # id => job'[k] = job[k]
        /\ job'[id].owner = None
        /\ ~Spent(w) => job'[id].state = "waiting"
    BY <1>1, <1>2, <1>5, <2>1, <2>2 DEF Job, Spent
  <2>4. \A s : Hope(id, s) => Hope(id, s)'
    <3>1. ASSUME NEW s, Hope(id, s) PROVE Hope(id, s)'
      <4>1. ~Spent(w)
        BY <1>5, <2>1, <3>1 DEF Hope
      <4>2. job'[id].state = "waiting"
        BY <2>3, <4>1
      <4> QED
        BY <4>2 DEF Hope
    <3> QED
      BY <3>1
  <2>5. /\ \A v \in Workers : job'[id].owner # v
        /\ {w} \in SUBSET Workers /\ job[id].state # "none"
    BY <2>1, <2>3
  <2>6. /\ \A v \in Workers \ {w} : wpc'[v] = wpc[v] /\ running'[v] = running[v]
                                    /\ result'[v] = result[v] /\ made'[v] = made[v]
        /\ \A k \in JobIds, v \in {w} : k # id => job[k].owner # v
        /\ stranded \subseteq stranded' /\ UNCHANGED <<status, api>>
    BY <1>3, <2>1, ZenonT(60)
  <2> HIDE IngestionAssumption DEF QueueInv, Finish, Goto
  <2> QED
    BY ZenonT(60), <2>3, <2>4, <2>5, <2>6, JobMoves
<1> QED
  BY <1>4, <1>5

\* A job that has stalled is put back, or its document is stranded.
LEMMA StalledQueues ==
  ASSUME QueueInv, NEW id \in JobIds, CheckStalled(id) \/ LateRenewal(id)
  PROVE  OwnerRuns' /\ JobsAreKnown' /\ Hopeful'
<1> USE IngestionAssumption DEF QueueInv, CheckStalled, LateRenewal, Stalled
<1>1. TypeOK /\ job \in [JobIds -> Job] /\ job[id].state = "active"
  BY JobTypes DEF Inv
<1>2. /\ \A k \in JobIds : k # id => job'[k] = job[k]
      /\ job'[id].owner = None
      /\ id[1] \notin stranded' => job'[id].state = "waiting"
      /\ stranded \subseteq stranded'
  BY <1>1 DEF Job
<1>3. UNCHANGED <<status, api, wpc, running, made, result>>
  BY DEF tables, worker
<1>4. \A s : id[1] \notin stranded' /\ Hope(id, s) => Hope(id, s)'
  BY <1>2 DEF Hope
<1>5. \A v \in Workers : job'[id].owner # v
  BY <1>2
<1>6. /\ {} \in SUBSET Workers
      /\ \A v \in Workers \ {} : wpc'[v] = wpc[v] /\ running'[v] = running[v]
                                 /\ result'[v] = result[v] /\ made'[v] = made[v]
      /\ \A k \in JobIds, v \in {} : k # id => job[k].owner # v
      /\ \A v \in Workers : job'[id].owner = v =>
             wpc'[v] # "idle" /\ running'[v] = id /\ made'[v] = job'[id].attempts
      /\ job[id].state # "none"
  BY <1>1, <1>3, <1>5
<1> HIDE DEF QueueInv, CheckStalled, LateRenewal, Stalled
<1> QED
  BY <1>2, <1>3, <1>4, <1>6, JobMoves

\* A worker that dies leaves its job to the stalled-job check.
LEMMA CrashQueues ==
  ASSUME QueueInv, NEW w \in Workers, CrashWorker(w)
  PROVE  OwnerRuns' /\ JobsAreKnown' /\ Hopeful'
<1> USE IngestionAssumption DEF QueueInv, CrashWorker, Goto
<1>1. TypeOK /\ job \in [JobIds -> Job]
  BY JobTypes DEF Inv
<1>2. /\ UNCHANGED <<status, api, stranded, made, result>>
      /\ \A v \in Workers \ {w} : wpc'[v] = wpc[v] /\ running'[v] = running[v]
  BY <1>1 DEF TypeOK, tables
<1>3. \A k \in JobIds :
        /\ job'[k].state = job[k].state /\ job'[k].attempts = job[k].attempts
        /\ job'[k].owner = IF job[k].owner = w THEN None ELSE job[k].owner
  BY <1>1 DEF Job
<1>4. OwnerRuns' /\ JobsAreKnown'
  BY <1>2, <1>3 DEF OwnerRuns, JobsAreKnown, api
<1>5. ASSUME NEW k \in JobIds, NEW s, Hope(k, s) PROVE Hope(k, s)'
  BY <1>2, <1>3, <1>5 DEF Hope, Spent, Claimed, api
<1>6. Hopeful'
  BY <1>2, <1>5, DocJobs DEF Hopeful
<1> QED
  BY <1>4, <1>6

-----------------------------------------------------------------------------
\* Every step keeps the queue's invariant.
LEMMA QueueNext == QueueInv /\ [Next]_vars => QueueInv'
<1> SUFFICES ASSUME QueueInv, [Next]_vars PROVE QueueInv'
  OBVIOUS
<1>1. Inv'
  BY NextStep DEF QueueInv
<1>2. CASE UNCHANGED vars
  <2>1. UNCHANGED <<status, retries, stranded, job, hpc, arg, wpc, running, result, made>>
    BY <1>2 DEF vars, tables, api, worker
  <2>2. OwnerRuns' /\ JobsAreKnown'
    BY <2>1 DEF QueueInv, OwnerRuns, JobsAreKnown
  <2>3. ASSUME NEW id \in JobIds, NEW s, Hope(id, s) PROVE Hope(id, s)'
    BY <2>1, <2>3 DEF Hope, Spent, Claimed
  <2>4. Hopeful'
    <3> SUFFICES ASSUME NEW d \in Docs \ stranded, status[d] \in {"pending", "processing"}
                 PROVE  \E n \in 0 .. MaxRetries : Hope(<<d, n>>, status[d])'
      BY <2>1 DEF Hopeful
    <3>1. PICK n \in 0 .. MaxRetries : Hope(<<d, n>>, status[d])
      BY DEF QueueInv, Hopeful
    <3> DEFINE s == status[d]
    <3>2. s' = s
      BY <2>1
    <3>3. Hope(<<d, n>>, s)'
      BY <2>3, <3>1, <3>2, DocJobs
    <3> QED
      BY <3>3
  <2> QED
    BY <1>1, <2>2, <2>4 DEF QueueInv
<1>3. ASSUME NEW h \in Handlers,
             \/ \E f \in Files : Upload(h, f)
             \/ \E d \in Docs : Retry(h, d) \/ LockForDelete(h, d)
             \/ HandlerStep(h) \/ LoseEnqueue(h) \/ AbortDelete(h)
      PROVE  QueueInv'
  BY <1>1, <1>3, UploadQueues, RetryQueues, QuietHandler, EnqueueQueues DEF HandlerStep, QueueInv
<1>4. ASSUME NEW w \in Workers, WorkerStep(w) \/ FailStatement(w) \/ CrashWorker(w)
      PROVE  QueueInv'
  BY <1>1, <1>4, TakeQueues, AttemptQueues, FinishQueues, CrashQueues DEF WorkerStep, QueueInv
<1>5. ASSUME NEW id \in JobIds, CheckStalled(id) \/ LateRenewal(id)
      PROVE  QueueInv'
  BY <1>1, <1>5, StalledQueues DEF QueueInv
<1> QED
  BY <1>2, <1>3, <1>4, <1>5 DEF Next

\* document.service.js, document.ingest.js and document.worker.js: for any
\* number of requests, workers, retries and faults, a document that is pending
\* or processing has a job, or a handler about to queue one, unless one of the
\* three faults has stranded it.
THEOREM WorkAlwaysQueued == Spec => []WorkIsQueued
<1>1. QueueInv => WorkIsQueued
  <2> SUFFICES ASSUME QueueInv, NEW d \in Docs, status[d] \in {"pending", "processing"},
                      d \notin stranded
               PROVE  \/ \E n \in 0 .. MaxRetries : Live(<<d, n>>)
                      \/ \E h \in Handlers : hpc[h] = "enqueue" /\ arg[h][1] = d
    BY DEF WorkIsQueued
  <2>1. PICK n \in 0 .. MaxRetries : Hope(<<d, n>>, status[d])
    BY DEF QueueInv, Hopeful
  <2> QED
    BY <2>1, DocJobs DEF Hope, Live
<1> QED
  BY QueueInit, QueueNext, <1>1, PTL DEF Spec
=============================================================================
