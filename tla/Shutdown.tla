------------------------------ MODULE Shutdown ------------------------------
(***************************************************************************)
(* lib/shutdown.js in the three programs that use it: the API, the API     *)
(* with workers in its process (RUN_WORKER), and the worker.               *)
(*                                                                         *)
(* A step of the shutdown is called, and the next one when it settles.     *)
(* server.close() settles when no connection is left, worker.close() when  *)
(* its job has ended; any step may fail, or never settle.                  *)
(***************************************************************************)
EXTENDS Naturals, SequencesExt

CONSTANT Connections    \* of HTTP clients

VARIABLES
    program,     \* what is running
    process,     \* "starting" until the handlers are registered, "up", or how it ended
    awaited,     \* the step the shutdown awaits, 0 before a signal (handling)
    called,      \* steps that have been called: their resource takes nothing new
    failed,      \* ghost: steps that failed
    hung,        \* ghost: a step that never settles
    connection,  \* "closed", "idle", "busy" with a request, or "dropped" by the
                 \* client while the handler of its request runs on
    lastOne,     \* connections with "Connection: close" on the response to come
    job          \* workers with an active job

shutdownVars == <<program, process, awaited, called, failed, hung, connection, lastOne, job>>

Workers == {"invoiceWorker", "documentWorker"}

\* Mutation: the workers are closed after what they use.
Steps_WorkersLast(p) ==
    CASE p = "api" -> <<"http", "documentQueue", "invoiceQueue", "redis", "postgres">>
      [] p = "api with workers" -> <<"http", "documentQueue", "invoiceQueue", "redis", "postgres",
                                     "invoiceWorker", "documentWorker">>
      [] p = "worker" -> <<"invoiceWorker", "documentWorker", "invoiceQueue", "documentQueue",
                           "redis", "postgres">>

Steps(p) ==
    CASE p = "api" -> <<"http", "documentQueue", "invoiceQueue", "redis", "postgres">>
      [] p = "api with workers" -> <<"http", "invoiceWorker", "documentWorker", "documentQueue",
                                     "invoiceQueue", "redis", "postgres">>
      [] p = "worker" -> <<"invoiceWorker", "documentWorker", "invoiceQueue", "documentQueue",
                           "redis", "postgres">>

HasHttp == program # "worker"
HasWorkers == program # "api"

\* The API registers its handlers in the tick in which it listens; the other
\* programs wait for setupInvoiceSchedular first.
ShutdownInit ==
    /\ program \in {"api", "api with workers", "worker"}
    /\ process = IF program = "api" THEN "up" ELSE "starting"
    /\ awaited = 0
    /\ called = {}
    /\ failed = {}
    /\ hung = FALSE
    /\ connection = [c \in Connections |-> "closed"]
    /\ lastOne = {}
    /\ job = {}

Running == process \in {"starting", "up"}
ShuttingDown == awaited # 0

\* startInvoiceWorker, startDocumentWorker and registerShutdown, in one tick.
Register ==
    /\ process = "starting"
    /\ process' = "up"
    /\ UNCHANGED <<program, awaited, called, failed, hung, connection, lastOne, job>>

-----------------------------------------------------------------------------
(* Requests and jobs *)

\* A client connects, or uses a connection it has.
BeginRequest(c) ==
    /\ Running /\ HasHttp
    /\ connection[c] = "idle" \/ (connection[c] = "closed" /\ "http" \notin called)
    /\ connection' = [connection EXCEPT ![c] = "busy"]

\* Mutation: no response says so.
Begin_KeepsAlive(c) ==
    /\ BeginRequest(c)
    /\ UNCHANGED <<program, process, awaited, called, failed, hung, lastOne, job>>

\* app.js: a request that begins during a shutdown is the last one of its
\* connection.
Begin(c) ==
    /\ BeginRequest(c)
    /\ lastOne' = IF ShuttingDown THEN lastOne \cup {c} ELSE lastOne
    /\ UNCHANGED <<program, process, awaited, called, failed, hung, job>>

\* The handler of a request ends.
Respond(c) ==
    /\ Running
    /\ connection[c] \in {"busy", "dropped"}
    /\ connection' = [connection EXCEPT ![c] =
                         IF c \in lastOne \/ @ = "dropped" THEN "closed" ELSE "idle"]
    /\ lastOne' = lastOne \ {c}
    /\ UNCHANGED <<program, process, awaited, called, failed, hung, job>>

\* The client closes its connection and does not wait for the answer.  No
\* handler listens for that: it goes on, but not for server.close().
Drop(c) ==
    /\ Running
    /\ connection[c] = "busy"
    /\ connection' = [connection EXCEPT ![c] = "dropped"]
    /\ lastOne' = lastOne \ {c}
    /\ UNCHANGED <<program, process, awaited, called, failed, hung, job>>

\* The keep-alive timeout of the server, or the client.
CloseIdle(c) ==
    /\ Running
    /\ connection[c] = "idle"
    /\ connection' = [connection EXCEPT ![c] = "closed"]
    /\ UNCHANGED <<program, process, awaited, called, failed, hung, lastOne, job>>

TakeJob(w) ==
    /\ process = "up" /\ HasWorkers
    /\ w \notin job \cup called
    /\ job' = job \cup {w}
    /\ UNCHANGED <<program, process, awaited, called, failed, hung, connection, lastOne>>

EndJob(w) ==
    /\ process = "up"
    /\ w \in job
    /\ job' = job \ {w}
    /\ UNCHANGED <<program, process, awaited, called, failed, hung, connection, lastOne>>

-----------------------------------------------------------------------------
(* Shutting down *)

\* Calls step n, or exits after the last one.  server.close() and
\* closeIdleConnections() leave the busy connections.
CallStep(n) ==
    /\ awaited' = n
    /\ IF n > Len(Steps(program))
       THEN process' = "exited 0" /\ UNCHANGED <<called, connection>>
       ELSE /\ called' = called \cup {Steps(program)[n]}
            /\ connection' = IF Steps(program)[n] = "http"
                             THEN [c \in Connections |->
                                      IF connection[c] = "idle" THEN "closed" ELSE connection[c]]
                             ELSE connection
            /\ UNCHANGED process

\* SIGTERM or SIGINT; one that comes while a shutdown is handled is ignored.
Signal ==
    /\ process = "up" /\ ~ShuttingDown
    /\ CallStep(1)
    /\ UNCHANGED <<program, failed, hung, lastOne, job>>

\* Without a handler the signal ends the process at once.
SignalTooEarly ==
    /\ process = "starting"
    /\ process' = "killed"
    /\ UNCHANGED <<program, awaited, called, failed, hung, connection, lastOne, job>>

Drained(step) ==
    CASE step = "http" -> \A c \in Connections : connection[c] \in {"closed", "dropped"}
      [] step \in Workers -> step \notin job
      [] OTHER -> TRUE

Awaits == process = "up" /\ ShuttingDown /\ ~hung

StepSettles ==
    /\ Awaits
    /\ Drained(Steps(program)[awaited])
    /\ CallStep(awaited + 1)
    /\ UNCHANGED <<program, failed, hung, lastOne, job>>

\* An error is logged, and the next step is called.
StepFails ==
    /\ Awaits
    /\ failed' = failed \cup {Steps(program)[awaited]}
    /\ CallStep(awaited + 1)
    /\ UNCHANGED <<program, hung, lastOne, job>>

StepHangs ==
    /\ Awaits
    /\ hung' = TRUE
    /\ UNCHANGED <<program, process, awaited, called, failed, connection, lastOne, job>>

\* The timer of timeoutMs: requests and jobs may take longer than that.
Deadline ==
    /\ process = "up" /\ ShuttingDown
    /\ process' = "exited 1"
    /\ UNCHANGED <<program, awaited, called, failed, hung, connection, lastOne, job>>

ShutdownNext ==
    \/ Register \/ SignalTooEarly \/ Deadline
    \/ \E c \in Connections : Begin(c) \/ Respond(c) \/ Drop(c) \/ CloseIdle(c)
    \/ \E w \in Workers : TakeJob(w) \/ EndJob(w)
    \/ Signal \/ StepSettles \/ StepFails \/ StepHangs

ShutdownSpec == ShutdownInit /\ [][ShutdownNext]_shutdownVars

\* Requests and jobs end, and a step that settles is followed by the next.
\* An idle connection times out unless its client sends a request.  The
\* deadline is relied on for a step that hangs, and for nothing else.
ShutdownFairness ==
    /\ WF_shutdownVars(Deadline /\ hung)
    /\ \A c \in Connections : WF_shutdownVars(Respond(c)) /\ WF_shutdownVars(CloseIdle(c))
    /\ \A w \in Workers : WF_shutdownVars(EndJob(w))
    /\ WF_shutdownVars(StepSettles)

-----------------------------------------------------------------------------
(* Properties *)

\* When a queue, Redis or PostgreSQL is closed, no client waits for a request
\* that may need it and no job is at work, unless the step that was to wait for
\* them failed: however many signals arrive, whatever clients begin or drop
\* meanwhile, in each program (server.js:30).  The handler of a request that
\* its client has dropped may still run then: server.close() does not know it.
NobodyWaitingIsCutOff ==
    called \cap {"documentQueue", "invoiceQueue", "redis", "postgres"} # {} =>
        /\ "http" \in failed \/ \A c \in Connections : connection[c] # "busy"
        /\ job \subseteq failed

\* A shutdown ends, and without a step that hangs it needs no deadline for it:
\* a client that keeps its connection cannot hold the server open.
ShutdownEnds == ShuttingDown ~> ~Running
=============================================================================
