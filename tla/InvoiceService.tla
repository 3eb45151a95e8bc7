--------------------------- MODULE InvoiceService ---------------------------
(***************************************************************************)
(* modules/invoices/invoice.service.js over PostgreSQL at READ COMMITTED.  *)
(*                                                                         *)
(* A worker is a request handler (Procs) or a run of the overdue job       *)
(* (Jobs).  It executes one db.transaction, statement by statement; what   *)
(* it writes becomes visible, all at once, when it commits.  The variables *)
(* of the first group are the committed tables, lock is the row lock of    *)
(* each invoice, and the rest is what a worker holds in local variables    *)
(* between two awaits.  One tenant; createInvoice has run for every        *)
(* invoice.                                                                *)
(***************************************************************************)
EXTENDS Integers, Sequences, FiniteSets, FiniteSetsExt, BagsExt, InvoiceState

CONSTANTS
    Invoices,       \* invoices.id
    Total,          \* Total[i]: total_amount_minor
    Procs,          \* concurrent HTTP requests
    Jobs,           \* concurrent runs of the mark-overdue job
    Keys,           \* Idempotency-Key values of payments
    Amounts,        \* amounts a client may pay
    Accounts,       \* ledger accounts
    AccountType,    \* AccountType[a]: accounts.type
    Usable,         \* accounts of the tenant, in the invoices' currency
    IssueAccounts,  \* <<receivable, revenue>> pairs a client may issue with
    PayAccounts,    \* <<bank, receivable>> pairs a client may pay with
    MaxCrashes,     \* how often a connection or a process is lost
    None

Workers == Procs \cup Jobs

ASSUME ServiceAssumption ==
    /\ Total \in [Invoices -> Nat \ {0}]
    /\ Amounts \subseteq Nat \ {0}
    /\ Usable \subseteq Accounts
    /\ IssueAccounts \subseteq Accounts \X Accounts
    /\ PayAccounts \subseteq Accounts \X Accounts
    /\ MaxCrashes \in Nat
    /\ Procs \cap Jobs = {}
    /\ None \notin Workers \cup Accounts \cup Invoices

VARIABLES
    \* committed tables
    status,     \* invoices.status
    issuedTo,   \* account of the positive line of issue_journal_entry_id
    payments,   \* invoice_payments of each invoice, in commit order
    history,    \* invoice_status_history of each invoice, a bag of rows
    posted,     \* posted[i][a]: sum of the entry lines i has posted to a
    due,        \* invoices.due_date < now()
    \* locks
    lock,       \* the worker that holds the row lock of an invoice
    \* workers
    pc,         \* the statement a worker executes next
    req,        \* the request a handler serves
    answer,     \* what the last request of a handler was answered
    row,        \* the invoice row a handler has read FOR UPDATE
    target,     \* targetStatus of createInvoicePayment
    todo,       \* candidates a job has still to update, as it read them
    current,    \* the candidate a job is updating
    marked,     \* candidates a job has updated, as it read them
    crashes     \* bounded by MaxCrashes

tables  == <<status, issuedTo, payments, history, posted>>
handler == <<req, answer, row, target>>
job     == <<todo, current, marked>>
vars == <<tables, due, lock, pc, handler, job, crashes>>

-----------------------------------------------------------------------------
(* Requests and rows *)

IssueRequest == [op: {"issue"}, invoice: Invoices, accounts: IssueAccounts]
VoidRequest  == [op: {"void"}, invoice: Invoices]
PayRequest   == [op: {"pay"}, invoice: Invoices, amount: Amounts,
                 accounts: PayAccounts, key: Keys]
Request == IssueRequest \cup VoidRequest \cup PayRequest

\* SQL's NULL, or JavaScript's undefined, is no value of any other type.
ASSUME NoneAssumption == None \notin Request \cup Status

Payment == [key: Keys, amount: Amounts, accounts: PayAccounts]

\* The columns of an invoice row that its handlers use after reading it.
Row == [status: Status, issuedTo: Accounts \cup {None}]

\* A row of the candidate list of markOverdueInvoices.
Candidate == Invoices \X Status

Change == [from: Status \cup {None}, to: Status]

Step(from, to) == [from |-> from, to |-> to]

\* The bag of the rows S, and what the bags of rows are.
OneOfEach(S) == [c \in S |-> 1]

IsBag(h) == h \in [DOMAIN h -> Nat \ {0}]

Answer == {"none", "done", "replayed", "refused"}

\* The reduce over invoice_payments of createInvoicePayment and voidInvoice.
SumOver(i, S) == SumFunctionOnSet([n \in DOMAIN payments[i] |-> payments[i][n].amount], S)

Paid(i) == SumOver(i, DOMAIN payments[i])

\* The request that committed payment p of invoice i: p.requestFingerprint
\* stands for all of it but the key.
RequestOf(i, p) ==
    [op |-> "pay", invoice |-> i, amount |-> p.amount,
     accounts |-> p.accounts, key |-> p.key]

-----------------------------------------------------------------------------
(* PostgreSQL *)

\* The row locks after the transaction of w has ended.
Released(w) == [i \in Invoices |-> IF lock[i] = w THEN None ELSE lock[i]]

\* p has inserted a payment with key k and has not committed it.
HoldsKey(p, k) ==
    /\ pc[p] \in {"validate", "commit"}
    /\ req[p] \in PayRequest
    /\ req[p].key = k

\* The requests whose payment with key k has committed: at most one.
CommittedWith(k) ==
    UNION {{RequestOf(i, payments[i][n]) :
              n \in {m \in DOMAIN payments[i] : payments[i][m].key = k}} : i \in Invoices}

\* The statement of w waits for the transaction of v to end.
WaitsFor(w, v) ==
    /\ v # w
    /\ \/ w \in Procs /\ pc[w] = "lock" /\ lock[req[w].invoice] = v
       \/ w \in Procs /\ v \in Procs /\ pc[w] = "insert" /\ HoldsKey(v, req[w].key)
       \/ w \in Jobs /\ pc[w] = "update" /\ lock[current[w][1]] = v

\* A worker waits for at most one other, so a set in which everyone waits for
\* a member and is waited for by a member is made of cycles.
Deadlocked(w) ==
    \E S \in SUBSET Workers :
        /\ w \in S
        /\ \A u \in S : /\ \E v \in S : WaitsFor(u, v)
                        /\ \E v \in S : WaitsFor(v, u)

-----------------------------------------------------------------------------
Init ==
    \* An invoice is a draft, or was issued before issuing posted an entry
    \* (invoice.service.js:137) and has no receivable.
    /\ status \in [Invoices -> {"DRAFT", "ISSUED"}]
    /\ issuedTo = [i \in Invoices |-> None]
    /\ payments = [i \in Invoices |-> <<>>]
    /\ history = [i \in Invoices |->
                    IF status[i] = "DRAFT" THEN OneOfEach({Step(None, "DRAFT")})
                    ELSE OneOfEach({Step(None, "DRAFT"), Step("DRAFT", "ISSUED")})]
    /\ posted = [i \in Invoices |-> [a \in Accounts |-> 0]]
    /\ due \in [Invoices -> BOOLEAN]
    /\ lock = [i \in Invoices |-> None]
    /\ pc = [w \in Workers |-> "idle"]
    /\ req = [p \in Procs |-> None]
    /\ answer = [p \in Procs |-> "none"]
    /\ row = [p \in Procs |-> None]
    /\ target = [p \in Procs |-> None]
    /\ todo = [j \in Jobs |-> {}]
    /\ current = [j \in Jobs |-> None]
    /\ marked = [j \in Jobs |-> {}]
    /\ crashes = 0

-----------------------------------------------------------------------------
(* Ends of a handler's transaction *)

\* COMMIT or ROLLBACK of handler p, which answers its client.
EndHandler(p, result) ==
    /\ lock' = Released(p)
    /\ pc' = [pc EXCEPT ![p] = "idle"]
    /\ req' = [req EXCEPT ![p] = None]
    /\ row' = [row EXCEPT ![p] = None]
    /\ target' = [target EXCEPT ![p] = None]
    /\ answer' = [answer EXCEPT ![p] = result]

\* Mutation: an error leaves the transaction, and its row lock, open.
Refuse_LeaksLock(p) ==
    /\ pc' = [pc EXCEPT ![p] = "idle"]
    /\ answer' = [answer EXCEPT ![p] = "refused"]
    /\ UNCHANGED <<tables, lock, req, row, target>>

\* An error was thrown: the transaction rolls back.
Refuse(p) == EndHandler(p, "refused") /\ UNCHANGED tables

Continue(p, next) ==
    /\ pc' = [pc EXCEPT ![p] = next]
    /\ UNCHANGED <<req, answer>>

-----------------------------------------------------------------------------
(* Handlers *)

StartRequest(p, r) ==
    /\ pc[p] = "idle"
    /\ pc' = [pc EXCEPT ![p] = "lock"]
    /\ req' = [req EXCEPT ![p] = r]
    /\ answer' = [answer EXCEPT ![p] = "none"]
    /\ UNCHANGED <<tables, due, lock, row, target, job, crashes>>

\* Mutation: the invoice is read without FOR UPDATE.
LockInvoice_PlainSelect(p) ==
    LET i == req[p].invoice
        allowed == CASE req[p].op = "issue" -> CanTransition(status[i], "ISSUED")
                     [] req[p].op = "void"  -> CanTransition(status[i], "VOID")
                     [] req[p].op = "pay"   -> TRUE
    IN
    /\ pc[p] = "lock"
    /\ \/ /\ allowed
          /\ row' = [row EXCEPT ![p] = [status |-> status[i], issuedTo |-> issuedTo[i]]]
          /\ Continue(p, IF req[p].op = "pay" THEN "insert" ELSE "validate")
          /\ UNCHANGED <<tables, lock, target>>
       \/ ~allowed /\ Refuse(p)
    /\ UNCHANGED <<due, job, crashes>>

\* Mutation: a payment asserts that the invoice is payable before it looks
\* its idempotency key up.
LockInvoice_StatusFirst(p) ==
    LET i == req[p].invoice
        allowed == CASE req[p].op = "issue" -> CanTransition(status[i], "ISSUED")
                     [] req[p].op = "void"  -> CanTransition(status[i], "VOID")
                     [] req[p].op = "pay"   -> CanTransition(status[i], "PAID")
    IN
    /\ pc[p] = "lock"
    /\ lock[i] = None
    /\ \/ /\ allowed
          /\ lock' = [lock EXCEPT ![i] = p]
          /\ row' = [row EXCEPT ![p] = [status |-> status[i], issuedTo |-> issuedTo[i]]]
          /\ Continue(p, IF req[p].op = "pay" THEN "insert" ELSE "validate")
          /\ UNCHANGED <<tables, target>>
       \/ ~allowed /\ Refuse(p)
    /\ UNCHANGED <<due, job, crashes>>

\* SELECT ... FOR UPDATE waits for the row lock and reads the row as it is
\* then.  Issue and void assert their transition on it at once; a payment
\* looks its idempotency key up first.
LockInvoice(p) ==
    LET r == req[p]
        i == r.invoice
        allowed == CASE r.op = "issue" -> CanTransition(status[i], "ISSUED")
                     [] r.op = "void"  -> CanTransition(status[i], "VOID")
                     [] r.op = "pay"   -> TRUE
    IN
    /\ pc[p] = "lock"
    /\ lock[i] = None
    /\ \/ /\ allowed
          /\ lock' = [lock EXCEPT ![i] = p]
          /\ row' = [row EXCEPT ![p] = [status |-> status[i], issuedTo |-> issuedTo[i]]]
          /\ Continue(p, IF r.op = "pay" THEN "insert" ELSE "validate")
          /\ UNCHANGED <<tables, target>>
       \/ ~allowed /\ Refuse(p)
    /\ UNCHANGED <<due, job, crashes>>

\* Mutation: the key is looked up with a SELECT, which does not see, or wait
\* for, a payment that has not committed.
InsertPayment_SelectFirst(p) ==
    LET committed == CommittedWith(req[p].key) IN
    /\ pc[p] = "insert"
    /\ \/ /\ committed = {}
          /\ Continue(p, "validate")
          /\ UNCHANGED <<lock, row, target>>
       \/ req[p] \in committed /\ EndHandler(p, "replayed")
       \/ committed # {} /\ req[p] \notin committed /\ EndHandler(p, "refused")
    /\ UNCHANGED <<tables, due, job, crashes>>

\* INSERT ... ON CONFLICT (tenant_id, idempotency_key) DO NOTHING: waits for
\* a transaction that has the key in flight, inserts if the key is free, and
\* otherwise the existing payment is replayed, or the key refused if it was
\* used for another request.
InsertPayment(p) ==
    LET committed == CommittedWith(req[p].key) IN
    /\ pc[p] = "insert"
    /\ ~\E q \in Procs \ {p} : HoldsKey(q, req[p].key)
    /\ \/ /\ committed = {}
          /\ Continue(p, "validate")
          /\ UNCHANGED <<lock, row, target>>
       \/ req[p] \in committed /\ EndHandler(p, "replayed")
       \/ committed # {} /\ req[p] \notin committed /\ EndHandler(p, "refused")
    /\ UNCHANGED <<tables, due, job, crashes>>

\* Issue: the account checks, before the entry and the row are written.
ValidateIssue(p) ==
    LET receivable == req[p].accounts[1]
        revenue == req[p].accounts[2]
        valid == /\ {receivable, revenue} \subseteq Usable
                 /\ AccountType[receivable] = "ASSET"
                 /\ AccountType[revenue] = "REVENUE"
    IN
    /\ pc[p] = "validate"
    /\ req[p].op = "issue"
    /\ \/ valid /\ Continue(p, "commit") /\ UNCHANGED <<tables, lock, row, target>>
       \/ ~valid /\ Refuse(p)
    /\ UNCHANGED <<due, job, crashes>>

StatusAfter(i, sum) == IF sum = Total[i] THEN "PAID" ELSE "PARTIALLY_PAID"

\* Mutation: any account in the invoice's currency may be credited.
ValidatePayment_AnyReceivable(p) ==
    LET r == req[p]
        i == r.invoice
        sum == Paid(i) + r.amount
        valid == /\ {r.accounts[1], r.accounts[2]} \subseteq Usable
                 /\ sum <= Total[i]
                 /\ CanTransition(row[p].status, StatusAfter(i, sum))
    IN
    /\ pc[p] = "validate"
    /\ r.op = "pay"
    /\ \/ /\ valid
          /\ target' = [target EXCEPT ![p] = StatusAfter(i, sum)]
          /\ Continue(p, "commit")
          /\ UNCHANGED <<tables, lock, row>>
       \/ ~valid /\ Refuse(p)
    /\ UNCHANGED <<due, job, crashes>>

\* Payment: the account checks, then the sum of the committed payments and of
\* the one just inserted, and the status it leads to.
ValidatePayment(p) ==
    LET r == req[p]
        i == r.invoice
        sum == Paid(i) + r.amount
        valid == /\ {r.accounts[1], r.accounts[2]} \subseteq Usable
                 /\ row[p].issuedTo \in {None, r.accounts[2]}
                 /\ sum <= Total[i]
                 /\ CanTransition(row[p].status, StatusAfter(i, sum))
    IN
    /\ pc[p] = "validate"
    /\ r.op = "pay"
    /\ \/ /\ valid
          /\ target' = [target EXCEPT ![p] = StatusAfter(i, sum)]
          /\ Continue(p, "commit")
          /\ UNCHANGED <<tables, lock, row>>
       \/ ~valid /\ Refuse(p)
    /\ UNCHANGED <<due, job, crashes>>

\* Void: an invoice with payments is not voided.
ValidateVoid(p) ==
    /\ pc[p] = "validate"
    /\ req[p].op = "void"
    /\ \/ Paid(req[p].invoice) = 0 /\ Continue(p, "commit") /\ UNCHANGED <<tables, lock, row, target>>
       \/ Paid(req[p].invoice) > 0 /\ Refuse(p)
    /\ UNCHANGED <<due, job, crashes>>

\* The entry lines of a balanced journal entry: debit one account, credit
\* another, which may be the same.
Post(i, debit, credit, amount) ==
    posted' = [posted EXCEPT ![i] =
                  [a \in Accounts |-> @[a] + (IF a = debit THEN amount ELSE 0)
                                           - (IF a = credit THEN amount ELSE 0)]]

\* UPDATE invoices SET status and INSERT INTO invoice_status_history.  A row of
\* the history says when its transaction began (changed_at defaults to now()),
\* and not when it got the row lock or committed: the rows are a bag.
SetStatus(i, from, to) ==
    /\ status' = [status EXCEPT ![i] = to]
    /\ history' = [history EXCEPT ![i] =
                      IF from = to THEN @ ELSE BagAdd(@, Step(from, to))]

CommitIssue(p) ==
    LET i == req[p].invoice
        receivable == req[p].accounts[1]
        revenue == req[p].accounts[2]
    IN
    /\ pc[p] = "commit"
    /\ req[p].op = "issue"
    /\ Post(i, receivable, revenue, Total[i])
    /\ issuedTo' = [issuedTo EXCEPT ![i] = receivable]
    /\ SetStatus(i, row[p].status, "ISSUED")
    /\ EndHandler(p, "done")
    /\ UNCHANGED <<payments, due, job, crashes>>

\* Mutation: the payment row is written without its idempotency key.
CommitPayment_NoKey(p) ==
    LET r == req[p]
        i == r.invoice
    IN
    /\ pc[p] = "commit"
    /\ r.op = "pay"
    /\ payments' = [payments EXCEPT ![i] =
                       Append(@, [key |-> None, amount |-> r.amount, accounts |-> r.accounts])]
    /\ Post(i, r.accounts[1], r.accounts[2], r.amount)
    /\ SetStatus(i, row[p].status, target[p])
    /\ EndHandler(p, "done")
    /\ UNCHANGED <<issuedTo, due, job, crashes>>

CommitPayment(p) ==
    LET r == req[p]
        i == r.invoice
    IN
    /\ pc[p] = "commit"
    /\ r.op = "pay"
    /\ payments' = [payments EXCEPT ![i] =
                       Append(@, [key |-> r.key, amount |-> r.amount, accounts |-> r.accounts])]
    /\ Post(i, r.accounts[1], r.accounts[2], r.amount)
    /\ SetStatus(i, row[p].status, target[p])
    /\ EndHandler(p, "done")
    /\ UNCHANGED <<issuedTo, due, job, crashes>>

\* Mutation: voiding forgets its history row.
CommitVoid_NoHistory(p) ==
    /\ pc[p] = "commit"
    /\ req[p].op = "void"
    /\ status' = [status EXCEPT ![req[p].invoice] = "VOID"]
    /\ EndHandler(p, "done")
    /\ UNCHANGED <<history, issuedTo, payments, posted, due, job, crashes>>

CommitVoid(p) ==
    /\ pc[p] = "commit"
    /\ req[p].op = "void"
    /\ SetStatus(req[p].invoice, row[p].status, "VOID")
    /\ EndHandler(p, "done")
    /\ UNCHANGED <<issuedTo, payments, posted, due, job, crashes>>

-----------------------------------------------------------------------------
(* markOverdueInvoices *)

\* Mutation: partially paid invoices are not candidates.
SelectCandidates_IssuedOnly(j) ==
    /\ pc[j] = "idle"
    /\ pc' = [pc EXCEPT ![j] = "next"]
    /\ todo' = [todo EXCEPT ![j] =
                   {<<i, status[i]>> : i \in {k \in Invoices : due[k] /\ status[k] = "ISSUED"}}]
    /\ UNCHANGED <<tables, due, lock, handler, current, marked, crashes>>

\* The job reads its candidates without locking them.
SelectCandidates(j) ==
    /\ pc[j] = "idle"
    /\ pc' = [pc EXCEPT ![j] = "next"]
    /\ todo' = [todo EXCEPT ![j] =
                   {<<i, status[i]>> : i \in {k \in Invoices :
                        due[k] /\ status[k] \in StatusThatCanReach("OVERDUE")}}]
    /\ UNCHANGED <<tables, due, lock, handler, current, marked, crashes>>

\* The SELECT has no ORDER BY: the loop meets the candidates in any order.
NextCandidate(j, c) ==
    /\ pc[j] = "next"
    /\ c \in todo[j]
    /\ todo' = [todo EXCEPT ![j] = @ \ {c}]
    /\ current' = [current EXCEPT ![j] = c]
    /\ pc' = [pc EXCEPT ![j] = "update"]
    /\ UNCHANGED <<tables, due, lock, handler, marked, crashes>>

\* Mutation: the UPDATE does not check the status again.
UpdateCandidate_NoRecheck(j) ==
    /\ pc[j] = "update"
    /\ lock[current[j][1]] = None
    /\ lock' = [lock EXCEPT ![current[j][1]] = j]
    /\ marked' = [marked EXCEPT ![j] = @ \cup {current[j]}]
    /\ current' = [current EXCEPT ![j] = None]
    /\ pc' = [pc EXCEPT ![j] = "next"]
    /\ UNCHANGED <<tables, due, handler, todo, crashes>>

\* UPDATE ... WHERE id = ... AND status IN ...: waits for the row lock, then
\* evaluates the WHERE clause on the row as it is.
UpdateCandidate(j) ==
    LET i == current[j][1]
        matches == status[i] \in StatusThatCanReach("OVERDUE")
    IN
    /\ pc[j] = "update"
    /\ lock[i] = None
    /\ \/ /\ matches
          /\ lock' = [lock EXCEPT ![i] = j]
          /\ marked' = [marked EXCEPT ![j] = @ \cup {current[j]}]
       \/ ~matches /\ UNCHANGED <<lock, marked>>
    /\ current' = [current EXCEPT ![j] = None]
    /\ pc' = [pc EXCEPT ![j] = "next"]
    /\ UNCHANGED <<tables, due, handler, todo, crashes>>

EndJob(j) ==
    /\ lock' = Released(j)
    /\ pc' = [pc EXCEPT ![j] = "idle"]
    /\ todo' = [todo EXCEPT ![j] = {}]
    /\ current' = [current EXCEPT ![j] = None]
    /\ marked' = [marked EXCEPT ![j] = {}]

\* The history row takes its from_status from the candidate list.
CommitJob(j) ==
    /\ pc[j] = "next"
    /\ todo[j] = {}
    /\ status' = [i \in Invoices |->
                     IF \E c \in marked[j] : c[1] = i THEN "OVERDUE" ELSE status[i]]
    /\ history' = [i \in Invoices |->
                      IF \E c \in marked[j] : c[1] = i
                      THEN BagAdd(history[i],
                               Step((CHOOSE c \in marked[j] : c[1] = i)[2], "OVERDUE"))
                      ELSE history[i]]
    /\ EndJob(j)
    /\ UNCHANGED <<issuedTo, payments, posted, due, handler, crashes>>

-----------------------------------------------------------------------------
(* Environment *)

\* The transaction of w is rolled back before it commits.  A handler's client
\* gets no answer it can use; a job is run again by BullMQ or the scheduler.
Rollback(w) ==
    /\ UNCHANGED <<tables, due>>
    /\ \/ w \in Procs /\ EndHandler(w, "none") /\ UNCHANGED job
       \/ w \in Jobs /\ EndJob(w) /\ UNCHANGED handler

\* A process or its database connection is lost.
Crash(w) ==
    /\ pc[w] # "idle"
    /\ crashes < MaxCrashes
    /\ crashes' = crashes + 1
    /\ Rollback(w)

\* PostgreSQL's deadlock detector aborts a transaction of the cycle (40P01).
AbortDeadlock(w) ==
    /\ Deadlocked(w)
    /\ Rollback(w)
    /\ UNCHANGED crashes

DueDatePasses(i) ==
    /\ ~due[i]
    /\ due' = [due EXCEPT ![i] = TRUE]
    /\ UNCHANGED <<tables, lock, pc, handler, job, crashes>>

HandlerStep(p) ==
    \/ LockInvoice(p) \/ InsertPayment(p)
    \/ ValidateIssue(p) \/ ValidatePayment(p) \/ ValidateVoid(p)
    \/ CommitIssue(p) \/ CommitPayment(p) \/ CommitVoid(p)

JobStep(j) ==
    \/ SelectCandidates(j)
    \/ \E c \in todo[j] : NextCandidate(j, c)
    \/ UpdateCandidate(j)
    \/ CommitJob(j)

Next ==
    \/ \E p \in Procs : \E r \in Request : StartRequest(p, r)
    \/ \E p \in Procs : HandlerStep(p)
    \/ \E j \in Jobs : JobStep(j)
    \/ \E w \in Workers : Crash(w) \/ AbortDeadlock(w)
    \/ \E i \in Invoices : DueDatePasses(i)

Spec == Init /\ [][Next]_vars

\* The event loop runs every continuation, PostgreSQL serves the waiters of a
\* lock and breaks every deadlock, and the scheduler runs the job every day.
\* Nobody has to send a request.
Fairness ==
    /\ \A p \in Procs : SF_vars(HandlerStep(p))
    /\ \A j \in Jobs : SF_vars(JobStep(j))
    /\ \A w \in Workers : WF_vars(AbortDeadlock(w))

FairSpec == Spec /\ Fairness

-----------------------------------------------------------------------------
(* Properties *)

PC == {"idle", "lock", "insert", "validate", "commit", "next", "update"}

\* The history of an invoice is a bag of changes.
HistoryOK ==
    /\ DOMAIN history = Invoices
    /\ \A i \in Invoices : IsBag(history[i]) /\ DOMAIN history[i] \subseteq Change

\* Every variable has the type the schema and the code give it.
TypeOK ==
    /\ status \in [Invoices -> Status]
    /\ issuedTo \in [Invoices -> Accounts \cup {None}]
    /\ payments \in [Invoices -> Seq(Payment)]
    /\ HistoryOK
    /\ posted \in [Invoices -> [Accounts -> Int]]
    /\ due \in [Invoices -> BOOLEAN]
    /\ lock \in [Invoices -> Workers \cup {None}]
    /\ pc \in [Workers -> PC]
    /\ req \in [Procs -> Request \cup {None}]
    /\ answer \in [Procs -> Answer]
    /\ row \in [Procs -> Row \cup {None}]
    /\ target \in [Procs -> Status \cup {None}]
    /\ todo \in [Jobs -> SUBSET Candidate]
    /\ current \in [Jobs -> Candidate \cup {None}]
    /\ marked \in [Jobs -> SUBSET Candidate]
    /\ crashes \in 0 .. MaxCrashes

\* Whatever the interleaving of payments, voids and overdue jobs, the status
\* and the payment rows of an invoice tell one story: never overpaid, nothing
\* paid on a draft or voided invoice, PAID exactly when paid in full.
StatusMatchesPayments ==
    \A i \in Invoices :
        /\ Paid(i) <= Total[i]
        /\ status[i] \in {"DRAFT", "ISSUED", "VOID"} => payments[i] = <<>>
        /\ status[i] = "PARTIALLY_PAID" => payments[i] # <<>>
        /\ status[i] = "PAID" <=> Paid(i) = Total[i]

\* An idempotency key pays once, also when two requests race with it on two
\* different invoices, whose row locks do not exclude each other.
OnePaymentPerKey ==
    \A i, j \in Invoices : \A n \in DOMAIN payments[i], m \in DOMAIN payments[j] :
        payments[i][n].key = payments[j][m].key => i = j /\ n = m

\* The ledger agrees with the invoice: the account an invoice was issued to
\* carries its total less what was paid into another account.
ReceivableNetsOut ==
    \A i \in Invoices :
        issuedTo[i] # None =>
            posted[i][issuedTo[i]] =
                Total[i] - SumOver(i, {n \in DOMAIN payments[i] :
                                          payments[i][n].accounts[1] # issuedTo[i]})

\* A client that repeats a payment which has committed, with the same key and
\* body, is never refused: not even when that payment settled the invoice.
RetryIsReplayed ==
    [][\A p \in Procs :
           /\ req[p] \in PayRequest
           /\ req[p] \in CommittedWith(req[p].key)
           => answer'[p] \notin {"done", "refused"}]_vars

\* A row read FOR UPDATE is still the committed row when the handler that
\* read it commits, so every decision it took on the row is current.
LockedRowIsCurrent ==
    \A p \in Procs :
        pc[p] \in {"insert", "validate", "commit"} =>
            LET i == req[p].invoice IN
            /\ lock[i] = p
            /\ row[p] = [status |-> status[i], issuedTo |-> issuedTo[i]]

\* ISSUED stands for PARTIALLY_PAID too: the from_status a job writes cannot be
\* relied on to tell them apart.
Phase(s) == IF s \in StatusThatCanReach("OVERDUE") THEN "ISSUED" ELSE s

\* How often the rows h enter a phase, less how often they leave it.
Surplus(h, phase) ==
    SumFunctionOnSet([c \in DOMAIN h |->
        IF Phase(c.from) = Phase(c.to) THEN 0
        ELSE IF Phase(c.to) = phase THEN h[c]
        ELSE IF Phase(c.from) = phase THEN -h[c]
        ELSE 0], DOMAIN h)

\* The rows of invoice_status_history account for the status of their invoice,
\* although no column tells which of them was committed last: they leave every
\* phase as often as they enter it, but for the one the invoice is in.  No
\* interleaving of requests and overdue jobs loses a row, writes one twice or
\* writes one that starts where the invoice was not.
HistoryTellsStatus ==
    \A i \in Invoices : \A s \in Status :
        Surplus(history[i], Phase(s)) = IF Phase(s) = Phase(status[i]) THEN 1 ELSE 0

\* invoice.service.js implements the atomic life cycle.
Lifecycle == INSTANCE InvoiceLifecycle WITH paid <- [i \in Invoices |-> Paid(i)]

ImplementsLifecycle == Lifecycle!Spec

\* Every request is answered, although it may wait for a row lock of a job in a
\* deadlock or of another request, and then, with that lock, for an idempotency
\* key which a request on another invoice has in flight.
RequestsEnd == \A p \in Procs : pc[p] # "idle" ~> pc[p] = "idle"

\* A past-due invoice does not stay ISSUED or PARTIALLY_PAID: a job gets to
\* it, or a payment or a void before the job, in spite of aborted jobs.
PastDueIsMarked ==
    \A i \in Invoices :
        due[i] /\ status[i] \in StatusThatCanReach("OVERDUE")
            ~> status[i] \notin StatusThatCanReach("OVERDUE")

\* README.md:22 "Every transition is written to invoice_status_history".
EveryTransitionIsWritten ==
    [][\A i \in Invoices :
           status'[i] # status[i] =>
               history'[i] = BagAdd(history[i], Step(status[i], status'[i]))]_vars

\* invoice.service.js:46-47 "a fully paid invoice nets AR back to zero".
FullyPaidNetsToZero ==
    \A i \in Invoices :
        status[i] = "PAID" /\ issuedTo[i] # None => posted[i][issuedTo[i]] = 0
=============================================================================
