------------------------ MODULE InvoiceService_proofs ------------------------
(***************************************************************************)
(* What the row lock and the idempotency key of the invoice handlers give, *)
(* for any number of handlers, overdue jobs, invoices and keys.            *)
(***************************************************************************)
EXTENDS InvoiceService, SumTheorems

Working == {"insert", "validate", "commit"}

\* Which statements a worker can be at, and what a handler holds there.
Control ==
    /\ \A p \in Procs :
          /\ pc[p] \in {"idle", "lock"} \cup Working
          /\ pc[p] = "idle" => req[p] = None
          /\ pc[p] # "idle" => req[p] \in Request /\ answer[p] = "none"
          /\ pc[p] = "insert" => req[p].op = "pay"
    /\ \A j \in Jobs :
          /\ pc[j] \in {"idle", "next", "update"}
          /\ pc[j] = "update" => current[j] \in Candidate

\* A worker that has read or written an invoice row holds its lock, and the
\* row has not changed since.
Locking ==
    /\ LockedRowIsCurrent
    /\ \A j \in Jobs : \A c \in marked[j] :
          /\ lock[c[1]] = j
          /\ CanTransition(status[c[1]], "OVERDUE")

\* A handler past its checks takes a transition the state machine allows.
Decision ==
    \A p \in Procs :
        /\ pc[p] \in {"validate", "commit"} /\ req[p].op = "issue"
              => CanTransition(row[p].status, "ISSUED")
        /\ pc[p] \in {"validate", "commit"} /\ req[p].op = "void"
              => CanTransition(row[p].status, "VOID")
        /\ pc[p] = "commit" /\ req[p].op = "pay"
              => /\ target[p] \in {"PAID", "PARTIALLY_PAID"}
                 /\ CanTransition(row[p].status, target[p])

\* One handler at a time has a key in flight, and nobody has committed it.
KeyExclusion ==
    \A p \in Procs : \A k \in Keys :
        HoldsKey(p, k) =>
            /\ \A q \in Procs : HoldsKey(q, k) => q = p
            /\ \A i \in Invoices : \A n \in DOMAIN payments[i] : payments[i][n].key # k

Inv == TypeOK /\ Control /\ Locking /\ Decision /\ KeyExclusion /\ OnePaymentPerKey

-----------------------------------------------------------------------------
(* Facts about the data *)

\* What a request is made of.
LEMMA RequestShape ==
    \A r \in Request :
        /\ r.op \in {"issue", "void", "pay"}
        /\ r.invoice \in Invoices
        /\ r.op = "issue" => r \in IssueRequest /\ r.accounts \in IssueAccounts
        /\ r.op = "pay" <=> r \in PayRequest
        /\ r.op = "pay" => /\ r.amount \in Amounts
                           /\ r.accounts \in PayAccounts
                           /\ r.key \in Keys
  BY DEF Request, IssueRequest, VoidRequest, PayRequest

\* What accounts and candidates are.
LEMMA PairShape ==
    /\ \A x \in IssueAccounts \cup PayAccounts : x[1] \in Accounts /\ x[2] \in Accounts
    /\ \A c \in Candidate : c[1] \in Invoices /\ c[2] \in Status
  BY ServiceAssumption DEF Candidate

\* The facts about the transition table that the steps need.
LEMMA Transitions ==
    /\ \A s, t : CanTransition(s, t) /\ s \in Status => t \in Status
    /\ "ISSUED" \in Status /\ "VOID" \in Status /\ "OVERDUE" \in Status
    /\ "PAID" \in Status /\ "PARTIALLY_PAID" \in Status /\ "DRAFT" \in Status
    /\ \A s : s \in StatusThatCanReach("OVERDUE") =>
                 s \in Status /\ CanTransition(s, "OVERDUE")
  BY DEF AllowedTransitions, CanTransition, Status, StatusThatCanReach

\* The two statuses a payment leads to.
LEMMA StatusAfterType == \A i, sum : StatusAfter(i, sum) \in {"PAID", "PARTIALLY_PAID"}
  BY DEF StatusAfter

\* Init establishes the invariant: no worker has started.
LEMMA InitInv == Init => Inv
<1> SUFFICES ASSUME Init PROVE Inv
  OBVIOUS
<1>1. TypeOK
  <2>1. /\ status \in [Invoices -> Status]
        /\ HistoryOK
        /\ payments \in [Invoices -> Seq(Payment)]
    <3>1. Step(None, "DRAFT") \in Change /\ Step("DRAFT", "ISSUED") \in Change
      BY Transitions DEF Step, Change
    <3>2. HistoryOK
      BY <3>1 DEF Init, HistoryOK, OneOfEach, IsBag
    <3>3. <<>> \in Seq(Payment)
      OBVIOUS
    <3> QED  BY <3>2, <3>3, Transitions DEF Init
  <2>2. /\ issuedTo \in [Invoices -> Accounts \cup {None}]
        /\ posted \in [Invoices -> [Accounts -> Int]]
        /\ due \in [Invoices -> BOOLEAN]
        /\ lock \in [Invoices -> Workers \cup {None}]
        /\ pc \in [Workers -> PC]
        /\ crashes \in 0 .. MaxCrashes
    BY ServiceAssumption DEF Init, PC
  <2>3. /\ req \in [Procs -> Request \cup {None}]
        /\ answer \in [Procs -> Answer]
        /\ row \in [Procs -> Row \cup {None}]
        /\ target \in [Procs -> Status \cup {None}]
        /\ todo \in [Jobs -> SUBSET Candidate]
        /\ current \in [Jobs -> Candidate \cup {None}]
        /\ marked \in [Jobs -> SUBSET Candidate]
    BY DEF Init, Answer
  <2> QED  BY <2>1, <2>2, <2>3 DEF TypeOK
<1>2. Control
  BY ServiceAssumption DEF Init, Control, Workers
<1>3. Locking /\ Decision /\ KeyExclusion
  BY DEF Init, Locking, LockedRowIsCurrent, Decision, KeyExclusion, HoldsKey, Workers
<1>4. OnePaymentPerKey
  BY DEF Init, OnePaymentPerKey
<1> QED  BY <1>1, <1>2, <1>3, <1>4 DEF Inv

-----------------------------------------------------------------------------
(* Every step of a handler preserves the invariant *)

\* A request comes in.
LEMMA StartRequestInv ==
    ASSUME Inv, NEW p \in Procs, NEW r \in Request, StartRequest(p, r)
    PROVE  Inv'
<1>1. TypeOK'
  BY DEF Inv, StartRequest, TypeOK, HistoryOK, PC, Answer, Workers, tables, job
<1>2. Control'
  BY ServiceAssumption DEF Inv, StartRequest, Control, Working, TypeOK, Workers, job
<1>3. Locking'
  BY DEF Inv, StartRequest, Locking, LockedRowIsCurrent, TypeOK, Workers, tables, job
<1>4. Decision'
  BY DEF Inv, StartRequest, Decision, TypeOK, Workers
<1>5. KeyExclusion' /\ OnePaymentPerKey'
  BY DEF Inv, StartRequest, KeyExclusion, OnePaymentPerKey, HoldsKey, TypeOK, Workers, tables
<1> QED  BY <1>1, <1>2, <1>3, <1>4, <1>5 DEF Inv

\* The parts of the invariant that a transaction leaves behind when it rolls
\* back, or commits nothing.
LEMMA EndHandlerInv ==
    ASSUME Inv, NEW p \in Procs, NEW result \in Answer,
           EndHandler(p, result), UNCHANGED <<tables, due, job>>,
           crashes' \in 0 .. MaxCrashes
    PROVE  Inv'
<1>1. TypeOK'
  BY DEF Inv, EndHandler, Released, TypeOK, HistoryOK, PC, Workers, tables, job
<1>2. Control'
  BY ServiceAssumption DEF Inv, EndHandler, Control, Working, TypeOK, Workers, job
<1>3. LockedRowIsCurrent'
  <2> SUFFICES ASSUME NEW q \in Procs, pc'[q] \in Working
               PROVE  LET i == req'[q].invoice IN
                      /\ lock'[i] = q
                      /\ row'[q] = [status |-> status'[i], issuedTo |-> issuedTo'[i]]
    BY DEF LockedRowIsCurrent, Working
  <2>1. q # p /\ pc[q] \in Working /\ req'[q] = req[q] /\ row'[q] = row[q]
    BY DEF Inv, EndHandler, TypeOK, Workers, Working
  <2>2. req[q].invoice \in Invoices
    BY <2>1, RequestShape DEF Inv, Control, Working
  <2> QED
    BY <2>1, <2>2 DEF Inv, EndHandler, Released, Locking, LockedRowIsCurrent, Working, tables
<1>4. Locking'
  <2> SUFFICES ASSUME NEW j \in Jobs, NEW c \in marked[j]
               PROVE  lock'[c[1]] = j /\ CanTransition(status[c[1]], "OVERDUE")
    BY <1>3 DEF Locking, tables, job
  <2>1. c[1] \in Invoices
    BY PairShape DEF Inv, TypeOK
  <2>2. lock[c[1]] = j /\ CanTransition(status[c[1]], "OVERDUE")
    BY DEF Inv, Locking
  <2>3. j # p
    BY ServiceAssumption
  <2> QED  BY <2>1, <2>2, <2>3 DEF EndHandler, Released
<1>5. Decision'
  BY DEF Inv, EndHandler, Decision, TypeOK, Workers
<1>6. KeyExclusion' /\ OnePaymentPerKey'
  BY DEF Inv, EndHandler, KeyExclusion, OnePaymentPerKey, HoldsKey, TypeOK, Workers, tables
<1> QED  BY <1>1, <1>2, <1>4, <1>5, <1>6 DEF Inv

\* A refusal ends a handler.
LEMMA RefuseInv ==
    ASSUME Inv, NEW p \in Procs, Refuse(p), UNCHANGED <<due, job, crashes>>
    PROVE  Inv'
<1>1. crashes' \in 0 .. MaxCrashes
  BY DEF Inv, TypeOK
<1> QED  BY <1>1, EndHandlerInv DEF Refuse, Answer

\* SELECT ... FOR UPDATE.
LEMMA LockInvoiceInv ==
    ASSUME Inv, NEW p \in Procs, LockInvoice(p)
    PROVE  Inv'
<1> DEFINE i == req[p].invoice
           next == IF req[p].op = "pay" THEN "insert" ELSE "validate"
<1>1. req[p] \in Request /\ i \in Invoices /\ req[p].op \in {"issue", "void", "pay"}
  BY RequestShape DEF Inv, Control, LockInvoice
<1>2. CASE Refuse(p)
  BY <1>2, RefuseInv DEF LockInvoice
<1>3. CASE ~Refuse(p)
  <2>1. /\ pc[p] = "lock" /\ lock[i] = None
        /\ lock' = [lock EXCEPT ![i] = p]
        /\ row' = [row EXCEPT ![p] = [status |-> status[i], issuedTo |-> issuedTo[i]]]
        /\ pc' = [pc EXCEPT ![p] = next]
        /\ UNCHANGED <<req, answer, target, tables, due, job, crashes>>
    BY <1>3 DEF LockInvoice, Continue
  <2>2. req[p].op = "issue" => CanTransition(status[i], "ISSUED")
    BY <1>1, <1>3 DEF LockInvoice
  <2>3. req[p].op = "void" => CanTransition(status[i], "VOID")
    BY <1>1, <1>3 DEF LockInvoice
  <2>4. TypeOK'
    <3>1. [status |-> status[i], issuedTo |-> issuedTo[i]] \in Row
      BY <1>1 DEF Inv, TypeOK, Row
    <3> QED  BY <1>1, <2>1, <3>1 DEF Inv, TypeOK, HistoryOK, PC, Workers, tables, job
  <2>5. Control'
    BY <1>1, <2>1, ServiceAssumption DEF Inv, Control, Working, TypeOK, Workers, job
  <2>6. LockedRowIsCurrent'
    <3> SUFFICES ASSUME NEW q \in Procs, pc'[q] \in Working
                 PROVE  LET k == req'[q].invoice IN
                        /\ lock'[k] = q
                        /\ row'[q] = [status |-> status'[k], issuedTo |-> issuedTo'[k]]
      BY DEF LockedRowIsCurrent, Working
    <3>1. CASE q = p
      BY <1>1, <2>1, <3>1 DEF Inv, TypeOK, tables
    <3>2. CASE q # p
      <4>1. pc[q] \in Working
        BY <2>1, <3>2 DEF Inv, TypeOK, Workers
      <4>2. req[q].invoice \in Invoices
        BY <4>1, RequestShape DEF Inv, Control, Working
      <4>3. /\ lock[req[q].invoice] = q
            /\ row[q] = [status |-> status[req[q].invoice],
                         issuedTo |-> issuedTo[req[q].invoice]]
        BY <4>1 DEF Inv, Locking, LockedRowIsCurrent, Working
      <4>4. req[q].invoice # i
        BY <2>1, <4>3, ServiceAssumption DEF Workers
      <4> QED  BY <2>1, <3>2, <4>2, <4>3, <4>4 DEF Inv, TypeOK, tables
    <3> QED  BY <3>1, <3>2
  <2>7. Locking'
    <3> SUFFICES ASSUME NEW j \in Jobs, NEW c \in marked[j]
                 PROVE  lock'[c[1]] = j /\ CanTransition(status[c[1]], "OVERDUE")
      BY <2>1, <2>6 DEF Locking, tables, job
    <3>1. c[1] \in Invoices
      BY PairShape DEF Inv, TypeOK
    <3>2. lock[c[1]] = j /\ CanTransition(status[c[1]], "OVERDUE")
      BY DEF Inv, Locking
    <3>3. c[1] # i
      BY <2>1, <3>2, ServiceAssumption DEF Workers
    <3> QED  BY <2>1, <3>1, <3>2, <3>3 DEF Inv, TypeOK
  <2>8. Decision'
    BY <1>1, <2>1, <2>2, <2>3 DEF Inv, Decision, TypeOK, Workers, tables
  <2>9. KeyExclusion' /\ OnePaymentPerKey'
    <3>1. \A q \in Procs, k \in Keys : HoldsKey(q, k)' => HoldsKey(q, k)
      BY <1>1, <2>1, RequestShape DEF HoldsKey, Inv, TypeOK, Workers
    <3> QED  BY <2>1, <3>1 DEF Inv, KeyExclusion, OnePaymentPerKey, tables
  <2> QED  BY <2>4, <2>5, <2>7, <2>8, <2>9 DEF Inv
<1> QED  BY <1>2, <1>3

\* INSERT ... ON CONFLICT, and the replay.
LEMMA InsertPaymentInv ==
    ASSUME Inv, NEW p \in Procs, InsertPayment(p)
    PROVE  Inv'
<1>1. req[p] \in PayRequest /\ req[p] \in Request /\ req[p].key \in Keys /\ req[p].op = "pay"
  BY RequestShape DEF Inv, Control, InsertPayment
<1>2. CASE EndHandler(p, "replayed") \/ EndHandler(p, "refused")
  <2>1. crashes' \in 0 .. MaxCrashes /\ "replayed" \in Answer /\ "refused" \in Answer
    BY DEF Inv, TypeOK, InsertPayment, Answer
  <2> QED  BY <1>2, <2>1, EndHandlerInv DEF InsertPayment
<1>3. CASE ~(EndHandler(p, "replayed") \/ EndHandler(p, "refused"))
  <2>1. /\ pc[p] = "insert"
        /\ ~\E q \in Procs \ {p} : HoldsKey(q, req[p].key)
        /\ CommittedWith(req[p].key) = {}
        /\ pc' = [pc EXCEPT ![p] = "validate"]
        /\ UNCHANGED <<req, answer, lock, row, target, tables, due, job, crashes>>
    BY <1>3 DEF InsertPayment, Continue
  <2>2. TypeOK'
    BY <2>1 DEF Inv, TypeOK, HistoryOK, PC, Workers, tables, job
  <2>3. Control'
    BY <2>1, ServiceAssumption DEF Inv, Control, Working, TypeOK, Workers, job
  <2>4. Locking'
    BY <2>1 DEF Inv, Locking, LockedRowIsCurrent, TypeOK, Workers, tables, job
  <2>5. Decision'
    BY <1>1, <2>1 DEF Inv, Decision, TypeOK, Workers
  <2>6. \A k \in Invoices : \A n \in DOMAIN payments[k] : payments[k][n].key # req[p].key
    BY <2>1 DEF CommittedWith
  <2>7. \A q \in Procs \ {p}, k \in Keys : HoldsKey(q, k)' <=> HoldsKey(q, k)
    BY <2>1 DEF HoldsKey, Inv, TypeOK, Workers
  <2>8. \A k \in Keys : HoldsKey(p, k)' => k = req[p].key
    BY <2>1 DEF HoldsKey
  <2>9. KeyExclusion' /\ OnePaymentPerKey'
    BY <2>1, <2>6, <2>7, <2>8 DEF Inv, KeyExclusion, OnePaymentPerKey, tables
  <2> QED  BY <2>2, <2>3, <2>4, <2>5, <2>9 DEF Inv
<1> QED  BY <1>2, <1>3

\* A handler that passes its checks changes nothing but its own state.
LEMMA PassChecksInv ==
    ASSUME Inv, NEW p \in Procs,
           pc[p] = "validate", pc' = [pc EXCEPT ![p] = "commit"],
           target' \in [Procs -> Status \cup {None}],
           \A q \in Procs \ {p} : target'[q] = target[q],
           req[p].op = "pay" => /\ target'[p] \in {"PAID", "PARTIALLY_PAID"}
                                /\ CanTransition(row[p].status, target'[p]),
           UNCHANGED <<req, answer, lock, row, tables, due, job, crashes>>
    PROVE  Inv'
<1>1. TypeOK'
  BY DEF Inv, TypeOK, HistoryOK, PC, Workers, tables, job
<1>2. Control'
  BY ServiceAssumption DEF Inv, Control, Working, TypeOK, Workers, job
<1>3. Locking'
  BY DEF Inv, Locking, LockedRowIsCurrent, TypeOK, Workers, tables, job
<1>4. Decision'
  BY DEF Inv, Decision, TypeOK, Workers
<1>5. \A q \in Procs, k \in Keys : HoldsKey(q, k)' <=> HoldsKey(q, k)
  BY DEF HoldsKey, Inv, TypeOK, Workers
<1>6. KeyExclusion' /\ OnePaymentPerKey'
  BY <1>5 DEF Inv, KeyExclusion, OnePaymentPerKey, tables
<1> QED  BY <1>1, <1>2, <1>3, <1>4, <1>6 DEF Inv

\* The checks between the reads and the writes.
LEMMA ValidateInv ==
    ASSUME Inv, NEW p \in Procs,
           ValidateIssue(p) \/ ValidatePayment(p) \/ ValidateVoid(p)
    PROVE  Inv'
<1>1. CASE Refuse(p)
  BY <1>1, RefuseInv DEF ValidateIssue, ValidatePayment, ValidateVoid
<1>2. CASE ~Refuse(p) /\ (ValidateIssue(p) \/ ValidateVoid(p))
  <2>1. /\ pc[p] = "validate" /\ pc' = [pc EXCEPT ![p] = "commit"]
        /\ req[p].op # "pay"
        /\ UNCHANGED <<req, answer, lock, row, target, tables, due, job, crashes>>
    BY <1>2 DEF ValidateIssue, ValidateVoid, Continue
  <2>2. target' \in [Procs -> Status \cup {None}]
    BY <2>1 DEF Inv, TypeOK
  <2> QED  BY <2>1, <2>2, PassChecksInv
<1>3. CASE ~Refuse(p) /\ ValidatePayment(p)
  <2> DEFINE t == StatusAfter(req[p].invoice, Paid(req[p].invoice) + req[p].amount)
  <2>1. /\ pc[p] = "validate" /\ pc' = [pc EXCEPT ![p] = "commit"]
        /\ CanTransition(row[p].status, t)
        /\ target' = [target EXCEPT ![p] = t]
        /\ UNCHANGED <<req, answer, lock, row, tables, due, job, crashes>>
    BY <1>3 DEF ValidatePayment, Continue
  <2>2. t \in {"PAID", "PARTIALLY_PAID"}
    BY StatusAfterType
  <2> HIDE DEF t
  <2>3. target' \in [Procs -> Status \cup {None}] /\ target'[p] = t
    BY <2>1, <2>2, Transitions DEF Inv, TypeOK
  <2>4. \A q \in Procs \ {p} : target'[q] = target[q]
    BY <2>1 DEF Inv, TypeOK
  <2> QED  BY <2>1, <2>2, <2>3, <2>4, PassChecksInv
<1> QED  BY <1>1, <1>2, <1>3

\* What a commit of handler p on its invoice i shares: p ends, and only i's
\* row changes.
LEMMA CommitFrame ==
    ASSUME Inv, NEW p \in Procs, pc[p] = "commit",
           NEW i, i = req[p].invoice,
           EndHandler(p, "done"), UNCHANGED <<job, due, crashes>>,
           \A k \in Invoices \ {i} : status'[k] = status[k] /\ issuedTo'[k] = issuedTo[k]
    PROVE  Control' /\ Locking' /\ Decision'
<1>1. Control'
  BY ServiceAssumption DEF Inv, EndHandler, Control, Working, TypeOK, Workers, job
<1>2. lock[i] = p /\ i \in Invoices
  BY RequestShape DEF Inv, Control, Locking, LockedRowIsCurrent
<1>3. LockedRowIsCurrent'
  <2> SUFFICES ASSUME NEW q \in Procs, pc'[q] \in Working
               PROVE  LET k == req'[q].invoice IN
                      /\ lock'[k] = q
                      /\ row'[q] = [status |-> status'[k], issuedTo |-> issuedTo'[k]]
    BY DEF LockedRowIsCurrent, Working
  <2>1. q # p /\ pc[q] \in Working /\ req'[q] = req[q] /\ row'[q] = row[q]
    BY DEF Inv, EndHandler, TypeOK, Workers, Working
  <2>2. req[q].invoice \in Invoices
    BY <2>1, RequestShape DEF Inv, Control, Working
  <2>3. /\ lock[req[q].invoice] = q
        /\ row[q] = [status |-> status[req[q].invoice],
                     issuedTo |-> issuedTo[req[q].invoice]]
    BY <2>1 DEF Inv, Locking, LockedRowIsCurrent, Working
  <2>4. req[q].invoice # i
    BY <1>2, <2>1, <2>3
  <2> QED  BY <2>1, <2>2, <2>3, <2>4 DEF EndHandler, Released
<1>4. Locking'
  <2> SUFFICES ASSUME NEW j \in Jobs, NEW c \in marked[j]
               PROVE  lock'[c[1]] = j /\ CanTransition(status'[c[1]], "OVERDUE")
    BY <1>3 DEF Locking, job
  <2>1. c[1] \in Invoices
    BY PairShape DEF Inv, TypeOK
  <2>2. lock[c[1]] = j /\ CanTransition(status[c[1]], "OVERDUE") /\ j # p
    BY ServiceAssumption DEF Inv, Locking
  <2>3. c[1] # i
    BY <1>2, <2>2
  <2> QED  BY <2>1, <2>2, <2>3 DEF EndHandler, Released
<1>5. Decision'
  BY DEF Inv, EndHandler, Decision, TypeOK, Workers
<1> QED  BY <1>1, <1>4, <1>5

\* What a handler holds at its commit: the lock, and a current row.
LEMMA CommitShape ==
    ASSUME Inv, NEW p \in Procs, pc[p] = "commit"
    PROVE  /\ req[p] \in Request /\ req[p].invoice \in Invoices
           /\ lock[req[p].invoice] = p
           /\ row[p].status = status[req[p].invoice]
           /\ row[p].status \in Status
<1>1. req[p] \in Request /\ req[p].invoice \in Invoices
  BY RequestShape DEF Inv, Control
<1>2. /\ lock[req[p].invoice] = p
      /\ row[p] = [status |-> status[req[p].invoice], issuedTo |-> issuedTo[req[p].invoice]]
  BY DEF Inv, Locking, LockedRowIsCurrent
<1> QED  BY <1>1, <1>2 DEF Inv, TypeOK

\* The end of a handler keeps the types of what it releases.
LEMMA EndHandlerTypes ==
    ASSUME Inv, NEW p \in Procs, EndHandler(p, "done"), UNCHANGED <<job, due, crashes>>
    PROVE  /\ due' \in [Invoices -> BOOLEAN]
           /\ lock' \in [Invoices -> Workers \cup {None}]
           /\ pc' \in [Workers -> PC]
           /\ req' \in [Procs -> Request \cup {None}]
           /\ answer' \in [Procs -> Answer]
           /\ row' \in [Procs -> Row \cup {None}]
           /\ target' \in [Procs -> Status \cup {None}]
           /\ todo' \in [Jobs -> SUBSET Candidate]
           /\ current' \in [Jobs -> Candidate \cup {None}]
           /\ marked' \in [Jobs -> SUBSET Candidate]
           /\ crashes' \in 0 .. MaxCrashes
  BY DEF Inv, EndHandler, Released, TypeOK, HistoryOK, PC, Workers, Answer, job

\* An entry keeps the type of the balances.
LEMMA PostType ==
    ASSUME Inv, NEW i \in Invoices, NEW debit, NEW credit, NEW amount \in Nat,
           Post(i, debit, credit, amount)
    PROVE  posted' \in [Invoices -> [Accounts -> Int]]
<1>1. posted[i] \in [Accounts -> Int]
  BY DEF Inv, TypeOK
<1>2. [a \in Accounts |-> posted[i][a] + (IF a = debit THEN amount ELSE 0)
                                       - (IF a = credit THEN amount ELSE 0)]
         \in [Accounts -> Int]
  BY <1>1
<1> QED  BY <1>2 DEF Post, Inv, TypeOK

\* A bag with one more row is a bag.
LEMMA BagAddType ==
    ASSUME NEW h, IsBag(h), NEW c
    PROVE  IsBag(BagAdd(h, c)) /\ DOMAIN BagAdd(h, c) = DOMAIN h \cup {c}
<1>1. PICK S : S = DOMAIN h /\ h \in [S -> Nat \ {0}]
  BY DEF IsBag
<1>2. PICK b : b = BagAdd(h, c)
  OBVIOUS
<1>3. \A x \in S : h[x] \in Nat \ {0} /\ h[x] + 1 \in Nat \ {0}
  BY <1>1
<1>4. DOMAIN b = S \cup {c} /\ b \in [S \cup {c} -> Nat \ {0}]
  <2>1. CASE c \in S
    <3>1. b = [x \in S |-> IF x = c THEN h[x] + 1 ELSE h[x]] /\ S \cup {c} = S
      BY <1>1, <1>2, <2>1 DEF BagAdd
    <3> QED  BY <1>3, <3>1
  <2>2. CASE c \notin S
    <3>1. b = [x \in S \cup {c} |-> IF x = c THEN 1 ELSE h[x]]
      BY <1>1, <1>2, <2>2 DEF BagAdd
    <3> QED  BY <1>3, <3>1
  <2> QED  BY <2>1, <2>2
<1> QED  BY <1>1, <1>2, <1>4 DEF IsBag

\* A change of status keeps the types of status and history, and the other invoices.
LEMMA SetStatusType ==
    ASSUME Inv, NEW i \in Invoices, NEW from \in Status, NEW to \in Status,
           SetStatus(i, from, to)
    PROVE  /\ status' \in [Invoices -> Status]
           /\ HistoryOK'
           /\ \A k \in Invoices \ {i} : status'[k] = status[k]
<1>1. Step(from, to) \in Change
  BY DEF Step, Change
<1>2. /\ DOMAIN history = Invoices
      /\ \A k \in Invoices : IsBag(history[k]) /\ DOMAIN history[k] \subseteq Change
  BY DEF Inv, TypeOK, HistoryOK
<1>3. IsBag(BagAdd(history[i], Step(from, to)))
      /\ DOMAIN BagAdd(history[i], Step(from, to)) \subseteq Change
  BY <1>1, <1>2, BagAddType
<1>4. HistoryOK'
  BY <1>2, <1>3 DEF SetStatus, HistoryOK
<1> QED  BY <1>4 DEF SetStatus, Inv, TypeOK

\* A commit without a payment leaves the keys alone.
LEMMA KeysUnchanged ==
    ASSUME Inv, NEW p \in Procs, EndHandler(p, "done"), UNCHANGED payments
    PROVE  KeyExclusion' /\ OnePaymentPerKey'
  BY DEF Inv, EndHandler, KeyExclusion, OnePaymentPerKey, HoldsKey, TypeOK, Workers

\* COMMIT of issueInvoice.
LEMMA CommitIssueInv ==
    ASSUME Inv, NEW p \in Procs, CommitIssue(p)
    PROVE  Inv'
<1> DEFINE i == req[p].invoice
<1>1. /\ req[p] \in Request /\ i \in Invoices /\ row[p].status \in Status
      /\ pc[p] = "commit" /\ req[p].accounts \in IssueAccounts
  BY CommitShape, RequestShape DEF CommitIssue
<1>2. /\ status' \in [Invoices -> Status]
      /\ HistoryOK'
      /\ \A k \in Invoices \ {i} : status'[k] = status[k]
  BY <1>1, SetStatusType, Transitions DEF CommitIssue
<1>3. issuedTo' \in [Invoices -> Accounts \cup {None}]
  BY <1>1, PairShape DEF CommitIssue, Inv, TypeOK
<1>4. posted' \in [Invoices -> [Accounts -> Int]]
  BY <1>1, PostType, ServiceAssumption DEF CommitIssue
<1>5. payments' \in [Invoices -> Seq(Payment)] /\ UNCHANGED payments
  BY DEF CommitIssue, Inv, TypeOK
<1>6. TypeOK'
  BY <1>2, <1>3, <1>4, <1>5, EndHandlerTypes DEF CommitIssue, TypeOK
<1>7. \A k \in Invoices \ {i} : issuedTo'[k] = issuedTo[k]
  BY DEF CommitIssue, Inv, TypeOK
<1>8. Control' /\ Locking' /\ Decision'
  BY <1>1, <1>2, <1>7, CommitFrame DEF CommitIssue
<1> QED  BY <1>5, <1>6, <1>8, KeysUnchanged DEF Inv, CommitIssue

\* COMMIT of voidInvoice.
LEMMA CommitVoidInv ==
    ASSUME Inv, NEW p \in Procs, CommitVoid(p)
    PROVE  Inv'
<1> DEFINE i == req[p].invoice
<1>1. i \in Invoices /\ row[p].status \in Status /\ pc[p] = "commit"
  BY CommitShape DEF CommitVoid
<1>2. /\ status' \in [Invoices -> Status]
      /\ HistoryOK'
      /\ \A k \in Invoices \ {i} : status'[k] = status[k]
  BY <1>1, SetStatusType, Transitions DEF CommitVoid
<1>3. TypeOK'
  BY <1>2, EndHandlerTypes DEF CommitVoid, Inv, TypeOK
<1>4. Control' /\ Locking' /\ Decision'
  BY <1>1, <1>2, CommitFrame DEF CommitVoid
<1> QED  BY <1>3, <1>4, KeysUnchanged DEF Inv, CommitVoid

\* COMMIT of createInvoicePayment.
LEMMA CommitPaymentInv ==
    ASSUME Inv, NEW p \in Procs, CommitPayment(p)
    PROVE  Inv'
<1> DEFINE i == req[p].invoice
           payment == [key |-> req[p].key, amount |-> req[p].amount,
                       accounts |-> req[p].accounts]
<1>1. /\ req[p] \in Request /\ i \in Invoices /\ row[p].status \in Status
      /\ pc[p] = "commit" /\ req[p].op = "pay"
  BY CommitShape DEF CommitPayment
<1>2. /\ req[p] \in PayRequest /\ req[p].key \in Keys
      /\ req[p].amount \in Amounts /\ req[p].amount \in Nat
      /\ req[p].accounts \in PayAccounts /\ payment \in Payment
  BY <1>1, RequestShape, ServiceAssumption DEF Payment
<1>3. target[p] \in Status
  BY <1>1, Transitions DEF Inv, Decision
<1>4. /\ status' \in [Invoices -> Status]
      /\ HistoryOK'
      /\ \A k \in Invoices \ {i} : status'[k] = status[k]
  BY <1>1, <1>3, SetStatusType DEF CommitPayment
<1>5. posted' \in [Invoices -> [Accounts -> Int]]
  BY <1>1, <1>2, PostType DEF CommitPayment
<1> HIDE DEF payment
<1>6. /\ payments' = [payments EXCEPT ![i] = Append(payments[i], payment)]
      /\ payments[i] \in Seq(Payment)
      /\ payments' \in [Invoices -> Seq(Payment)]
  <2>1. payments[i] \in Seq(Payment)
    BY <1>1 DEF Inv, TypeOK
  <2>2. Append(payments[i], payment) \in Seq(Payment)
    BY <1>2, <2>1
  <2>3. payments' = [payments EXCEPT ![i] = Append(payments[i], payment)]
    BY DEF CommitPayment, payment
  <2> QED  BY <2>1, <2>2, <2>3 DEF Inv, TypeOK
<1>7. TypeOK'
  BY <1>4, <1>5, <1>6, EndHandlerTypes DEF CommitPayment, Inv, TypeOK
<1>8. Control' /\ Locking' /\ Decision'
  BY <1>1, <1>4, CommitFrame DEF CommitPayment
<1>9. HoldsKey(p, req[p].key)
  BY <1>1, <1>2 DEF HoldsKey
<1>10. \A k \in Invoices : \A n \in DOMAIN payments[k] : payments[k][n].key # req[p].key
  BY <1>2, <1>9 DEF Inv, KeyExclusion
<1>11. \A k \in Invoices : \A n \in DOMAIN payments'[k] :
          \/ n \in DOMAIN payments[k] /\ payments'[k][n] = payments[k][n]
          \/ k = i /\ n = Len(payments[i]) + 1 /\ payments'[k][n].key = req[p].key
  <2>1. payment.key = req[p].key
    BY DEF payment
  <2> QED  BY <1>1, <1>6, <2>1 DEF Inv, TypeOK
<1>12. OnePaymentPerKey'
  <2> SUFFICES ASSUME NEW k \in Invoices, NEW l \in Invoices,
                      NEW n \in DOMAIN payments'[k], NEW m \in DOMAIN payments'[l],
                      payments'[k][n].key = payments'[l][m].key
               PROVE  k = l /\ n = m
    BY DEF OnePaymentPerKey
  <2>1. CASE n \in DOMAIN payments[k] /\ payments'[k][n] = payments[k][n]
    <3>1. m \in DOMAIN payments[l] /\ payments'[l][m] = payments[l][m]
      BY <1>10, <1>11, <2>1
    <3> QED  BY <2>1, <3>1 DEF Inv, OnePaymentPerKey
  <2>2. CASE k = i /\ n = Len(payments[i]) + 1 /\ payments'[k][n].key = req[p].key
    <3>1. l = i /\ m = Len(payments[i]) + 1
      BY <1>10, <1>11, <2>2
    <3> QED  BY <2>2, <3>1
  <2> QED  BY <1>11, <2>1, <2>2
<1>13. \A q \in Procs, k \in Keys : HoldsKey(q, k)' => q # p /\ HoldsKey(q, k)
  BY DEF CommitPayment, EndHandler, HoldsKey, Inv, TypeOK, Workers
<1>14. KeyExclusion'
  <2> SUFFICES ASSUME NEW q \in Procs, NEW k \in Keys, HoldsKey(q, k)'
               PROVE  /\ \A r \in Procs : HoldsKey(r, k)' => r = q
                      /\ \A l \in Invoices : \A n \in DOMAIN payments'[l] :
                            payments'[l][n].key # k
    BY DEF KeyExclusion
  <2>1. q # p /\ HoldsKey(q, k)
    BY <1>13
  <2>2. \A r \in Procs : HoldsKey(r, k)' => r = q
    BY <1>13, <2>1 DEF Inv, KeyExclusion
  <2>3. k # req[p].key
    BY <1>9, <2>1 DEF Inv, KeyExclusion
  <2>4. \A l \in Invoices : \A n \in DOMAIN payments[l] : payments[l][n].key # k
    BY <2>1 DEF Inv, KeyExclusion
  <2> QED  BY <1>11, <2>2, <2>3, <2>4
<1> QED  BY <1>7, <1>8, <1>12, <1>14 DEF Inv

-----------------------------------------------------------------------------
(* Every step of the overdue job, and of the environment, preserves it *)

\* The job's SELECT and the head of its loop.
LEMMA JobReadsInv ==
    ASSUME Inv, NEW j \in Jobs,
           SelectCandidates(j) \/ \E c \in todo[j] : NextCandidate(j, c)
    PROVE  Inv'
<1>1. UNCHANGED <<tables, due, lock, handler, marked, crashes>>
  BY DEF SelectCandidates, NextCandidate
<1>2. \A p \in Procs : pc'[p] = pc[p]
  BY ServiceAssumption DEF SelectCandidates, NextCandidate, Inv, TypeOK, Workers
<1>3. /\ pc' \in [Workers -> PC]
      /\ todo' \in [Jobs -> SUBSET Candidate]
      /\ current' \in [Jobs -> Candidate \cup {None}]
      /\ \A k \in Jobs : /\ pc'[k] \in {"idle", "next", "update"}
                         /\ pc'[k] = "update" => current'[k] \in Candidate
  <2>1. CASE SelectCandidates(j)
    <3>1. {<<i, status[i]>> : i \in {k \in Invoices :
              due[k] /\ status[k] \in StatusThatCanReach("OVERDUE")}} \subseteq Candidate
      BY DEF Inv, TypeOK, Candidate
    <3> QED  BY <2>1, <3>1 DEF SelectCandidates, Inv, TypeOK, Control, PC, Workers
  <2>2. ASSUME NEW c \in todo[j], NextCandidate(j, c)
        PROVE  <1>3
    <3>1. c \in Candidate
      BY DEF Inv, TypeOK
    <3> QED  BY <2>2, <3>1 DEF NextCandidate, Inv, TypeOK, Control, PC, Workers
  <2> QED  BY <2>1, <2>2
<1>4. TypeOK'
  BY <1>1, <1>3 DEF Inv, TypeOK, HistoryOK, tables, handler
<1>5. Control'
  BY <1>1, <1>2, <1>3 DEF Inv, Control, handler
<1>6. Locking'
  BY <1>1, <1>2 DEF Inv, Locking, LockedRowIsCurrent, tables, handler
<1>7. Decision'
  BY <1>1, <1>2 DEF Inv, Decision, handler
<1>8. KeyExclusion' /\ OnePaymentPerKey'
  BY <1>1, <1>2 DEF Inv, KeyExclusion, OnePaymentPerKey, HoldsKey, tables, handler
<1> QED  BY <1>4, <1>5, <1>6, <1>7, <1>8 DEF Inv

\* The job's guarded UPDATE.
LEMMA UpdateCandidateInv ==
    ASSUME Inv, NEW j \in Jobs, UpdateCandidate(j)
    PROVE  Inv'
<1> DEFINE c == current[j]
           i == c[1]
<1>1. c \in Candidate /\ i \in Invoices /\ pc[j] = "update" /\ lock[i] = None
  BY PairShape DEF UpdateCandidate, Inv, Control
<1>2. /\ UNCHANGED <<tables, due, handler, todo, crashes>>
      /\ pc' = [pc EXCEPT ![j] = "next"]
      /\ current' = [current EXCEPT ![j] = None]
      /\ \/ /\ status[i] \in StatusThatCanReach("OVERDUE")
            /\ lock' = [lock EXCEPT ![i] = j]
            /\ marked' = [marked EXCEPT ![j] = @ \cup {c}]
         \/ UNCHANGED <<lock, marked>>
  BY DEF UpdateCandidate
<1> HIDE DEF c
<1>3. \A p \in Procs : pc'[p] = pc[p]
  BY <1>2, ServiceAssumption DEF Inv, TypeOK, Workers
<1>4. TypeOK'
  <2>1. lock' \in [Invoices -> Workers \cup {None}]
    BY <1>1, <1>2 DEF Inv, TypeOK, Workers
  <2>2. marked[j] \cup {c} \subseteq Candidate
    BY <1>1 DEF Inv, TypeOK
  <2>3. marked' \in [Jobs -> SUBSET Candidate]
    BY <1>2, <2>2 DEF Inv, TypeOK
  <2>4. /\ pc' \in [Workers -> PC]
        /\ current' \in [Jobs -> Candidate \cup {None}]
    BY <1>2 DEF Inv, TypeOK, HistoryOK, PC
  <2> QED  BY <1>2, <2>1, <2>3, <2>4 DEF Inv, TypeOK, HistoryOK, tables, handler
<1>5. Control'
  BY <1>2, <1>3 DEF Inv, Control, TypeOK, Workers, handler
<1>6. \A k \in Invoices : lock[k] # None => lock'[k] = lock[k]
  BY <1>1, <1>2 DEF Inv, TypeOK
<1>7. LockedRowIsCurrent'
  <2> SUFFICES ASSUME NEW p \in Procs, pc[p] \in Working
               PROVE  LET k == req[p].invoice IN
                      /\ lock'[k] = p
                      /\ row[p] = [status |-> status[k], issuedTo |-> issuedTo[k]]
    BY <1>2, <1>3 DEF LockedRowIsCurrent, Working, tables, handler
  <2>1. req[p].invoice \in Invoices
    BY RequestShape DEF Inv, Control, Working
  <2>2. p # None
    BY ServiceAssumption DEF Workers
  <2> QED  BY <1>6, <2>1, <2>2 DEF Inv, Locking, LockedRowIsCurrent, Working
<1>8. Locking'
  <2> SUFFICES ASSUME NEW k \in Jobs, NEW d \in marked'[k]
               PROVE  lock'[d[1]] = k /\ CanTransition(status[d[1]], "OVERDUE")
    BY <1>2, <1>7 DEF Locking, tables
  <2>1. CASE d \in marked[k]
    <3>1. d[1] \in Invoices
      BY <2>1, PairShape DEF Inv, TypeOK
    <3>2. lock[d[1]] = k /\ CanTransition(status[d[1]], "OVERDUE") /\ k # None
      BY <2>1, ServiceAssumption DEF Inv, Locking, Workers
    <3> QED  BY <1>6, <3>1, <3>2
  <2>2. CASE d \notin marked[k]
    <3>1. k = j /\ d = c /\ status[i] \in StatusThatCanReach("OVERDUE")
          /\ lock' = [lock EXCEPT ![i] = j]
      BY <1>2, <2>2 DEF Inv, TypeOK
    <3> QED  BY <1>1, <3>1, Transitions DEF Inv, TypeOK
  <2> QED  BY <2>1, <2>2
<1>9. Decision'
  BY <1>2, <1>3 DEF Inv, Decision, handler
<1>10. KeyExclusion' /\ OnePaymentPerKey'
  BY <1>2, <1>3 DEF Inv, KeyExclusion, OnePaymentPerKey, HoldsKey, tables, handler
<1> QED  BY <1>4, <1>5, <1>8, <1>9, <1>10 DEF Inv

\* The end of a job's transaction, given what it commits to the two tables.
LEMMA EndJobInv ==
    ASSUME Inv, NEW j \in Jobs, EndJob(j),
           UNCHANGED <<issuedTo, payments, posted, due, handler>>,
           crashes' \in 0 .. MaxCrashes,
           status' \in [Invoices -> Status],
           HistoryOK',
           \A i \in Invoices : lock[i] # j => status'[i] = status[i]
    PROVE  Inv'
<1>1. /\ \A p \in Procs : pc'[p] = pc[p]
      /\ \A p \in Procs : p # j
  BY ServiceAssumption DEF EndJob, Inv, TypeOK, Workers
<1>2. TypeOK'
  BY DEF EndJob, Released, Inv, TypeOK, HistoryOK, PC, Workers, handler
<1>3. Control'
  BY <1>1 DEF EndJob, Inv, Control, TypeOK, Workers, handler
<1>4. LockedRowIsCurrent'
  <2> SUFFICES ASSUME NEW p \in Procs, pc[p] \in Working
               PROVE  LET k == req[p].invoice IN
                      /\ lock'[k] = p
                      /\ row[p] = [status |-> status'[k], issuedTo |-> issuedTo[k]]
    BY <1>1 DEF LockedRowIsCurrent, Working, handler
  <2>1. req[p].invoice \in Invoices
    BY RequestShape DEF Inv, Control, Working
  <2>2. /\ lock[req[p].invoice] = p
        /\ row[p] = [status |-> status[req[p].invoice],
                     issuedTo |-> issuedTo[req[p].invoice]]
    BY DEF Inv, Locking, LockedRowIsCurrent, Working
  <2>3. lock[req[p].invoice] # j
    BY <1>1, <2>2
  <2>4. status'[req[p].invoice] = status[req[p].invoice]
    BY <2>1, <2>3
  <2>5. lock'[req[p].invoice] = lock[req[p].invoice]
    BY <2>1, <2>3 DEF EndJob, Released
  <2> QED  BY <2>2, <2>4, <2>5
<1>5. Locking'
  <2> SUFFICES ASSUME NEW k \in Jobs, NEW c \in marked'[k]
               PROVE  lock'[c[1]] = k /\ CanTransition(status'[c[1]], "OVERDUE")
    BY <1>4 DEF Locking
  <2>1. k # j /\ c \in marked[k]
    BY DEF EndJob, Inv, TypeOK
  <2>2. c[1] \in Invoices
    BY <2>1, PairShape DEF Inv, TypeOK
  <2>3. lock[c[1]] = k /\ CanTransition(status[c[1]], "OVERDUE")
    BY <2>1 DEF Inv, Locking
  <2>4. status'[c[1]] = status[c[1]]
    BY <2>1, <2>2, <2>3
  <2>5. lock'[c[1]] = lock[c[1]]
    BY <2>1, <2>2, <2>3 DEF EndJob, Released
  <2> QED  BY <2>3, <2>4, <2>5
<1>6. Decision'
  BY <1>1 DEF Inv, Decision, handler
<1>7. KeyExclusion' /\ OnePaymentPerKey'
  <2>1. \A p \in Procs, k \in Keys : HoldsKey(p, k)' <=> HoldsKey(p, k)
    BY <1>1 DEF HoldsKey, handler
  <2> QED  BY <2>1 DEF Inv, KeyExclusion, OnePaymentPerKey
<1> QED  BY <1>2, <1>3, <1>5, <1>6, <1>7 DEF Inv

\* COMMIT of the job.
LEMMA CommitJobInv ==
    ASSUME Inv, NEW j \in Jobs, CommitJob(j)
    PROVE  Inv'
<1>1. status' \in [Invoices -> Status]
  <2>1. \A i \in Invoices : status[i] \in Status
    BY DEF Inv, TypeOK
  <2> QED  BY <2>1, Transitions DEF CommitJob
<1>2. HistoryOK'
  <2>1. /\ DOMAIN history = Invoices
        /\ \A k \in Invoices : IsBag(history[k]) /\ DOMAIN history[k] \subseteq Change
    BY DEF Inv, TypeOK, HistoryOK
  <2>2. ASSUME NEW i \in Invoices
        PROVE  IsBag(history'[i]) /\ DOMAIN history'[i] \subseteq Change
    <3>1. CASE \E c \in marked[j] : c[1] = i
      <4>1. PICK d \in marked[j] : d = CHOOSE c \in marked[j] : c[1] = i
        BY <3>1
      <4>2. Step(d[2], "OVERDUE") \in Change
        BY <4>1, PairShape, Transitions DEF Inv, TypeOK, Step, Change
      <4>3. history'[i] = BagAdd(history[i], Step(d[2], "OVERDUE"))
        BY <3>1, <4>1 DEF CommitJob
      <4>4. IsBag(history[i]) /\ DOMAIN history[i] \subseteq Change
        BY <2>1
      <4>5. /\ IsBag(history'[i])
            /\ DOMAIN history'[i] = DOMAIN history[i] \cup {Step(d[2], "OVERDUE")}
        BY <4>3, <4>4, BagAddType
      <4> QED  BY <4>2, <4>4, <4>5
    <3>2. CASE ~\E c \in marked[j] : c[1] = i
      BY <2>1, <3>2 DEF CommitJob
    <3> QED  BY <3>1, <3>2
  <2>3. DOMAIN history' = Invoices
    BY DEF CommitJob
  <2> QED  BY <2>2, <2>3 DEF HistoryOK
<1>3. \A i \in Invoices : lock[i] # j => status'[i] = status[i]
  BY DEF CommitJob, Inv, Locking
<1>4. crashes' \in 0 .. MaxCrashes
  BY DEF CommitJob, Inv, TypeOK
<1> QED  BY <1>1, <1>2, <1>3, <1>4, EndJobInv DEF CommitJob

\* A transaction that is rolled back.
LEMMA RollbackInv ==
    ASSUME Inv, NEW w \in Workers, Rollback(w), crashes' \in 0 .. MaxCrashes
    PROVE  Inv'
<1>1. CASE w \in Procs /\ EndHandler(w, "none") /\ UNCHANGED job
  BY <1>1, EndHandlerInv DEF Rollback, Answer
<1>2. CASE w \in Jobs /\ EndJob(w) /\ UNCHANGED handler
  <2>1. /\ status' \in [Invoices -> Status]
        /\ HistoryOK'
        /\ UNCHANGED <<status, issuedTo, payments, posted, due>>
    BY DEF Rollback, tables, Inv, TypeOK, HistoryOK
  <2> QED  BY <1>2, <2>1, EndJobInv
<1> QED  BY <1>1, <1>2 DEF Rollback

\* Every step of the specification.
LEMMA NextInv == Inv /\ [Next]_vars => Inv'
<1> SUFFICES ASSUME Inv, [Next]_vars PROVE Inv'
  OBVIOUS
<1>1. CASE UNCHANGED vars
  BY <1>1 DEF vars, tables, handler, job, Inv, TypeOK, HistoryOK, Control, Locking, LockedRowIsCurrent,
              Decision, KeyExclusion, OnePaymentPerKey, HoldsKey
<1>2. ASSUME NEW p \in Procs, HandlerStep(p) PROVE Inv'
  BY <1>2, LockInvoiceInv, InsertPaymentInv, ValidateInv,
     CommitIssueInv, CommitPaymentInv, CommitVoidInv DEF HandlerStep
<1>3. ASSUME NEW j \in Jobs, JobStep(j) PROVE Inv'
  BY <1>3, JobReadsInv, UpdateCandidateInv, CommitJobInv DEF JobStep
<1>4. ASSUME NEW w \in Workers, Crash(w) \/ AbortDeadlock(w) PROVE Inv'
  <2>1. crashes' \in 0 .. MaxCrashes
    BY <1>4, ServiceAssumption DEF Crash, AbortDeadlock, Inv, TypeOK
  <2> QED  BY <1>4, <2>1, RollbackInv DEF Crash, AbortDeadlock
<1>5. ASSUME NEW i \in Invoices, DueDatePasses(i) PROVE Inv'
  <2>1. UNCHANGED <<tables, lock, pc, handler, job, crashes>> /\ due' \in [Invoices -> BOOLEAN]
    BY <1>5 DEF DueDatePasses, Inv, TypeOK
  <2> QED
    BY <2>1 DEF tables, handler, job, Inv, TypeOK, HistoryOK, Control, Locking, LockedRowIsCurrent,
                Decision, KeyExclusion, OnePaymentPerKey, HoldsKey
<1> QED  BY <1>1, <1>2, <1>3, <1>4, <1>5, StartRequestInv DEF Next

\* What workers hold, the row locks and the idempotency keys stay consistent in
\* every interleaving of the statements of invoice.service.js.
THEOREM Invariance == Spec => []Inv
  BY InitInv, NextInv, PTL DEF Spec

-----------------------------------------------------------------------------
(* The theorems *)

\* Every variable keeps its type.
THEOREM TypeCorrect == Spec => []TypeOK
<1>1. Inv => TypeOK
  BY DEF Inv
<1> QED  BY Invariance, <1>1, PTL

\* Between SELECT ... FOR UPDATE and COMMIT nobody changes the invoice row a
\* handler has read, the overdue job included.
THEOREM LockedRowStaysCurrent == Spec => []LockedRowIsCurrent
<1>1. Inv => LockedRowIsCurrent
  BY DEF Inv, Locking
<1> QED  BY Invariance, <1>1, PTL

\* An idempotency key pays at most once, on whatever invoices its requests race.
THEOREM KeyPaysOnce == Spec => []OnePaymentPerKey
<1>1. Inv => OnePaymentPerKey
  BY DEF Inv
<1> QED  BY Invariance, <1>1, PTL

\* A handler's step leaves the answers of the others alone.
LEMMA AnswerFrame ==
    ASSUME Inv, NEW p \in Procs, NEW q \in Procs, q # p, HandlerStep(q)
    PROVE  answer'[p] = answer[p]
<1>1. ASSUME NEW result, EndHandler(q, result) PROVE answer'[p] = answer[p]
  BY <1>1 DEF EndHandler, Inv, TypeOK
<1>2. ASSUME NEW next, Continue(q, next) PROVE answer'[p] = answer[p]
  BY <1>2 DEF Continue
<1> QED
  BY <1>1, <1>2 DEF HandlerStep, LockInvoice, InsertPayment, ValidateIssue, ValidatePayment,
        ValidateVoid, CommitIssue, CommitPayment, CommitVoid, Refuse

\* Repeating a committed payment with its key and body is answered with the
\* payment, never with an error and never by paying again.
THEOREM RetryAlwaysReplayed == Spec => RetryIsReplayed
<1>1. ASSUME Inv, [Next]_vars
      PROVE  [\A p \in Procs :
                 /\ req[p] \in PayRequest
                 /\ req[p] \in CommittedWith(req[p].key)
                 => answer'[p] \notin {"done", "refused"}]_vars
  <2> SUFFICES ASSUME Next, NEW p \in Procs, req[p] \in PayRequest,
                      req[p] \in CommittedWith(req[p].key)
               PROVE  answer'[p] \notin {"done", "refused"}
    BY <1>1
  <2>1. req[p] \in Request /\ req[p].op = "pay" /\ req[p].key \in Keys
    BY RequestShape DEF Request
  <2>2. pc[p] # "idle" /\ answer[p] = "none"
    BY <1>1, <2>1, NoneAssumption DEF Inv, Control
  <2>3. \E i \in Invoices : \E n \in DOMAIN payments[i] : payments[i][n].key = req[p].key
    BY DEF CommittedWith
  <2>4. ~HoldsKey(p, req[p].key)
    BY <1>1, <2>1, <2>3 DEF Inv, KeyExclusion
  <2>5. pc[p] \notin {"validate", "commit"}
    BY <2>4 DEF HoldsKey
  <2>6. CASE HandlerStep(p)
    <3>1. CASE LockInvoice(p)
      BY <2>1, <2>2, <3>1 DEF LockInvoice, Continue
    <3>2. CASE InsertPayment(p)
      <4>1. \/ answer' = answer
            \/ EndHandler(p, "replayed")
        BY <3>2 DEF InsertPayment, Continue
      <4> QED  BY <1>1, <2>2, <4>1 DEF EndHandler, Inv, TypeOK
    <3> QED
      BY <2>5, <2>6, <3>1, <3>2 DEF HandlerStep, ValidateIssue, ValidatePayment,
         ValidateVoid, CommitIssue, CommitPayment, CommitVoid
  <2>7. ASSUME NEW q \in Procs, q # p, HandlerStep(q) PROVE answer'[p] = "none"
    BY <1>1, <2>2, <2>7, AnswerFrame
  <2>8. ASSUME NEW q \in Procs, NEW r \in Request, StartRequest(q, r)
        PROVE  answer'[p] = "none"
    BY <1>1, <2>2, <2>8 DEF StartRequest, Inv, TypeOK
  <2>9. ASSUME NEW j \in Jobs, JobStep(j) PROVE answer'[p] = "none"
    BY <2>2, <2>9 DEF JobStep, SelectCandidates, NextCandidate, UpdateCandidate, CommitJob, handler
  <2>10. ASSUME NEW w \in Workers, Rollback(w) PROVE answer'[p] = "none"
    BY <1>1, <2>2, <2>10 DEF Rollback, EndHandler, handler, Inv, TypeOK
  <2>11. ASSUME NEW i \in Invoices, DueDatePasses(i) PROVE answer'[p] = "none"
    BY <2>2, <2>11 DEF DueDatePasses, handler
  <2> QED  BY <2>6, <2>7, <2>8, <2>9, <2>10, <2>11 DEF Next, Crash, AbortDeadlock
<1> QED  BY Invariance, <1>1, PTL DEF Spec, RetryIsReplayed

\* PAID and VOID are final, every other change of a status is one that
\* invoice.state.js allows, and a draft, paid or voided invoice takes no payment,
\* although the status is decided on statements before it is written.
THEOREM CommitsFollowStateMachine ==
    Spec => [][\A i \in Invoices :
                  /\ status'[i] # status[i] => CanTransition(status[i], status'[i])
                  /\ status[i] \in {"DRAFT", "PAID", "VOID"}
                        => payments'[i] = payments[i]]_vars
<1> DEFINE Legal(i) ==
              /\ status'[i] # status[i] => CanTransition(status[i], status'[i])
              /\ status[i] \in {"DRAFT", "PAID", "VOID"} => payments'[i] = payments[i]
<1>1. ASSUME Inv, Next, NEW i \in Invoices PROVE Legal(i)
  <2>1. CASE UNCHANGED <<status, payments>>
    BY <2>1
  <2>2. ASSUME NEW p \in Procs, CommitIssue(p) PROVE Legal(i)
    <3>1. row[p].status = status[req[p].invoice] /\ CanTransition(row[p].status, "ISSUED")
      BY <1>1, <2>2, CommitShape DEF CommitIssue, Inv, Decision
    <3> QED  BY <1>1, <2>2, <3>1 DEF CommitIssue, SetStatus, Inv, TypeOK
  <2>3. ASSUME NEW p \in Procs, CommitVoid(p) PROVE Legal(i)
    <3>1. row[p].status = status[req[p].invoice] /\ CanTransition(row[p].status, "VOID")
      BY <1>1, <2>3, CommitShape DEF CommitVoid, Inv, Decision
    <3> QED  BY <1>1, <2>3, <3>1 DEF CommitVoid, SetStatus, Inv, TypeOK
  <2>4. ASSUME NEW p \in Procs, CommitPayment(p) PROVE Legal(i)
    <3>1. /\ row[p].status = status[req[p].invoice]
          /\ CanTransition(row[p].status, target[p])
      BY <1>1, <2>4, CommitShape DEF CommitPayment, Inv, Decision
    <3>2. row[p].status \notin {"PAID", "VOID"}
      BY <3>1 DEF CanTransition, AllowedTransitions, Status
    <3>3. row[p].status # "DRAFT"
      <4>1. target[p] \in {"PAID", "PARTIALLY_PAID"}
        BY <1>1, <2>4 DEF CommitPayment, Inv, Decision
      <4> QED  BY <3>1, <4>1 DEF CanTransition, AllowedTransitions, Status
    <3>4. \A k \in Invoices \ {req[p].invoice} :
             status'[k] = status[k] /\ payments'[k] = payments[k]
      BY <1>1, <2>4 DEF CommitPayment, SetStatus, Inv, TypeOK
    <3>5. i = req[p].invoice => status'[i] = target[p]
      BY <1>1, <2>4 DEF CommitPayment, SetStatus, Inv, TypeOK
    <3> QED  BY <3>1, <3>2, <3>3, <3>4, <3>5
  <2>5. ASSUME NEW j \in Jobs, CommitJob(j) PROVE Legal(i)
    BY <1>1, <2>5 DEF CommitJob, Inv, Locking
  <2>6. ASSUME NEW p \in Procs, HandlerStep(p),
               ~(CommitIssue(p) \/ CommitVoid(p) \/ CommitPayment(p))
        PROVE  UNCHANGED <<status, payments>>
    BY <2>6 DEF HandlerStep, LockInvoice, InsertPayment, ValidateIssue, ValidatePayment,
                ValidateVoid, Refuse, tables
  <2>7. ASSUME NEW j \in Jobs, JobStep(j), ~CommitJob(j) PROVE UNCHANGED <<status, payments>>
    BY <2>7 DEF JobStep, SelectCandidates, NextCandidate, UpdateCandidate, tables
  <2>8. ASSUME NEW w \in Workers, Rollback(w) PROVE UNCHANGED <<status, payments>>
    BY <2>8 DEF Rollback, tables
  <2>9. ASSUME NEW k \in Invoices, DueDatePasses(k) PROVE UNCHANGED <<status, payments>>
    BY <2>9 DEF DueDatePasses, tables
  <2>10. ASSUME NEW p \in Procs, NEW r \in Request, StartRequest(p, r)
         PROVE  UNCHANGED <<status, payments>>
    BY <2>10 DEF StartRequest, tables
  <2> QED
    BY <1>1, <2>1, <2>2, <2>3, <2>4, <2>5, <2>6, <2>7, <2>8, <2>9, <2>10
       DEF Next, Crash, AbortDeadlock
<1>2. ASSUME Inv, [Next]_vars PROVE [\A i \in Invoices : Legal(i)]_vars
  BY <1>1, <1>2
<1> QED  BY Invariance, <1>2, PTL DEF Spec

-----------------------------------------------------------------------------
(* The history *)

\* What one row adds to the surplus of a phase.
Move(c, phase) ==
    IF Phase(c.from) = Phase(c.to) THEN 0
    ELSE IF Phase(c.to) = phase THEN 1
    ELSE IF Phase(c.from) = phase THEN -1
    ELSE 0

\* What the rows h of one kind add to it.
Moves(h, phase) ==
    [c \in DOMAIN h |->
        IF Phase(c.from) = Phase(c.to) THEN 0
        ELSE IF Phase(c.to) = phase THEN h[c]
        ELSE IF Phase(c.from) = phase THEN -h[c]
        ELSE 0]

\* The rows h say that an invoice is in status s.
Tells(h, s) ==
    \A t \in Status : Surplus(h, Phase(t)) = IF Phase(t) = Phase(s) THEN 1 ELSE 0

Rows(h) == IsBag(h) /\ IsFiniteSet(DOMAIN h)

HistoryInv ==
    /\ Inv
    /\ \A i \in Invoices : Rows(history[i]) /\ Tells(history[i], status[i])

\* One more row of a kind moves the surplus by one row.
LEMMA AddRow ==
    ASSUME NEW h, Rows(h), NEW c, NEW phase
    PROVE  /\ Rows(BagAdd(h, c))
           /\ Surplus(h, phase) \in Int
           /\ Surplus(BagAdd(h, c), phase) = Surplus(h, phase) + Move(c, phase)
<1>1. PICK b : b = BagAdd(h, c)
  OBVIOUS
<1>2. PICK S : S = DOMAIN h /\ IsFiniteSet(S)
  BY DEF Rows
<1>3. /\ IsBag(b) /\ DOMAIN b = S \cup {c}
      /\ IsFiniteSet(S \cup {c})
  BY <1>1, <1>2, BagAddType, FS_AddElement DEF Rows
<1>4. /\ \A x \in S : h[x] \in Nat
      /\ \A x \in S \cup {c} : b[x] \in Nat
      /\ \A x \in S \ {c} : b[x] = h[x]
      /\ c \in S => b[c] = h[c] + 1
      /\ c \notin S => b[c] = 1
  BY <1>1, <1>2, <1>3 DEF Rows, IsBag, BagAdd
<1>5. PICK f : f = Moves(h, phase)
  OBVIOUS
<1>6. PICK e : e = Moves(b, phase)
  OBVIOUS
<1>7. /\ \A x \in S : f[x] \in Int
      /\ \A x \in S \cup {c} : e[x] \in Int
      /\ \A x \in S \ {c} : f[x] = e[x]
  BY <1>2, <1>3, <1>4, <1>5, <1>6 DEF Moves
<1>8. /\ c \in S => e[c] = f[c] + Move(c, phase)
      /\ c \notin S => e[c] = Move(c, phase)
  BY <1>2, <1>3, <1>4, <1>5, <1>6 DEF Moves, Move
<1>9. /\ Surplus(h, phase) = SumFunctionOnSet(f, S)
      /\ Surplus(b, phase) = SumFunctionOnSet(e, S \cup {c})
  BY <1>2, <1>3, <1>5, <1>6 DEF Surplus, Moves
<1>10. Move(c, phase) \in Int
  BY DEF Move
<1>11. SumFunctionOnSet(f, S) \in Int
  BY <1>2, <1>7, SumTakesOut
<1>12. CASE c \notin S
  <2>1. SumFunctionOnSet(e, S \cup {c}) = SumFunctionOnSet(f, S) + e[c]
    <3>0. PICK T : T = S \cup {c}
      OBVIOUS
    <3>1. T = S \cup {c} /\ T \ {c} = S /\ c \in T
      BY <1>12, <3>0
    <3>2. IsFiniteSet(T) /\ \A x \in T : e[x] \in Int
      BY <1>3, <1>7, <3>1
    <3>3. SumFunctionOnSet(e, T) = e[c] + SumFunctionOnSet(e, S)
      BY <3>1, <3>2, SumTakesOut
    <3>4. SumFunctionOnSet(f, S) = SumFunctionOnSet(e, S)
      BY <1>2, <1>7, <1>12, SumCongruence
    <3>5. e[c] \in Int
      BY <3>1, <3>2
    <3> QED  BY <1>11, <3>1, <3>3, <3>4, <3>5
  <2> QED  BY <1>1, <1>3, <1>8, <1>9, <1>11, <1>12, <2>1 DEF Rows
<1>13. CASE c \in S
  <2>1. S \cup {c} = S /\ IsFiniteSet(S \ {c})
    BY <1>2, <1>13, FS_RemoveElement
  <2>2. SumFunctionOnSet(f, S) = f[c] + SumFunctionOnSet(f, S \ {c})
    BY <1>2, <1>7, <1>13, SumTakesOut
  <2>3. SumFunctionOnSet(e, S) = e[c] + SumFunctionOnSet(e, S \ {c})
    BY <1>2, <1>7, <1>13, <2>1, SumTakesOut
  <2>4. SumFunctionOnSet(f, S \ {c}) = SumFunctionOnSet(e, S \ {c})
    BY <1>7, <2>1, SumCongruence
  <2>5. SumFunctionOnSet(f, S \ {c}) \in Int
    BY <1>7, <2>1, SumTakesOut
  <2>6. f[c] \in Int /\ e[c] \in Int
    BY <1>7, <1>13
  <2>7. SumFunctionOnSet(e, S) = SumFunctionOnSet(f, S) + Move(c, phase)
    BY <1>8, <1>10, <1>13, <2>2, <2>3, <2>4, <2>5, <2>6
  <2> QED  BY <1>1, <1>3, <1>9, <1>11, <2>1, <2>7 DEF Rows
<1> QED  BY <1>12, <1>13

\* A row from where the invoice is, to where it goes, keeps the history telling.
LEMMA RowTells ==
    ASSUME NEW h, Rows(h), NEW from, NEW to \in Status, NEW s,
           Tells(h, s), Phase(from) = Phase(s)
    PROVE  Rows(BagAdd(h, Step(from, to))) /\ Tells(BagAdd(h, Step(from, to)), to)
<1>0. PICK c : c = Step(from, to)
  OBVIOUS
<1>1. c = Step(from, to) /\ c.from = from /\ c.to = to
  BY <1>0 DEF Step
<1>2. ASSUME NEW t \in Status
      PROVE  Surplus(BagAdd(h, c), Phase(t)) = IF Phase(t) = Phase(to) THEN 1 ELSE 0
  <2>1. Surplus(BagAdd(h, c), Phase(t)) = Surplus(h, Phase(t)) + Move(c, Phase(t))
    BY AddRow
  <2>2. Surplus(h, Phase(t)) = IF Phase(t) = Phase(s) THEN 1 ELSE 0
    BY DEF Tells
  <2> QED  BY <1>1, <2>1, <2>2 DEF Move
<1>3. Rows(BagAdd(h, c))
  BY AddRow
<1> QED  BY <1>1, <1>2, <1>3 DEF Tells

\* The history of a new invoice, and of one that was issued before.
LEMMA HistoryInit == Init => HistoryInv
<1> SUFFICES ASSUME Init, NEW i \in Invoices
             PROVE  Rows(history[i]) /\ Tells(history[i], status[i])
  BY InitInv DEF HistoryInv
<1>0. PICK c, d : c = Step(None, "DRAFT") /\ d = Step("DRAFT", "ISSUED")
  OBVIOUS
<1>1. c = Step(None, "DRAFT") /\ c.from = None /\ c.to = "DRAFT"
  BY <1>0 DEF Step
<1>2. d = Step("DRAFT", "ISSUED") /\ d.to = "ISSUED"
  BY <1>0 DEF Step
<1>3. c # d
  BY <1>1, <1>2
<1>4. PICK e : e = OneOfEach({})
  OBVIOUS
<1>5. Rows(e) /\ DOMAIN e = {}
  BY <1>4, FS_EmptySet DEF Rows, OneOfEach, IsBag
<1>6. OneOfEach({c}) = BagAdd(e, c)
  BY <1>4 DEF OneOfEach, BagAdd
<1>7. OneOfEach({c, d}) = BagAdd(OneOfEach({c}), d)
  BY <1>3 DEF OneOfEach, BagAdd
<1>8. \A phase : Surplus(e, phase) = 0
  BY <1>5, SumEmpty DEF Surplus
<1>9. \A t \in Status : Phase(t) \in Status /\ Phase(t) # None
  BY NoneAssumption DEF Phase, Status
<1>10. Phase(None) = None /\ Phase("DRAFT") = "DRAFT"
  BY NoneAssumption DEF Phase, StatusThatCanReach, CanTransition, AllowedTransitions, Status
<1>11. Tells(OneOfEach({c}), "DRAFT") /\ Rows(OneOfEach({c}))
  <2>1. ASSUME NEW t \in Status
        PROVE  Surplus(BagAdd(e, c), Phase(t)) = IF Phase(t) = Phase("DRAFT") THEN 1 ELSE 0
    <3>1. Surplus(BagAdd(e, c), Phase(t)) = Surplus(e, Phase(t)) + Move(c, Phase(t))
      BY <1>5, AddRow
    <3>2. Move(c, Phase(t)) = IF Phase(t) = "DRAFT" THEN 1 ELSE 0
      BY <1>1, <1>9, <1>10 DEF Move
    <3> QED  BY <1>8, <1>10, <3>1, <3>2
  <2> QED  BY <1>5, <1>6, <2>1, AddRow DEF Tells
<1>12. Tells(OneOfEach({c, d}), "ISSUED") /\ Rows(OneOfEach({c, d}))
  BY <1>2, <1>7, <1>11, RowTells, Transitions
<1>13. CASE status[i] = "DRAFT"
  <2>1. history[i] = OneOfEach({c})
    BY <1>1, <1>13 DEF Init
  <2> QED  BY <1>11, <1>13, <2>1
<1>14. CASE status[i] = "ISSUED"
  <2>1. history[i] = OneOfEach({c, d})
    BY <1>1, <1>2, <1>14 DEF Init
  <2> QED  BY <1>12, <1>14, <2>1
<1> QED  BY <1>13, <1>14 DEF Init

\* A handler's commit writes the row that leads to the status it sets, or keeps
\* both, because the status it starts from is the one in the table.
LEMMA CommitTells ==
    ASSUME HistoryInv, NEW p \in Procs, pc[p] = "commit", NEW to \in Status,
           SetStatus(req[p].invoice, row[p].status, to),
           NEW k \in Invoices
    PROVE  Rows(history'[k]) /\ Tells(history'[k], status'[k])
<1>1. PICK i \in Invoices : i = req[p].invoice
  BY CommitShape DEF HistoryInv
<1>2. PICK from \in Status : from = row[p].status /\ from = status[i]
  BY <1>1, CommitShape DEF HistoryInv
<1>3. SetStatus(i, from, to) /\ Rows(history[k]) /\ Tells(history[k], status[k])
  BY <1>1, <1>2 DEF HistoryInv
<1>4. status \in [Invoices -> Status] /\ DOMAIN history = Invoices
  BY DEF HistoryInv, Inv, TypeOK, HistoryOK
<1>5. CASE k # i
  <2>1. status'[k] = status[k] /\ history'[k] = history[k]
    BY <1>3, <1>4, <1>5 DEF SetStatus
  <2> QED  BY <1>3, <2>1
<1>6. CASE k = i /\ from = to
  <2>1. status'[k] = status[k] /\ history'[k] = history[k]
    BY <1>2, <1>3, <1>4, <1>6 DEF SetStatus
  <2> QED  BY <1>3, <2>1
<1>7. CASE k = i /\ from # to
  <2>1. status'[k] = to /\ history'[k] = BagAdd(history[k], Step(from, to))
    BY <1>3, <1>4, <1>7 DEF SetStatus
  <2> QED  BY <1>2, <1>3, <1>7, <2>1, RowTells
<1> QED  BY <1>5, <1>6, <1>7

\* A job knows an invoice in a status that can reach OVERDUE.
OpenIn(C) == \A c \in C : c[2] \in StatusThatCanReach("OVERDUE")

MarkedWereOpen ==
    \A j \in Jobs :
        /\ OpenIn(todo[j]) /\ OpenIn(marked[j])
        /\ pc[j] = "update" => current[j][2] \in StatusThatCanReach("OVERDUE")

\* A job takes nothing into its lists but what it has selected.
LEMMA MarkedNext == Inv /\ MarkedWereOpen /\ [Next]_vars => MarkedWereOpen'
<1> SUFFICES ASSUME Inv, MarkedWereOpen, [Next]_vars, NEW j \in Jobs
             PROVE  /\ OpenIn(todo'[j]) /\ OpenIn(marked'[j])
                    /\ pc'[j] = "update" => current'[j][2] \in StatusThatCanReach("OVERDUE")
  BY DEF MarkedWereOpen
<1>0. /\ OpenIn(todo[j]) /\ OpenIn(marked[j]) /\ OpenIn({})
      /\ pc[j] = "update" => current[j][2] \in StatusThatCanReach("OVERDUE")
  BY DEF MarkedWereOpen, OpenIn
<1>1. CASE UNCHANGED <<todo, marked, current>> /\ (pc'[j] = "update" => pc[j] = "update")
  BY <1>0, <1>1
<1>2. ASSUME NEW p \in Procs, HandlerStep(p) \/ \E r \in Request : StartRequest(p, r)
      PROVE  UNCHANGED <<todo, marked, current>> /\ pc'[j] = pc[j]
  <2>1. p # j
    BY ServiceAssumption
  <2> QED
    BY <1>2, <2>1 DEF HandlerStep, StartRequest, LockInvoice, InsertPayment, ValidateIssue,
         ValidatePayment, ValidateVoid, CommitIssue, CommitPayment, CommitVoid, Refuse,
         EndHandler, Continue, job, Inv, TypeOK, Workers
<1>3. ASSUME NEW i \in Jobs, i # j, JobStep(i) \/ EndJob(i)
      PROVE  /\ todo'[j] = todo[j] /\ marked'[j] = marked[j]
             /\ current'[j] = current[j] /\ pc'[j] = pc[j]
  BY <1>3 DEF JobStep, SelectCandidates, NextCandidate, UpdateCandidate, CommitJob, EndJob,
       Inv, TypeOK, Workers
<1>4. CASE SelectCandidates(j)
  <2>1. OpenIn(todo'[j])
    BY <1>4 DEF SelectCandidates, OpenIn, Inv, TypeOK
  <2> QED  BY <1>0, <1>4, <2>1 DEF SelectCandidates, Inv, TypeOK, Workers
<1>5. ASSUME NEW c \in todo[j], NextCandidate(j, c)
      PROVE  /\ OpenIn(todo'[j]) /\ OpenIn(marked'[j])
             /\ current'[j][2] \in StatusThatCanReach("OVERDUE")
  BY <1>0, <1>5 DEF NextCandidate, OpenIn, Inv, TypeOK
<1>6. CASE UpdateCandidate(j)
  <2>1. pc'[j] = "next" /\ todo' = todo
    BY <1>6 DEF UpdateCandidate, Inv, TypeOK, Workers
  <2>2. marked'[j] \subseteq marked[j] \cup {current[j]}
    BY <1>6 DEF UpdateCandidate, Inv, TypeOK
  <2> QED  BY <1>0, <1>6, <2>1, <2>2 DEF UpdateCandidate, OpenIn
<1>7. CASE EndJob(j)
  BY <1>0, <1>7 DEF EndJob, Inv, TypeOK, Workers
<1>8. ASSUME NEW i \in Invoices, DueDatePasses(i)
      PROVE  UNCHANGED <<todo, marked, current, pc>>
  BY <1>8 DEF DueDatePasses, job
<1>9. ASSUME NEW w \in Workers, Rollback(w)
      PROVE  /\ OpenIn(todo'[j]) /\ OpenIn(marked'[j])
             /\ pc'[j] = "update" => current'[j][2] \in StatusThatCanReach("OVERDUE")
  <2>1. CASE w \in Procs /\ EndHandler(w, "none") /\ UNCHANGED job
    <3>1. w # j
      BY <2>1, ServiceAssumption
    <3>2. pc'[j] = pc[j] /\ UNCHANGED <<todo, marked, current>>
      BY <2>1, <3>1 DEF EndHandler, job, Inv, TypeOK, Workers
    <3> QED  BY <1>0, <3>2
  <2>2. CASE w \in Jobs /\ EndJob(w)
    BY <1>0, <1>3, <1>7, <2>2
  <2> QED  BY <1>9, <2>1, <2>2 DEF Rollback
<1>10. CASE \E i \in Jobs : JobStep(i)
  <2>1. PICK i \in Jobs : JobStep(i)
    BY <1>10
  <2>2. CASE i # j
    BY <1>0, <1>3, <2>1, <2>2
  <2>3. CASE i = j
    BY <1>4, <1>5, <1>6, <1>7, <2>1, <2>3 DEF JobStep, CommitJob
  <2> QED  BY <2>2, <2>3
<1>11. CASE UNCHANGED vars
  BY <1>1, <1>11 DEF vars, job
<1> QED  BY <1>0, <1>2, <1>8, <1>9, <1>10, <1>11 DEF Next, Crash, AbortDeadlock

\* So does the job's, although its from_status may be a past one.
LEMMA CommitJobTells ==
    ASSUME HistoryInv, NEW j \in Jobs, CommitJob(j), MarkedWereOpen, NEW k \in Invoices
    PROVE  Rows(history'[k]) /\ Tells(history'[k], status'[k])
<1>1. CASE \E c \in marked[j] : c[1] = k
  <2>1. PICK d \in marked[j] : d = (CHOOSE c \in marked[j] : c[1] = k) /\ d[1] = k
    BY <1>1
  <2>2. /\ d[2] \in StatusThatCanReach("OVERDUE")
        /\ status[k] \in StatusThatCanReach("OVERDUE")
    <3>1. CanTransition(status[k], "OVERDUE") /\ status[k] \in Status
      BY <2>1 DEF HistoryInv, Inv, Locking, TypeOK
    <3> QED  BY <2>1, <3>1 DEF MarkedWereOpen, OpenIn, StatusThatCanReach
  <2>3. Phase(d[2]) = Phase(status[k])
    BY <2>2 DEF Phase
  <2>4. status'[k] = "OVERDUE" /\ history'[k] = BagAdd(history[k], Step(d[2], "OVERDUE"))
    BY <1>1, <2>1 DEF CommitJob
  <2>5. Rows(history[k]) /\ Tells(history[k], status[k])
    BY DEF HistoryInv
  <2> QED  BY <2>3, <2>4, <2>5, RowTells, Transitions
<1>2. CASE ~\E c \in marked[j] : c[1] = k
  <2>1. status'[k] = status[k] /\ history'[k] = history[k]
    BY <1>2 DEF CommitJob
  <2> QED  BY <2>1 DEF HistoryInv
<1> QED  BY <1>1, <1>2

\* Every step keeps the histories.
LEMMA HistoryNext ==
    HistoryInv /\ MarkedWereOpen /\ [Next]_vars => HistoryInv' /\ MarkedWereOpen'
<1> SUFFICES ASSUME HistoryInv, MarkedWereOpen, [Next]_vars PROVE HistoryInv' /\ MarkedWereOpen'
  OBVIOUS
<1>1. MarkedWereOpen'
  BY MarkedNext DEF HistoryInv
<1>2. ASSUME NEW k \in Invoices
      PROVE  Rows(history'[k]) /\ Tells(history'[k], status'[k])
  <2>1. CASE UNCHANGED <<status, history>>
    BY <2>1 DEF HistoryInv
  <2>2. ASSUME NEW p \in Procs, CommitIssue(p)
        PROVE  Rows(history'[k]) /\ Tells(history'[k], status'[k])
    BY <2>2, CommitTells, Transitions DEF CommitIssue
  <2>3. ASSUME NEW p \in Procs, CommitVoid(p)
        PROVE  Rows(history'[k]) /\ Tells(history'[k], status'[k])
    BY <2>3, CommitTells, Transitions DEF CommitVoid
  <2>4. ASSUME NEW p \in Procs, CommitPayment(p)
        PROVE  Rows(history'[k]) /\ Tells(history'[k], status'[k])
    <3>1. target[p] \in Status
      BY <2>4, Transitions DEF CommitPayment, HistoryInv, Inv, Decision
    <3> QED  BY <2>4, <3>1, CommitTells DEF CommitPayment
  <2>5. ASSUME NEW j \in Jobs, CommitJob(j)
        PROVE  Rows(history'[k]) /\ Tells(history'[k], status'[k])
    BY <2>5, CommitJobTells
  <2>6. ASSUME NEW p \in Procs, HandlerStep(p),
               ~(CommitIssue(p) \/ CommitVoid(p) \/ CommitPayment(p))
        PROVE  UNCHANGED <<status, history>>
    BY <2>6 DEF HandlerStep, LockInvoice, InsertPayment, ValidateIssue, ValidatePayment,
                ValidateVoid, Refuse, tables
  <2>7. ASSUME NEW j \in Jobs, JobStep(j), ~CommitJob(j) PROVE UNCHANGED <<status, history>>
    BY <2>7 DEF JobStep, SelectCandidates, NextCandidate, UpdateCandidate, tables
  <2>8. ASSUME NEW w \in Workers, Rollback(w) PROVE UNCHANGED <<status, history>>
    BY <2>8 DEF Rollback, tables
  <2>9. CASE \/ UNCHANGED vars
             \/ \E i \in Invoices : DueDatePasses(i)
             \/ \E p \in Procs, r \in Request : StartRequest(p, r)
    <3>1. UNCHANGED <<status, history>>
      BY <2>9 DEF vars, tables, DueDatePasses, StartRequest
    <3> QED  BY <2>1, <3>1
  <2> QED
    BY <2>1, <2>2, <2>3, <2>4, <2>5, <2>6, <2>7, <2>8, <2>9 DEF Next, Crash, AbortDeadlock
<1> QED  BY <1>1, <1>2, NextInv DEF HistoryInv

\* The rows of invoice_status_history account for the status of their invoice,
\* whatever commits between the statements of a handler or of the overdue job.
THEOREM HistoryAlwaysTellsStatus == Spec => []HistoryTellsStatus
<1>1. HistoryInv => HistoryTellsStatus
  BY DEF HistoryInv, Tells, HistoryTellsStatus
<1>2. Init => MarkedWereOpen
  BY DEF Init, MarkedWereOpen, OpenIn, Workers
<1> QED  BY HistoryInit, HistoryNext, <1>1, <1>2, PTL DEF Spec

-----------------------------------------------------------------------------
(* The money *)

\* A payment that is appended leaves no invoice without payments.
LEMMA AppendedIsThere ==
    ASSUME NEW S, NEW s \in Seq(S), NEW e \in S
    PROVE  Len(Append(s, e)) # 0
  OBVIOUS

AmountsOf(s) == [n \in DOMAIN s |-> s[n].amount]

\* The payments of i that debited another account than a.
Elsewhere(i, a) == {n \in DOMAIN payments[i] : payments[i][n].accounts[1] # a}

\* What the rows of one invoice have to say to one another.
RowsAgree(i) ==
    /\ Paid(i) <= Total[i]
    /\ status[i] \in {"DRAFT", "ISSUED", "VOID"} => payments[i] = <<>>
    /\ status[i] = "PARTIALLY_PAID" => payments[i] # <<>>
    /\ status[i] = "PAID" <=> Paid(i) = Total[i]

NetsOut(i) ==
    issuedTo[i] # None =>
        posted[i][issuedTo[i]] = Total[i] - SumOver(i, Elsewhere(i, issuedTo[i]))

\* Nothing has been posted for a draft.
NothingPosted(i) ==
    status[i] = "DRAFT" => posted[i] = [a \in Accounts |-> 0]

\* A handler about to commit has checked sums and accounts that are still true.
Checked(p) ==
    LET i == req[p].invoice IN
    pc[p] = "commit" =>
        /\ req[p].op = "issue" => req[p].accounts[1] # req[p].accounts[2]
        /\ req[p].op = "void" => Paid(i) = 0
        /\ req[p].op = "pay" => /\ Paid(i) + req[p].amount <= Total[i]
                                /\ target[p] = StatusAfter(i, Paid(i) + req[p].amount)
                                /\ issuedTo[i] \in {None, req[p].accounts[2]}

MoneyInv ==
    /\ Inv
    /\ \A i \in Invoices : RowsAgree(i) /\ NetsOut(i) /\ NothingPosted(i)
    /\ \A p \in Procs : Checked(p)

\* The amounts of a sequence of payments can be summed.
LEMMA AmountsType ==
    ASSUME NEW s \in Seq(Payment)
    PROVE  /\ IsFiniteSet(DOMAIN s)
           /\ \A n \in DOMAIN s : AmountsOf(s)[n] \in Nat /\ AmountsOf(s)[n] # 0
<1>1. IsFiniteSet(1 .. Len(s)) /\ DOMAIN s = 1 .. Len(s)
  BY FS_Interval
<1>2. ASSUME NEW n \in DOMAIN s PROVE AmountsOf(s)[n] \in Nat /\ AmountsOf(s)[n] # 0
  <2>1. s[n] \in Payment
    OBVIOUS
  <2>2. AmountsOf(s)[n] \in Amounts
    BY <2>1 DEF AmountsOf, Payment
  <2> QED  BY <2>2, ServiceAssumption
<1> QED  BY <1>1, <1>2

\* A payment adds its amount to the sums that count it, and to no other.
LEMMA AmountsAppend ==
    ASSUME NEW s \in Seq(Payment), NEW p \in Payment, NEW S \in SUBSET DOMAIN s
    PROVE  /\ SumFunctionOnSet(AmountsOf(s), S) \in Nat
           /\ SumFunctionOnSet(AmountsOf(Append(s, p)), S) = SumFunctionOnSet(AmountsOf(s), S)
           /\ SumFunctionOnSet(AmountsOf(Append(s, p)), S \cup {Len(s) + 1})
                = SumFunctionOnSet(AmountsOf(s), S) + p.amount
<1>1. PICK f, e, x : f = AmountsOf(s) /\ e = AmountsOf(Append(s, p)) /\ x = Len(s) + 1
  OBVIOUS
<1>2. IsFiniteSet(S) /\ \A n \in S : f[n] \in Nat
  BY <1>1, AmountsType, FS_Subset
<1>3. x \notin S
  BY <1>1
<1>4. \A n \in DOMAIN s : n \in DOMAIN Append(s, p) /\ Append(s, p)[n] = s[n]
  OBVIOUS
<1>5. \A n \in S : f[n] = e[n]
  BY <1>1, <1>4 DEF AmountsOf
<1>6. x \in DOMAIN Append(s, p) /\ Append(s, p)[x] = p
  BY <1>1
<1>7. e[x] = p.amount /\ e[x] \in Nat
  BY <1>1, <1>6, ServiceAssumption DEF AmountsOf, Payment
<1>8. SumFunctionOnSet(f, S) \in Nat
  BY <1>2, SumNat
<1>9. SumFunctionOnSet(e, S) = SumFunctionOnSet(f, S)
  BY <1>2, <1>5, SumCongruence
<1>10. SumFunctionOnSet(e, S \cup {x}) = SumFunctionOnSet(f, S) + e[x]
  <2>1. \A n \in S : f[n] = e[n] /\ f[n] \in Int
    BY <1>2, <1>5
  <2>2. e[x] \in Int
    BY <1>7
  <2> QED  BY <1>2, <1>3, <2>1, <2>2, SumAppend
<1> QED  BY <1>1, <1>7, <1>8, <1>9, <1>10

\* Nothing is paid exactly when there are no payments.
LEMMA PaidType ==
    ASSUME Inv, NEW i \in Invoices
    PROVE  Paid(i) \in Nat /\ (Paid(i) = 0 <=> payments[i] = <<>>)
<1>1. PICK s \in Seq(Payment) : s = payments[i]
  BY DEF Inv, TypeOK
<1>2. IsFiniteSet(DOMAIN s) /\ \A n \in DOMAIN s : AmountsOf(s)[n] \in Nat /\ AmountsOf(s)[n] # 0
  BY AmountsType
<1>3. Paid(i) = SumFunctionOnSet(AmountsOf(s), DOMAIN s)
  BY <1>1 DEF Paid, SumOver, AmountsOf
<1>4. Paid(i) \in Nat /\ \A n \in DOMAIN s : Paid(i) >= AmountsOf(s)[n]
  BY <1>2, <1>3, SumNat
<1>5. CASE s = <<>>
  <2>1. DOMAIN s = {}
    BY <1>5
  <2> QED  BY <1>1, <1>3, <1>4, <1>5, <2>1, SumEmpty
<1>6. CASE s # <<>>
  <2>1. 1 \in DOMAIN s
    BY <1>6
  <2>2. PICK a \in Nat : a = AmountsOf(s)[1] /\ a # 0
    BY <1>2, <2>1
  <2> QED  BY <1>1, <1>4, <1>6, <2>1, <2>2
<1> QED  BY <1>5, <1>6

\* A payment adds its amount to what is paid, and to what is credited elsewhere.
LEMMA PaidGrows ==
    ASSUME Inv, NEW i \in Invoices, NEW p \in Payment, payments'[i] = Append(payments[i], p)
    PROVE  /\ Paid(i)' = Paid(i) + p.amount
           /\ \A a : SumOver(i, Elsewhere(i, a))' =
                 SumOver(i, Elsewhere(i, a)) + (IF p.accounts[1] # a THEN p.amount ELSE 0)
<1>1. PICK s \in Seq(Payment) : s = payments[i]
  BY DEF Inv, TypeOK
<1>2. PICK t \in Seq(Payment) : t = payments'[i] /\ t = Append(s, p)
  BY <1>1
<1>3. DOMAIN t = DOMAIN s \cup {Len(s) + 1}
  BY <1>2
<1>4. Paid(i)' = SumFunctionOnSet(AmountsOf(t), DOMAIN t)
  BY <1>2 DEF Paid, SumOver, AmountsOf
<1>5. Paid(i) = SumFunctionOnSet(AmountsOf(s), DOMAIN s)
  BY <1>1 DEF Paid, SumOver, AmountsOf
<1>6. Paid(i)' = Paid(i) + p.amount
  BY <1>2, <1>3, <1>4, <1>5, AmountsAppend
<1>7. ASSUME NEW a
      PROVE  SumOver(i, Elsewhere(i, a))' =
                 SumOver(i, Elsewhere(i, a)) + (IF p.accounts[1] # a THEN p.amount ELSE 0)
  <2>1. PICK S \in SUBSET DOMAIN s : S = Elsewhere(i, a)
    BY <1>1 DEF Elsewhere
  <2>2. PICK T \in SUBSET DOMAIN t : T = Elsewhere(i, a)'
    BY <1>2 DEF Elsewhere
  <2>3. \A n \in DOMAIN s : t[n] = s[n]
    BY <1>2
  <2>4. t[Len(s) + 1] = p
    BY <1>2
  <2>5. T = IF p.accounts[1] # a THEN S \cup {Len(s) + 1} ELSE S
    BY <1>1, <1>2, <1>3, <2>1, <2>2, <2>3, <2>4 DEF Elsewhere
  <2>6. SumOver(i, Elsewhere(i, a))' = SumFunctionOnSet(AmountsOf(t), T)
    BY <1>2, <2>2 DEF SumOver, AmountsOf
  <2>7. SumOver(i, Elsewhere(i, a)) = SumFunctionOnSet(AmountsOf(s), S)
    BY <1>1, <2>1 DEF SumOver, AmountsOf
  <2>8. /\ SumFunctionOnSet(AmountsOf(s), S) \in Nat
        /\ SumFunctionOnSet(AmountsOf(t), S) = SumFunctionOnSet(AmountsOf(s), S)
        /\ SumFunctionOnSet(AmountsOf(t), S \cup {Len(s) + 1})
             = SumFunctionOnSet(AmountsOf(s), S) + p.amount
    <3>1. /\ SumFunctionOnSet(AmountsOf(s), S) \in Nat
          /\ SumFunctionOnSet(AmountsOf(Append(s, p)), S) = SumFunctionOnSet(AmountsOf(s), S)
          /\ SumFunctionOnSet(AmountsOf(Append(s, p)), S \cup {Len(s) + 1})
               = SumFunctionOnSet(AmountsOf(s), S) + p.amount
      BY AmountsAppend
    <3> QED  BY <1>2, <3>1, Zenon
  <2>9. CASE p.accounts[1] # a
    BY <2>5, <2>6, <2>7, <2>8, <2>9
  <2>10. CASE p.accounts[1] = a
    <3>1. PICK n \in Nat : n = SumOver(i, Elsewhere(i, a))
      BY <2>7, <2>8
    <3>2. SumOver(i, Elsewhere(i, a))' = n
      BY <2>5, <2>6, <2>7, <2>8, <2>10, <3>1
    <3>3. n + 0 = n
      OBVIOUS
    <3> QED  BY <2>10, <3>1, <3>2, <3>3
  <2> QED  BY <2>9, <2>10
<1> QED  BY <1>6, <1>7

\* Nothing is paid and nothing is posted.
LEMMA MoneyInit == Init => MoneyInv
<1> SUFFICES ASSUME Init PROVE MoneyInv
  OBVIOUS
<1>1. Inv
  BY InitInv
<1>2. ASSUME NEW i \in Invoices PROVE RowsAgree(i) /\ NetsOut(i) /\ NothingPosted(i)
  <2>1. payments[i] = <<>> /\ status[i] \in {"DRAFT", "ISSUED"} /\ issuedTo[i] = None
    BY DEF Init
  <2>2. Paid(i) = 0
    BY <1>1, <2>1, PaidType
  <2>3. Total[i] \in Nat /\ Total[i] # 0
    BY ServiceAssumption
  <2>4. RowsAgree(i)
    BY <2>1, <2>2, <2>3 DEF RowsAgree
  <2> QED  BY <2>1, <2>4 DEF NetsOut, NothingPosted, Init
<1>3. ASSUME NEW p \in Procs PROVE Checked(p)
  BY DEF Init, Checked, Workers
<1> QED  BY <1>1, <1>2, <1>3 DEF MoneyInv

\* What a handler has checked stays true while it holds the row lock.
LEMMA CheckedStays ==
    ASSUME NEW p \in Procs, Checked(p), pc[p] = "commit",
           req'[p] = req[p], target'[p] = target[p],
           payments'[req[p].invoice] = payments[req[p].invoice],
           issuedTo'[req[p].invoice] = issuedTo[req[p].invoice]
    PROVE  Checked(p)'
<1>1. PICK i : i = req[p].invoice
  OBVIOUS
<1>2. Paid(i)' = Paid(i)
  BY <1>1 DEF Paid, SumOver
<1>3. \A n : StatusAfter(i, n)' = StatusAfter(i, n)
  BY DEF StatusAfter
<1> QED  BY <1>1, <1>2, <1>3 DEF Checked

\* The rows of an invoice that keeps them agree as before.
LEMMA RowsStay ==
    ASSUME NEW i \in Invoices, RowsAgree(i), NetsOut(i), NothingPosted(i),
           status'[i] = status[i], payments'[i] = payments[i],
           issuedTo'[i] = issuedTo[i], posted'[i] = posted[i]
    PROVE  RowsAgree(i)' /\ NetsOut(i)' /\ NothingPosted(i)'
<1>1. Paid(i)' = Paid(i)
  BY DEF Paid, SumOver
<1>2. \A a : SumOver(i, Elsewhere(i, a))' = SumOver(i, Elsewhere(i, a))
  BY DEF SumOver, Elsewhere
<1> QED  BY <1>1, <1>2 DEF RowsAgree, NetsOut, NothingPosted

\* A step that commits nothing and lets no handler pass its checks.
LEMMA MoneyQuiet ==
    ASSUME MoneyInv, Inv', UNCHANGED <<status, issuedTo, payments, posted>>,
           \A p \in Procs : pc'[p] = "commit" =>
               pc[p] = "commit" /\ req'[p] = req[p] /\ target'[p] = target[p]
    PROVE  MoneyInv'
<1>1. ASSUME NEW i \in Invoices PROVE RowsAgree(i)' /\ NetsOut(i)' /\ NothingPosted(i)'
  BY RowsStay DEF MoneyInv
<1>2. ASSUME NEW p \in Procs PROVE Checked(p)'
  <2>1. CASE pc'[p] = "commit"
    BY <2>1, CheckedStays DEF MoneyInv
  <2>2. CASE pc'[p] # "commit"
    BY <2>2 DEF Checked
  <2> QED  BY <2>1, <2>2
<1> QED  BY <1>1, <1>2 DEF MoneyInv

\* A handler that passes its checks.
LEMMA MoneyValidate ==
    ASSUME MoneyInv, Inv', NEW p \in Procs,
           pc' = [pc EXCEPT ![p] = "commit"],
           UNCHANGED <<req, tables>>,
           \A q \in Procs \ {p} : target'[q] = target[q],
           Checked(p)'
    PROVE  MoneyInv'
<1>1. UNCHANGED <<status, issuedTo, payments, posted>>
  BY DEF tables
<1>2. ASSUME NEW i \in Invoices PROVE RowsAgree(i)' /\ NetsOut(i)' /\ NothingPosted(i)'
  BY <1>1, RowsStay DEF MoneyInv
<1>3. ASSUME NEW q \in Procs, q # p PROVE Checked(q)'
  <2>1. pc'[q] = pc[q]
    BY <1>3 DEF MoneyInv, Inv, TypeOK, Workers
  <2>2. CASE pc[q] = "commit"
    BY <1>1, <1>3, <2>2, CheckedStays DEF MoneyInv
  <2>3. CASE pc[q] # "commit"
    BY <2>1, <2>3 DEF Checked
  <2> QED  BY <2>2, <2>3
<1> QED  BY <1>2, <1>3 DEF MoneyInv

\* A commit: the handlers that go on hold locks on other invoices.
LEMMA MoneyCommit ==
    ASSUME MoneyInv, Inv', NEW p \in Procs, pc[p] = "commit", EndHandler(p, "done"),
           NEW i \in Invoices, i = req[p].invoice,
           \A k \in Invoices \ {i} :
               /\ status'[k] = status[k] /\ payments'[k] = payments[k]
               /\ issuedTo'[k] = issuedTo[k] /\ posted'[k] = posted[k],
           RowsAgree(i)' /\ NetsOut(i)' /\ NothingPosted(i)'
    PROVE  MoneyInv'
<1>1. ASSUME NEW k \in Invoices, k # i PROVE RowsAgree(k)' /\ NetsOut(k)' /\ NothingPosted(k)'
  BY <1>1, RowsStay DEF MoneyInv
<1>2. ASSUME NEW q \in Procs PROVE Checked(q)'
  <2>1. CASE pc'[q] = "commit"
    <3>1. /\ q # p /\ pc[q] = "commit" /\ req'[q] = req[q] /\ target'[q] = target[q]
      BY <2>1 DEF EndHandler, MoneyInv, Inv, TypeOK, Workers
    <3>2. /\ req[q].invoice \in Invoices /\ lock[req[q].invoice] = q
          /\ lock[i] = p
      BY <3>1, CommitShape DEF MoneyInv
    <3>3. req[q].invoice # i
      BY <3>1, <3>2
    <3> QED  BY <3>1, <3>2, <3>3, CheckedStays DEF MoneyInv
  <2>2. CASE pc'[q] # "commit"
    BY <2>2 DEF Checked
  <2> QED  BY <2>1, <2>2
<1> QED  BY <1>1, <1>2 DEF MoneyInv

\* An issue posts the total.
LEMMA MoneyIssue ==
    ASSUME MoneyInv, Inv', NEW p \in Procs, CommitIssue(p)
    PROVE  MoneyInv'
<1>1. PICK i \in Invoices : i = req[p].invoice
  BY CommitShape DEF CommitIssue, MoneyInv
<1>2. PICK debit, credit : debit = req[p].accounts[1] /\ credit = req[p].accounts[2]
  OBVIOUS
<1>3. pc[p] = "commit" /\ req[p].op = "issue" /\ req[p] \in Request
  BY CommitShape DEF CommitIssue, MoneyInv
<1>4. debit \in Accounts /\ debit # credit
  BY <1>2, <1>3, RequestShape, PairShape DEF MoneyInv, Checked
<1>5. /\ Post(i, debit, credit, Total[i])
      /\ issuedTo' = [issuedTo EXCEPT ![i] = debit]
      /\ status' = [status EXCEPT ![i] = "ISSUED"]
      /\ EndHandler(p, "done")
      /\ UNCHANGED payments
  BY <1>1, <1>2 DEF CommitIssue, SetStatus
<1>6. /\ status \in [Invoices -> Status] /\ posted \in [Invoices -> [Accounts -> Int]]
      /\ issuedTo \in [Invoices -> Accounts \cup {None}]
  BY DEF MoneyInv, Inv, TypeOK
<1>7. status[i] = "DRAFT"
  <2>1. CanTransition(status[i], "ISSUED")
    BY <1>1, <1>3, CommitShape DEF MoneyInv, Inv, Decision
  <2> QED  BY <1>6, <2>1 DEF CanTransition, AllowedTransitions, Status
<1>8. payments[i] = <<>> /\ posted[i] = [a \in Accounts |-> 0]
  BY <1>7 DEF MoneyInv, RowsAgree, NothingPosted
<1>9. status'[i] = "ISSUED" /\ issuedTo'[i] = debit /\ payments'[i] = <<>>
  BY <1>5, <1>6, <1>8
<1>10. Total[i] \in Nat /\ Total[i] # 0
  BY ServiceAssumption
<1>11. posted'[i][debit] = Total[i]
  <2>1. posted[i][debit] = 0
    BY <1>4, <1>8
  <2>2. posted'[i][debit] = 0 + Total[i] - 0
    BY <1>4, <1>5, <1>6, <2>1 DEF Post
  <2> QED  BY <1>10, <2>2
<1>12. RowsAgree(i)'
  <2>1. Paid(i)' = 0
    <3>1. DOMAIN payments'[i] = {}
      BY <1>9
    <3> QED  BY <3>1, SumEmpty DEF Paid, SumOver
  <2> QED  BY <1>9, <1>10, <2>1 DEF RowsAgree
<1>13. NetsOut(i)'
  <2>1. Elsewhere(i, debit)' = {}
    BY <1>9 DEF Elsewhere
  <2>2. SumOver(i, Elsewhere(i, debit))' = 0
    BY <2>1, SumEmpty DEF SumOver
  <2> QED  BY <1>9, <1>10, <1>11, <2>2 DEF NetsOut
<1>14. NothingPosted(i)'
  BY <1>9 DEF NothingPosted
<1>15. \A k \in Invoices \ {i} :
           /\ status'[k] = status[k] /\ payments'[k] = payments[k]
           /\ issuedTo'[k] = issuedTo[k] /\ posted'[k] = posted[k]
  BY <1>5, <1>6 DEF Post
<1> QED  BY <1>1, <1>3, <1>5, <1>12, <1>13, <1>14, <1>15, MoneyCommit

\* A void posts nothing.
LEMMA MoneyVoid ==
    ASSUME MoneyInv, Inv', NEW p \in Procs, CommitVoid(p)
    PROVE  MoneyInv'
<1>1. PICK i \in Invoices : i = req[p].invoice
  BY CommitShape DEF CommitVoid, MoneyInv
<1>2. /\ pc[p] = "commit" /\ req[p].op = "void"
      /\ status' = [status EXCEPT ![i] = "VOID"]
      /\ EndHandler(p, "done")
      /\ UNCHANGED <<payments, issuedTo, posted>>
  BY <1>1 DEF CommitVoid, SetStatus
<1>3. status \in [Invoices -> Status] /\ status'[i] = "VOID"
  BY <1>2 DEF MoneyInv, Inv, TypeOK
<1>4. Paid(i) = 0 /\ payments[i] = <<>>
  BY <1>1, <1>2, PaidType DEF MoneyInv, Checked
<1>5. Paid(i)' = Paid(i)
  BY <1>2 DEF Paid, SumOver
<1>6. RowsAgree(i)'
  <2>1. Total[i] \in Nat /\ Total[i] # 0
    BY ServiceAssumption
  <2> QED  BY <1>2, <1>3, <1>4, <1>5, <2>1 DEF RowsAgree
<1>7. NetsOut(i)'
  <2>1. \A a : SumOver(i, Elsewhere(i, a))' = SumOver(i, Elsewhere(i, a))
    BY <1>2 DEF SumOver, Elsewhere
  <2> QED  BY <1>2, <2>1 DEF NetsOut, MoneyInv
<1>8. NothingPosted(i)'
  BY <1>3 DEF NothingPosted
<1>9. \A k \in Invoices \ {i} : status'[k] = status[k]
  BY <1>2, <1>3
<1> QED  BY <1>1, <1>2, <1>6, <1>7, <1>8, <1>9, MoneyCommit

\* A payment posts its amount, which does not exceed what is left.
LEMMA MoneyPayment ==
    ASSUME MoneyInv, Inv', NEW p \in Procs, CommitPayment(p)
    PROVE  MoneyInv'
<1>1. PICK i \in Invoices : i = req[p].invoice
  BY CommitShape DEF CommitPayment, MoneyInv
<1>2. pc[p] = "commit" /\ req[p].op = "pay" /\ req[p] \in Request
  BY CommitShape DEF CommitPayment, MoneyInv
<1>3. PICK e : e = [key |-> req[p].key, amount |-> req[p].amount, accounts |-> req[p].accounts]
  OBVIOUS
<1>4. PICK amount \in Nat : amount = req[p].amount /\ amount # 0 /\ amount \in Amounts
  BY <1>2, RequestShape, ServiceAssumption
<1>5. PICK debit \in Accounts, credit \in Accounts :
          debit = req[p].accounts[1] /\ credit = req[p].accounts[2]
  BY <1>2, RequestShape, PairShape
<1>6. e \in Payment /\ e.amount = amount /\ e.accounts[1] = debit
  BY <1>2, <1>3, <1>4, <1>5, RequestShape DEF Payment
<1>7. /\ payments' = [payments EXCEPT ![i] = Append(payments[i], e)]
      /\ Post(i, debit, credit, amount)
      /\ status' = [status EXCEPT ![i] = target[p]]
      /\ EndHandler(p, "done")
      /\ UNCHANGED issuedTo
  BY <1>1, <1>3, <1>4, <1>5 DEF CommitPayment, SetStatus
<1>8. /\ status \in [Invoices -> Status] /\ posted \in [Invoices -> [Accounts -> Int]]
      /\ payments \in [Invoices -> Seq(Payment)]
      /\ issuedTo \in [Invoices -> Accounts \cup {None}]
  BY DEF MoneyInv, Inv, TypeOK
<1>9. /\ Paid(i) + amount <= Total[i]
      /\ target[p] = StatusAfter(i, Paid(i) + amount)
      /\ issuedTo[i] \in {None, credit}
  BY <1>1, <1>2, <1>4, <1>5 DEF MoneyInv, Checked
<1>10. PICK total \in Nat, before \in Nat, after \in Nat :
           /\ total = Total[i] /\ before = Paid(i)
           /\ after = before + amount
  <2>1. Paid(i) \in Nat /\ Total[i] \in Nat
    BY PaidType, ServiceAssumption DEF MoneyInv
  <2>2. Paid(i) + amount \in Nat
    BY <2>1
  <2> QED  BY <2>1, <2>2
<1>11. payments'[i] = Append(payments[i], e)
  BY <1>7, <1>8
<1>12. /\ Paid(i)' = after
       /\ \A a : SumOver(i, Elsewhere(i, a))' =
             SumOver(i, Elsewhere(i, a)) + (IF debit # a THEN amount ELSE 0)
  BY <1>6, <1>10, <1>11, PaidGrows DEF MoneyInv
<1>13. status'[i] = (IF after = total THEN "PAID" ELSE "PARTIALLY_PAID")
  BY <1>7, <1>8, <1>9, <1>10 DEF StatusAfter
<1>14. RowsAgree(i)'
  <2>1. payments'[i] # <<>>
    <3>1. payments[i] \in Seq(Payment)
      BY <1>8
    <3>2. Len(payments'[i]) # 0
      BY <1>6, <1>11, <3>1, AppendedIsThere
    <3> QED  BY <3>2
  <2>2. Paid(i)' <= Total[i]
    BY <1>9, <1>10, <1>12
  <2> QED  BY <1>10, <1>12, <1>13, <2>1, <2>2 DEF RowsAgree
<1>15. NetsOut(i)'
  <2> SUFFICES ASSUME issuedTo[i] # None
               PROVE  posted'[i][credit] = Total[i] - SumOver(i, Elsewhere(i, credit))'
    BY <1>7, <1>9 DEF NetsOut
  <2>1. issuedTo[i] = credit
    BY <1>9
  <2>2. PICK sum \in Int : sum = SumOver(i, Elsewhere(i, credit))
    <3>1. PICK s \in Seq(Payment) : s = payments[i]
      BY <1>8
    <3>2. PICK S \in SUBSET DOMAIN s : S = Elsewhere(i, credit)
      BY <3>1 DEF Elsewhere
    <3>3. SumFunctionOnSet(AmountsOf(s), S) \in Nat
      BY <1>6, AmountsAppend
    <3>4. SumOver(i, Elsewhere(i, credit)) = SumFunctionOnSet(AmountsOf(s), S)
      BY <3>1, <3>2 DEF SumOver, AmountsOf
    <3> QED  BY <3>3, <3>4
  <2>3. posted[i][credit] = total - sum
    BY <1>10, <2>1, <2>2 DEF MoneyInv, NetsOut
  <2>4. posted'[i][credit] = posted[i][credit] + (IF credit = debit THEN amount ELSE 0) - amount
    BY <1>7, <1>8 DEF Post
  <2>5. SumOver(i, Elsewhere(i, credit))' = sum + (IF debit # credit THEN amount ELSE 0)
    BY <1>12, <2>2
  <2> QED  BY <1>10, <2>3, <2>4, <2>5
<1>16. NothingPosted(i)'
  BY <1>13 DEF NothingPosted
<1>17. \A k \in Invoices \ {i} :
           /\ status'[k] = status[k] /\ payments'[k] = payments[k]
           /\ issuedTo'[k] = issuedTo[k] /\ posted'[k] = posted[k]
  BY <1>7, <1>8 DEF Post
<1> QED  BY <1>1, <1>2, <1>7, <1>14, <1>15, <1>16, <1>17, MoneyCommit

\* A check that passes decides on current sums.
LEMMA MoneyPasses ==
    ASSUME MoneyInv, Inv', NEW p \in Procs,
           ValidateIssue(p) \/ ValidatePayment(p) \/ ValidateVoid(p), ~Refuse(p)
    PROVE  MoneyInv'
<1>1. PICK i \in Invoices : i = req[p].invoice /\ req[p] \in Request
  BY RequestShape DEF MoneyInv, Inv, Control, ValidateIssue, ValidatePayment, ValidateVoid
<1>2. pc \in [Workers -> PC] /\ p \in Workers /\ target \in [Procs -> Status \cup {None}]
  BY DEF MoneyInv, Inv, TypeOK, Workers
<1>3. CASE ValidateIssue(p)
  <2>1. /\ pc' = [pc EXCEPT ![p] = "commit"] /\ req[p].op = "issue"
        /\ UNCHANGED <<req, tables, target>>
        /\ AccountType[req[p].accounts[1]] = "ASSET"
        /\ AccountType[req[p].accounts[2]] = "REVENUE"
    BY <1>3 DEF ValidateIssue, Continue
  <2>2. Checked(p)'
    BY <2>1 DEF Checked
  <2> QED  BY <2>1, <2>2, MoneyValidate
<1>4. CASE ValidateVoid(p)
  <2>1. /\ pc' = [pc EXCEPT ![p] = "commit"] /\ req[p].op = "void"
        /\ UNCHANGED <<req, tables, target>>
        /\ Paid(i) = 0
    BY <1>1, <1>4 DEF ValidateVoid, Continue
  <2>2. Paid(i)' = 0
    BY <2>1 DEF Paid, SumOver, tables
  <2>3. Checked(p)'
    BY <1>1, <2>1, <2>2 DEF Checked
  <2> QED  BY <2>1, <2>3, MoneyValidate
<1>5. CASE ValidatePayment(p)
  <2>1. PICK t : t = StatusAfter(i, Paid(i) + req[p].amount)
    OBVIOUS
  <2>2. /\ pc' = [pc EXCEPT ![p] = "commit"] /\ req[p].op = "pay" /\ pc[p] = "validate"
        /\ UNCHANGED <<req, tables>>
        /\ target' = [target EXCEPT ![p] = t]
        /\ Paid(i) + req[p].amount <= Total[i]
        /\ row[p].issuedTo \in {None, req[p].accounts[2]}
    BY <1>1, <1>5, <2>1 DEF ValidatePayment, Continue
  <2>3. row[p].issuedTo = issuedTo[i]
    <3>1. row[p] = [status |-> status[i], issuedTo |-> issuedTo[i]]
      BY <1>1, <2>2 DEF MoneyInv, Inv, Locking, LockedRowIsCurrent
    <3> QED  BY <3>1
  <2>4. Paid(i)' = Paid(i) /\ issuedTo'[i] = issuedTo[i]
    BY <2>2 DEF Paid, SumOver, tables
  <2>5. target'[p] = StatusAfter(i, Paid(i) + req[p].amount)'
    BY <1>2, <2>1, <2>2, <2>4 DEF StatusAfter
  <2>6. Checked(p)'
    BY <1>1, <2>2, <2>3, <2>4, <2>5 DEF Checked
  <2>7. \A q \in Procs \ {p} : target'[q] = target[q]
    BY <1>2, <2>2
  <2> QED  BY <2>2, <2>6, <2>7, MoneyValidate
<1> QED  BY <1>3, <1>4, <1>5

\* The job moves invoices that have something left to pay.
LEMMA MoneyJob ==
    ASSUME MoneyInv, Inv', NEW j \in Jobs, CommitJob(j)
    PROVE  MoneyInv'
<1>1. /\ UNCHANGED <<issuedTo, payments, posted, handler>>
      /\ \A i \in Invoices : status'[i] = IF \E c \in marked[j] : c[1] = i
                                          THEN "OVERDUE" ELSE status[i]
  BY DEF CommitJob
<1>2. ASSUME NEW i \in Invoices PROVE RowsAgree(i)' /\ NetsOut(i)' /\ NothingPosted(i)'
  <2>1. CASE \E c \in marked[j] : c[1] = i
    <3>1. status'[i] = "OVERDUE"
      BY <1>1, <2>1
    <3>2. CanTransition(status[i], "OVERDUE") /\ status[i] \in Status
      BY <2>1 DEF MoneyInv, Inv, Locking, TypeOK
    <3>3. status[i] # "PAID"
      BY <3>2 DEF CanTransition, AllowedTransitions, Status
    <3>4. Paid(i)' = Paid(i) /\ \A a : SumOver(i, Elsewhere(i, a))' = SumOver(i, Elsewhere(i, a))
      BY <1>1 DEF Paid, SumOver, Elsewhere
    <3>5. RowsAgree(i) /\ NetsOut(i)
      BY DEF MoneyInv
    <3>6. RowsAgree(i)'
      BY <3>1, <3>3, <3>4, <3>5 DEF RowsAgree
    <3>7. NetsOut(i)'
      BY <1>1, <3>4, <3>5 DEF NetsOut
    <3> QED  BY <3>1, <3>6, <3>7 DEF NothingPosted
  <2>2. CASE ~\E c \in marked[j] : c[1] = i
    <3>1. status'[i] = status[i]
      BY <1>1, <2>2
    <3> QED  BY <1>1, <3>1, RowsStay DEF MoneyInv
  <2> QED  BY <2>1, <2>2
<1>3. ASSUME NEW p \in Procs PROVE Checked(p)'
  <2>1. pc'[p] = pc[p]
    BY ServiceAssumption DEF CommitJob, EndJob, MoneyInv, Inv, TypeOK, Workers
  <2>2. CASE pc[p] = "commit"
    BY <1>1, <2>2, CheckedStays DEF MoneyInv, handler
  <2>3. CASE pc[p] # "commit"
    BY <2>1, <2>3 DEF Checked
  <2> QED  BY <2>2, <2>3
<1> QED  BY <1>2, <1>3 DEF MoneyInv

\* Every step keeps the sums.
LEMMA MoneyNext == MoneyInv /\ [Next]_vars => MoneyInv'
<1> SUFFICES ASSUME MoneyInv, [Next]_vars PROVE MoneyInv'
  OBVIOUS
<1>0. Inv' /\ Inv
  BY NextInv DEF MoneyInv
<1>1. ASSUME NEW p \in Procs, CommitIssue(p) \/ CommitPayment(p) \/ CommitVoid(p)
      PROVE  MoneyInv'
  BY <1>0, <1>1, MoneyIssue, MoneyPayment, MoneyVoid
<1>2. ASSUME NEW j \in Jobs, CommitJob(j) PROVE MoneyInv'
  BY <1>0, <1>2, MoneyJob
<1>3. ASSUME NEW p \in Procs,
             ~Refuse(p), ValidateIssue(p) \/ ValidatePayment(p) \/ ValidateVoid(p)
      PROVE  MoneyInv'
  BY <1>0, <1>3, MoneyPasses
<1> DEFINE quiet == /\ UNCHANGED <<status, issuedTo, payments, posted>>
                    /\ \A p \in Procs : pc'[p] = "commit" =>
                           pc[p] = "commit" /\ req'[p] = req[p] /\ target'[p] = target[p]
<1>4. quiet => MoneyInv'
  BY <1>0, MoneyQuiet
<1>5. ASSUME NEW p \in Procs, NEW result, EndHandler(p, result), UNCHANGED tables
      PROVE  quiet
  BY <1>0, <1>5 DEF EndHandler, Inv, TypeOK, Workers, tables
<1>6. ASSUME NEW p \in Procs,
             LockInvoice(p) \/ InsertPayment(p) \/ Refuse(p)
      PROVE  quiet
  <2>1. CASE Refuse(p)
    BY <1>5, <2>1 DEF Refuse
  <2>2. CASE LockInvoice(p) /\ ~Refuse(p)
    <3>1. PICK next \in {"insert", "validate"} : Continue(p, next) /\ UNCHANGED <<tables, target>>
      BY <2>2 DEF LockInvoice
    <3> QED  BY <1>0, <3>1 DEF Continue, tables, Inv, TypeOK, Workers
  <2>3. CASE InsertPayment(p)
    <3>1. CASE Continue(p, "validate") /\ UNCHANGED <<tables, target>>
      BY <1>0, <3>1 DEF Continue, tables, Inv, TypeOK, Workers
    <3>2. CASE ~(Continue(p, "validate") /\ UNCHANGED <<tables, target>>)
      <4>1. UNCHANGED tables /\ (EndHandler(p, "replayed") \/ EndHandler(p, "refused"))
        BY <2>3, <3>2 DEF InsertPayment
      <4> QED  BY <1>5, <4>1
    <3> QED  BY <3>1, <3>2
  <2> QED  BY <1>6, <2>1, <2>2, <2>3
<1>7. ASSUME NEW j \in Jobs, JobStep(j), ~CommitJob(j) PROVE quiet
  <2>1. UNCHANGED <<tables, handler>> /\ \A p \in Procs : pc'[p] = pc[p]
    BY <1>0, <1>7, ServiceAssumption
       DEF JobStep, SelectCandidates, NextCandidate, UpdateCandidate, Inv, TypeOK, Workers
  <2> QED  BY <2>1 DEF tables, handler
<1>8. ASSUME NEW w \in Workers, Rollback(w) PROVE quiet
  <2>1. CASE w \in Procs /\ EndHandler(w, "none")
    BY <1>5, <1>8, <2>1 DEF Rollback
  <2>2. CASE w \in Jobs /\ EndJob(w) /\ UNCHANGED handler
    <3>1. \A p \in Procs : pc'[p] = pc[p]
      BY <1>0, <2>2, ServiceAssumption DEF EndJob, Inv, TypeOK, Workers
    <3> QED  BY <1>8, <2>2, <3>1 DEF Rollback, tables, handler
  <2> QED  BY <1>8, <2>1, <2>2 DEF Rollback
<1>9. ASSUME NEW p \in Procs, NEW r \in Request, StartRequest(p, r) PROVE quiet
  BY <1>0, <1>9 DEF StartRequest, Inv, TypeOK, Workers, tables
<1>10. CASE UNCHANGED vars \/ \E i \in Invoices : DueDatePasses(i)
  <2>1. UNCHANGED <<tables, pc, handler>>
    BY <1>10 DEF vars, DueDatePasses
  <2>2. quiet
    BY <2>1 DEF tables, handler
  <2> QED  BY <1>4, <2>2
<1>11. ASSUME NEW p \in Procs, HandlerStep(p) PROVE MoneyInv'
  <2>1. CASE LockInvoice(p) \/ InsertPayment(p) \/ Refuse(p)
    <3>1. quiet
      BY <1>6, <2>1
    <3> QED  BY <1>4, <3>1
  <2>2. CASE ~(LockInvoice(p) \/ InsertPayment(p) \/ Refuse(p))
    BY <1>1, <1>3, <1>11, <2>2 DEF HandlerStep
  <2> QED  BY <2>1, <2>2
<1>12. ASSUME NEW j \in Jobs, JobStep(j) PROVE MoneyInv'
  BY <1>2, <1>4, <1>7, <1>12
<1>13. ASSUME NEW w \in Workers, Rollback(w) PROVE MoneyInv'
  BY <1>4, <1>8, <1>13
<1>14. ASSUME NEW p \in Procs, NEW r \in Request, StartRequest(p, r) PROVE MoneyInv'
  BY <1>4, <1>9, <1>14
<1> HIDE DEF quiet
<1> QED
  BY <1>10, <1>11, <1>12, <1>13, <1>14 DEF Next, Crash, AbortDeadlock

\* The sums of every behaviour.
LEMMA MoneyInvariance == Spec => []MoneyInv
  BY MoneyInit, MoneyNext, PTL DEF Spec

\* In every interleaving, an invoice is never overpaid, PAID exactly when its
\* payment rows add up to its total, and without any when a draft, only issued,
\* or voided: the sum a payment or a void decides on is still the sum when it
\* commits.
THEOREM StatusAlwaysMatchesPayments == Spec => []StatusMatchesPayments
<1>1. MoneyInv => StatusMatchesPayments
  BY DEF MoneyInv, RowsAgree, StatusMatchesPayments
<1> QED  BY MoneyInvariance, <1>1, PTL

\* The account an invoice was issued to carries, to the unit, its total less
\* what was paid into another account, also when a payment debits and credits
\* that same account.
THEOREM ReceivableAlwaysNetsOut == Spec => []ReceivableNetsOut
<1>1. MoneyInv => ReceivableNetsOut
  BY DEF MoneyInv, NetsOut, Elsewhere, ReceivableNetsOut
<1> QED  BY MoneyInvariance, <1>1, PTL

-----------------------------------------------------------------------------
(* The handlers and the job implement the atomic life cycle *)

\* What a job has read past due stays so.
JobDue(j) ==
    /\ \A c \in todo[j] \cup marked[j] : due[c[1]]
    /\ pc[j] = "update" => due[current[j][1]]

RefinementInv == MoneyInv /\ \A j \in Jobs : JobDue(j)

\* Jobs that keep what they have read.
LEMMA JobDueStays ==
    ASSUME Inv, NEW j \in Jobs, JobDue(j),
           \A i \in Invoices : due[i] => due'[i],
           pc'[j] = pc[j], todo'[j] = todo[j], marked'[j] = marked[j], current'[j] = current[j]
    PROVE  JobDue(j)'
<1>1. \A c \in todo[j] \cup marked[j] : c[1] \in Invoices
  BY PairShape DEF Inv, TypeOK
<1>2. pc[j] = "update" => current[j][1] \in Invoices
  BY PairShape DEF Inv, Control
<1> QED  BY <1>1, <1>2 DEF JobDue

\* Every step keeps what the refinement needs.
LEMMA RefinementNext == RefinementInv /\ [Next]_vars => RefinementInv'
<1> SUFFICES ASSUME RefinementInv, [Next]_vars, NEW k \in Jobs PROVE JobDue(k)'
  BY MoneyNext DEF RefinementInv
<1>0. /\ Inv /\ JobDue(k) /\ pc \in [Workers -> PC]
      /\ todo \in [Jobs -> SUBSET Candidate]
      /\ marked \in [Jobs -> SUBSET Candidate]
      /\ current \in [Jobs -> Candidate \cup {None}]
  BY DEF RefinementInv, MoneyInv, Inv, TypeOK
<1> DEFINE kept == /\ pc'[k] = pc[k] /\ todo'[k] = todo[k]
                   /\ marked'[k] = marked[k] /\ current'[k] = current[k]
                   /\ \A i \in Invoices : due[i] => due'[i]
<1>1. kept => JobDue(k)'
  BY <1>0, JobDueStays
<1>2. ASSUME NEW p \in Procs, HandlerStep(p) PROVE kept
  <2>1. ASSUME NEW result, EndHandler(p, result) PROVE pc'[k] = pc[k]
    BY <1>0, <2>1, ServiceAssumption DEF EndHandler, Workers
  <2>2. ASSUME NEW next, Continue(p, next) PROVE pc'[k] = pc[k]
    BY <1>0, <2>2, ServiceAssumption DEF Continue, Workers
  <2>3. UNCHANGED <<due, job>>
    BY <1>2 DEF HandlerStep, LockInvoice, InsertPayment, ValidateIssue, ValidatePayment,
                ValidateVoid, CommitIssue, CommitPayment, CommitVoid
  <2>4. pc'[k] = pc[k]
    BY <1>2, <2>1, <2>2 DEF HandlerStep, LockInvoice, InsertPayment, ValidateIssue,
       ValidatePayment, ValidateVoid, CommitIssue, CommitPayment, CommitVoid, Refuse
  <2> QED  BY <2>3, <2>4 DEF job
<1>3. ASSUME NEW j \in Jobs, JobStep(j), j # k PROVE kept
  BY <1>0, <1>3 DEF JobStep, SelectCandidates, NextCandidate, UpdateCandidate, CommitJob,
                    EndJob, Workers
<1>4. CASE SelectCandidates(k)
  <2>1. /\ todo'[k] = {<<i, status[i]>> : i \in {n \in Invoices :
                          due[n] /\ status[n] \in StatusThatCanReach("OVERDUE")}}
        /\ pc'[k] = "next" /\ marked'[k] = marked[k] /\ due' = due
    BY <1>0, <1>4 DEF SelectCandidates, Workers
  <2>2. \A c \in todo'[k] : due[c[1]]
    BY <2>1
  <2> QED  BY <1>0, <2>1, <2>2 DEF JobDue
<1>5. ASSUME NEW c \in todo[k], NextCandidate(k, c) PROVE JobDue(k)'
  <2>1. /\ todo'[k] = todo[k] \ {c} /\ marked'[k] = marked[k] /\ current'[k] = c /\ due' = due
    BY <1>0, <1>5 DEF NextCandidate
  <2>2. due[c[1]]
    BY <1>0 DEF JobDue
  <2> QED  BY <1>0, <2>1, <2>2 DEF JobDue
<1>6. CASE UpdateCandidate(k)
  <2>1. /\ todo'[k] = todo[k] /\ due' = due /\ pc[k] = "update" /\ pc'[k] = "next"
        /\ marked'[k] \subseteq marked[k] \cup {current[k]}
    BY <1>0, <1>6 DEF UpdateCandidate, Workers
  <2> QED  BY <1>0, <2>1 DEF JobDue
<1>7. CASE EndJob(k)
  BY <1>0, <1>7 DEF EndJob, JobDue, Workers
<1>8. ASSUME NEW w \in Workers, Rollback(w), w # k PROVE kept
  <2>1. CASE w \in Procs /\ EndHandler(w, "none") /\ UNCHANGED job
    BY <1>0, <1>8, <2>1 DEF EndHandler, Rollback, Workers, job
  <2>2. CASE w \in Jobs /\ EndJob(w) /\ UNCHANGED handler
    BY <1>0, <1>8, <2>2 DEF EndJob, Rollback, Workers
  <2> QED  BY <1>8, <2>1, <2>2 DEF Rollback
<1>9. ASSUME NEW w \in Workers, Rollback(w) PROVE JobDue(k)'
  <2>1. CASE w = k
    <3>1. EndJob(k)
      BY <1>9, <2>1, ServiceAssumption DEF Rollback
    <3> QED  BY <1>7, <3>1
  <2>2. CASE w # k
    BY <1>1, <1>8, <1>9, <2>2
  <2> QED  BY <2>1, <2>2
<1>10. ASSUME NEW p \in Procs, NEW r \in Request, StartRequest(p, r) PROVE kept
  BY <1>0, <1>10, ServiceAssumption DEF StartRequest, Workers, job
<1>11. ASSUME NEW i \in Invoices, DueDatePasses(i) PROVE kept
  <2>1. UNCHANGED <<pc, job>> /\ due \in [Invoices -> BOOLEAN] /\ due' = [due EXCEPT ![i] = TRUE]
    BY <1>0, <1>11 DEF DueDatePasses, Inv, TypeOK
  <2> QED  BY <2>1 DEF job
<1>12. CASE UNCHANGED vars
  BY <1>1, <1>12 DEF vars, job
<1> HIDE DEF kept
<1>13. ASSUME NEW j \in Jobs, JobStep(j) PROVE JobDue(k)'
  <2>1. CASE j # k
    BY <1>1, <1>3, <1>13, <2>1
  <2>2. CASE j = k
    BY <1>4, <1>5, <1>6, <1>7, <1>13, <2>2 DEF JobStep, CommitJob
  <2> QED  BY <2>1, <2>2
<1> QED
  BY <1>1, <1>2, <1>9, <1>10, <1>11, <1>12, <1>13 DEF Next, Crash, AbortDeadlock

\* The abstract life cycle has the transition table of the service.
LEMMA SameStateMachine ==
    \A s \in Status, t \in Status : Lifecycle!CanTransition(s, t) <=> CanTransition(s, t)
  BY DEF CanTransition, AllowedTransitions, Status,
         Lifecycle!CanTransition, Lifecycle!AllowedTransitions, Lifecycle!Status

LifecycleState == <<status, [i \in Invoices |-> Paid(i)], due>>

\* Where no payment is added, what is paid stays.
LEMMA PaidStays ==
    ASSUME UNCHANGED payments
    PROVE  UNCHANGED [i \in Invoices |-> Paid(i)]
  BY DEF Paid, SumOver

\* Every step of a worker is a step of the life cycle, or none at all: the
\* operations take effect at their commits, with the checks still true.
LEMMA StepImplements ==
    ASSUME RefinementInv, [Next]_vars
    PROVE  Lifecycle!Next \/ UNCHANGED LifecycleState
<1>0. /\ MoneyInv /\ Inv
      /\ status \in [Invoices -> Status] /\ due \in [Invoices -> BOOLEAN]
  BY DEF RefinementInv, MoneyInv, Inv, TypeOK
<1>1. ASSUME NEW p \in Procs, CommitIssue(p) PROVE Lifecycle!Next
  <2>1. PICK i \in Invoices : i = req[p].invoice
    BY <1>0, <1>1, CommitShape DEF CommitIssue
  <2>2. /\ status' = [status EXCEPT ![i] = "ISSUED"]
        /\ UNCHANGED <<payments, due>>
    BY <1>1, <2>1 DEF CommitIssue, SetStatus
  <2>3. CanTransition(status[i], "ISSUED") /\ status[i] \in Status
    BY <1>0, <1>1, <2>1, CommitShape DEF CommitIssue, Inv, Decision
  <2>4. Lifecycle!Issue(i)
    BY <2>2, <2>3, PaidStays, SameStateMachine, Transitions DEF Lifecycle!Issue
  <2> QED  BY <2>4 DEF Lifecycle!Next
<1>2. ASSUME NEW p \in Procs, CommitVoid(p) PROVE Lifecycle!Next
  <2>1. PICK i \in Invoices : i = req[p].invoice
    BY <1>0, <1>2, CommitShape DEF CommitVoid
  <2>2. /\ status' = [status EXCEPT ![i] = "VOID"]
        /\ UNCHANGED <<payments, due>>
    BY <1>2, <2>1 DEF CommitVoid, SetStatus
  <2>3. CanTransition(status[i], "VOID") /\ status[i] \in Status
    BY <1>0, <1>2, <2>1, CommitShape DEF CommitVoid, Inv, Decision
  <2>4. Paid(i) = 0
    BY <1>0, <1>2, <2>1 DEF CommitVoid, MoneyInv, Checked
  <2>5. Lifecycle!Void(i)
    BY <2>2, <2>3, <2>4, PaidStays, SameStateMachine, Transitions DEF Lifecycle!Void
  <2> QED  BY <2>5 DEF Lifecycle!Next
<1>3. ASSUME NEW p \in Procs, CommitPayment(p) PROVE Lifecycle!Next
  <2>1. PICK i \in Invoices : i = req[p].invoice
    BY <1>0, <1>3, CommitShape DEF CommitPayment
  <2>2. pc[p] = "commit" /\ req[p].op = "pay" /\ req[p] \in Request
    BY <1>0, <1>3, CommitShape DEF CommitPayment
  <2>3. PICK amount \in Nat : amount = req[p].amount /\ amount # 0 /\ amount \in Amounts
    BY <2>2, RequestShape, ServiceAssumption
  <2>4. PICK e : e = [key |-> req[p].key, amount |-> req[p].amount, accounts |-> req[p].accounts]
    OBVIOUS
  <2>5. e \in Payment /\ e.amount = amount
    BY <2>2, <2>3, <2>4, RequestShape DEF Payment
  <2>6. /\ payments' = [payments EXCEPT ![i] = Append(payments[i], e)]
        /\ status' = [status EXCEPT ![i] = target[p]]
        /\ UNCHANGED due
    BY <1>3, <2>1, <2>4 DEF CommitPayment, SetStatus
  <2>7. payments \in [Invoices -> Seq(Payment)]
    BY <1>0 DEF Inv, TypeOK
  <2>8. Paid(i)' = Paid(i) + amount
    BY <1>0, <2>5, <2>6, <2>7, PaidGrows
  <2>9. \A k \in Invoices \ {i} : Paid(k)' = Paid(k)
    BY <2>6, <2>7 DEF Paid, SumOver
  <2>10. /\ Paid(i) + amount <= Total[i]
         /\ target[p] = StatusAfter(i, Paid(i) + amount)
         /\ CanTransition(status[i], target[p])
         /\ target[p] \in Status /\ status[i] \in Status
    BY <1>0, <2>1, <2>2, <2>3, CommitShape, Transitions DEF MoneyInv, Checked, Inv, Decision
  <2>11. PICK total \in Nat, before \in Nat : total = Total[i] /\ before = Paid(i)
    BY <1>0, PaidType, ServiceAssumption
  <2>12. amount \in 1 .. (total - before)
    BY <2>3, <2>10, <2>11
  <2>13. [k \in Invoices |-> Paid(k)]' =
            [[k \in Invoices |-> Paid(k)] EXCEPT ![i] = before + amount]
    BY <2>8, <2>9, <2>11
  <2>14. Lifecycle!StatusAfter(i, before + amount) = target[p]
    BY <2>10, <2>11 DEF StatusAfter, Lifecycle!StatusAfter
  <2>15. Lifecycle!CanTransition(status[i], target[p])
    BY <2>10, SameStateMachine
  <2>16. Lifecycle!Pay(i)
    BY <2>6, <2>11, <2>12, <2>13, <2>14, <2>15 DEF Lifecycle!Pay
  <2> QED  BY <2>16 DEF Lifecycle!Next
<1>4. ASSUME NEW j \in Jobs, CommitJob(j) PROVE Lifecycle!Next
  <2>1. PICK S : S = {i \in Invoices : \E c \in marked[j] : c[1] = i}
    OBVIOUS
  <2>2. /\ status' = [i \in Invoices |-> IF i \in S THEN "OVERDUE" ELSE status[i]]
        /\ UNCHANGED <<payments, due>>
    BY <1>4, <2>1 DEF CommitJob
  <2>3. ASSUME NEW i \in S PROVE i \in Invoices /\ due[i] /\ Lifecycle!CanTransition(status[i], "OVERDUE")
    <3>1. PICK c \in marked[j] : c[1] = i
      BY <2>1
    <3>2. i \in Invoices /\ due[i] /\ CanTransition(status[i], "OVERDUE") /\ status[i] \in Status
      BY <1>0, <2>1, <3>1 DEF RefinementInv, JobDue, Inv, Locking
    <3> QED  BY <3>2, SameStateMachine, Transitions
  <2>4. S \in SUBSET {i \in Invoices : due[i] /\ Lifecycle!CanTransition(status[i], "OVERDUE")}
    BY <2>3
  <2>5. Lifecycle!MarkOverdue
    BY <2>2, <2>4, PaidStays DEF Lifecycle!MarkOverdue
  <2> QED  BY <2>5 DEF Lifecycle!Next
<1>5. ASSUME NEW i \in Invoices, DueDatePasses(i) PROVE Lifecycle!Next
  <2>1. /\ ~due[i] /\ due' = [due EXCEPT ![i] = TRUE]
        /\ UNCHANGED <<status, payments>>
    BY <1>5 DEF DueDatePasses, tables
  <2>2. Lifecycle!DueDatePasses(i)
    BY <2>1, PaidStays DEF Lifecycle!DueDatePasses
  <2> QED  BY <2>2 DEF Lifecycle!Next
<1>6. CASE UNCHANGED <<status, payments, due>>
  BY <1>6, PaidStays DEF LifecycleState
<1>7. ASSUME NEW p \in Procs, HandlerStep(p),
             ~(CommitIssue(p) \/ CommitVoid(p) \/ CommitPayment(p))
      PROVE  UNCHANGED <<status, payments, due>>
  BY <1>7 DEF HandlerStep, LockInvoice, InsertPayment, ValidateIssue, ValidatePayment,
              ValidateVoid, Refuse, tables
<1>8. ASSUME NEW j \in Jobs, JobStep(j), ~CommitJob(j)
      PROVE  UNCHANGED <<status, payments, due>>
  BY <1>8 DEF JobStep, SelectCandidates, NextCandidate, UpdateCandidate, tables
<1>9. ASSUME NEW w \in Workers, Rollback(w) PROVE UNCHANGED <<status, payments, due>>
  BY <1>9 DEF Rollback, tables
<1>10. ASSUME NEW p \in Procs, NEW r \in Request, StartRequest(p, r)
       PROVE  UNCHANGED <<status, payments, due>>
  BY <1>10 DEF StartRequest, tables
<1>11. CASE UNCHANGED vars
  BY <1>6, <1>11 DEF vars, tables
<1> QED
  BY <1>1, <1>2, <1>3, <1>4, <1>5, <1>6, <1>7, <1>8, <1>9, <1>10, <1>11
     DEF Next, Crash, AbortDeadlock

\* invoice.service.js implements the atomic life cycle, for any number of
\* handlers, jobs and invoices: every interleaving of its statements, crashes
\* and deadlock aborts looks as if each operation took effect at one instant.
THEOREM ServiceImplementsLifecycle == Spec => ImplementsLifecycle
<1>1. Init => RefinementInv
  <2>1. ASSUME Init, NEW j \in Jobs PROVE JobDue(j)
    BY <2>1 DEF Init, JobDue, Workers
  <2> QED  BY <2>1, MoneyInit DEF RefinementInv
<1>2. Init => Lifecycle!Init
  <2>1. ASSUME Init, NEW i \in Invoices PROVE Paid(i) = 0
    BY <2>1, InitInv, PaidType DEF Init
  <2> QED  BY <2>1 DEF Init, Lifecycle!Init
<1>3. RefinementInv /\ [Next]_vars => [Lifecycle!Next]_Lifecycle!vars
  BY StepImplements DEF LifecycleState, Lifecycle!vars
<1> QED
  BY <1>1, <1>2, <1>3, RefinementNext, PTL DEF Spec, ImplementsLifecycle, Lifecycle!Spec
=============================================================================
