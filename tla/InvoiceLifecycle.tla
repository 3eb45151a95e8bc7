-------------------------- MODULE InvoiceLifecycle --------------------------
(***************************************************************************)
(* What the invoice component promises, without transactions: each invoice *)
(* has a status and an amount paid, and every operation takes effect at    *)
(* one instant.  InvoiceService is shown to implement this specification.  *)
(***************************************************************************)
EXTENDS Naturals, InvoiceState

CONSTANTS
    Invoices,   \* the invoices of the system
    Total       \* Total[i]: total_amount_minor of i, fixed when i is created

\* An invoice has at least one item, of quantity > 0 and unit price > 0
\* (invoice.service.js:12, the CHECKs of schema.js:110-111).
ASSUME TotalAssumption == Total \in [Invoices -> Nat \ {0}]

VARIABLES
    status,     \* invoices.status
    paid,       \* the sum of the invoice's payments
    due         \* TRUE once invoices.due_date has passed

vars == <<status, paid, due>>

Init ==
    /\ status \in [Invoices -> {"DRAFT", "ISSUED"}]
    /\ paid = [i \in Invoices |-> 0]
    /\ due \in [Invoices -> BOOLEAN]

Issue(i) ==
    /\ CanTransition(status[i], "ISSUED")
    /\ status' = [status EXCEPT ![i] = "ISSUED"]
    /\ UNCHANGED <<paid, due>>

\* Mutation: an invoice settled to the last unit but one counts as paid.
StatusAfter_OffByOne(i, sum) == IF sum + 1 >= Total[i] THEN "PAID" ELSE "PARTIALLY_PAID"

\* Statuses a payment leads to: PAID exactly when nothing remains.
StatusAfter(i, sum) == IF sum = Total[i] THEN "PAID" ELSE "PARTIALLY_PAID"

Pay(i) ==
    \E amount \in 1 .. (Total[i] - paid[i]) :
        LET target == StatusAfter(i, paid[i] + amount) IN
        /\ CanTransition(status[i], target)
        /\ paid' = [paid EXCEPT ![i] = @ + amount]
        /\ status' = [status EXCEPT ![i] = target]
        /\ UNCHANGED due

\* Mutation: a status that the CHECK constraint of the table does not know.
Void_Misspelt(i) ==
    /\ CanTransition(status[i], "VOID")
    /\ paid[i] = 0
    /\ status' = [status EXCEPT ![i] = "VOIDED"]
    /\ UNCHANGED <<paid, due>>

Void(i) ==
    /\ CanTransition(status[i], "VOID")
    /\ paid[i] = 0
    /\ status' = [status EXCEPT ![i] = "VOID"]
    /\ UNCHANGED <<paid, due>>

\* One run of the overdue job marks any set of past-due open invoices at once.
MarkOverdue ==
    \E marked \in SUBSET {i \in Invoices : due[i] /\ CanTransition(status[i], "OVERDUE")} :
        /\ status' = [i \in Invoices |-> IF i \in marked THEN "OVERDUE" ELSE status[i]]
        /\ UNCHANGED <<paid, due>>

DueDatePasses(i) ==
    /\ ~due[i]
    /\ due' = [due EXCEPT ![i] = TRUE]
    /\ UNCHANGED <<status, paid>>

Next ==
    \/ \E i \in Invoices : Issue(i) \/ Pay(i) \/ Void(i) \/ DueDatePasses(i)
    \/ MarkOverdue

Spec == Init /\ [][Next]_vars

-----------------------------------------------------------------------------
TypeOK ==
    /\ status \in [Invoices -> Status]
    /\ paid \in [Invoices -> Nat]
    /\ due \in [Invoices -> BOOLEAN]

\* The status column and the payments tell one story: nothing is paid on a
\* draft, an unpaid or a voided invoice, an open invoice still has something
\* outstanding, and an invoice is PAID exactly when it is paid in full.
StatusMatchesPaid ==
    \A i \in Invoices :
        /\ paid[i] <= Total[i]
        /\ status[i] \in {"DRAFT", "ISSUED", "VOID"} => paid[i] = 0
        /\ status[i] = "PARTIALLY_PAID" => paid[i] > 0
        /\ status[i] = "PAID" <=> paid[i] = Total[i]

\* PAID and VOID are final, and every other change of status is one the
\* state machine allows.
LegalTransitions ==
    [][\A i \in Invoices :
           status'[i] # status[i] => CanTransition(status[i], status'[i])]_status

\* Money is never taken back, and a voided invoice never receives any.
PaymentsOnlyGrow ==
    [][\A i \in Invoices :
           /\ paid'[i] >= paid[i]
           /\ status[i] \in {"DRAFT", "PAID", "VOID"} => paid'[i] = paid[i]]_vars
=============================================================================
