--------------------------- MODULE MCInvoiceBook ---------------------------
(***************************************************************************)
(* Two invoices that are created, live and are read; the pagination of     *)
(* documents and entries; and the ledger.  They share no state in the      *)
(* model: a behaviour is one of the book, of the pages or of the ledger,   *)
(* so their state spaces add up.                                           *)
(***************************************************************************)
EXTENDS InvoiceBook, Pagination, Ledger

CONSTANTS i1, i2

MCTotal == [i \in Invoices |-> IF i = i1 THEN 1 ELSE 3]

MCFilters == {Status, {"ISSUED", "PARTIALLY_PAID", "OVERDUE"}}

(* Ledger: two accounts in one currency and a third in another *)

MCAccount(name, type, currency) == [name |-> name, type |-> type, currency |-> currency]
MCCash == MCAccount("cash", "ASSET", "EUR")
MCSales == MCAccount("sales", "REVENUE", "EUR")
MCLoan == MCAccount("loan", "LIABILITY", "USD")
MCChart == {MCCash, MCSales, MCLoan}

MCLine(a, amount) == [account |-> a, amount |-> amount]
MCEntry(debit, credit, amount, at) ==
    [lines |-> <<MCLine(debit, amount), MCLine(credit, -amount)>>, at |-> at]

MCIssueBody == MCEntry(MCCash, MCSales, 2, 3)
MCBodies ==
    {MCEntry(MCCash, MCSales, 2, 1), MCEntry(MCSales, MCCash, 1, 2), MCEntry(MCCash, MCLoan, 1, 1),
     [lines |-> <<MCLine(MCCash, 2), MCLine(MCSales, -1)>>, at |-> 1], MCIssueBody}

VARIABLE focus   \* "book", "pages" or "ledger"

MCInit ==
    /\ focus \in {"book", "pages", "ledger"}
    /\ BookInit /\ PageInit /\ LedgerInit
    /\ focus # "pages" => list = "documents"

MCNext ==
    /\ UNCHANGED focus
    /\ \/ focus = "book" /\ BookNext /\ UNCHANGED <<pageVars, ledgerVars>>
       \/ focus = "pages" /\ PageNext /\ UNCHANGED <<bookVars, ledgerVars>>
       \/ focus = "ledger" /\ LedgerNext /\ UNCHANGED <<bookVars, pageVars>>

MCSpec ==
    /\ MCInit
    /\ [][MCNext]_<<focus, bookVars, pageVars, ledgerVars>>
    /\ BookFairness /\ LedgerFairness
=============================================================================
