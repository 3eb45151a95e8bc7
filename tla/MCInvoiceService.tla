-------------------------- MODULE MCInvoiceService --------------------------
(* InvoiceService on small instances. *)
EXTENDS InvoiceService, TLC

CONSTANTS ar, cash, sales, alien

Total3 == [i \in Invoices |-> 3]

Total2 == [i \in Invoices |-> 2]

Total1 == [i \in Invoices |-> 1]

MCAccountType ==
    [a \in Accounts |-> IF a = sales THEN "REVENUE" ELSE "ASSET"]

\* Issuing to a revenue account or to another tenant's account is refused.
MCIssueAccounts == {<<ar, sales>>, <<sales, ar>>, <<alien, sales>>}

PlainIssueAccounts == {<<ar, sales>>}

\* The second pair credits an account other than the receivable, which only
\* an invoice without one accepts; the third is refused.
MCPayAccounts == {<<cash, ar>>, <<ar, cash>>, <<alien, ar>>}

PlainPayAccounts == {<<cash, ar>>}

\* The second pair debits the very account it credits.
SamePayAccounts == {<<cash, ar>>, <<ar, ar>>}

\* Invoices that have been issued and are past due.
AllPastDue == Init /\ \A i \in Invoices : status[i] = "ISSUED" /\ due[i]

PastDueFairSpec == AllPastDue /\ [][Next]_vars /\ Fairness

AllSymmetry == Permutations(Procs) \cup Permutations(Keys)
=============================================================================
