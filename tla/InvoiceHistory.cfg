\* The overdue job and a payment: is every transition written to the history?
SPECIFICATION Spec
CONSTANTS
    ar = ar
    cash = cash
    sales = sales
    alien = alien
    None = None
    Invoices = {i1}
    Total <- Total2
    Procs = {p1}
    Jobs = {j1}
    Keys = {k1}
    Amounts = {1}
    Accounts = {ar, cash, sales, alien}
    AccountType <- MCAccountType
    Usable = {ar, cash, sales}
    IssueAccounts <- PlainIssueAccounts
    PayAccounts <- PlainPayAccounts
    MaxCrashes = 0
PROPERTIES
    EveryTransitionIsWritten
