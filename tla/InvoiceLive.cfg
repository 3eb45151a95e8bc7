\* One handler and one overdue job on two invoices; a connection may be lost.
SPECIFICATION FairSpec
CONSTANTS
    ar = ar
    cash = cash
    sales = sales
    alien = alien
    None = None
    Invoices = {i1, i2}
    Total <- Total2
    Procs = {p1}
    Jobs = {j1}
    Keys = {k1}
    Amounts = {1, 2}
    Accounts = {ar, cash, sales, alien}
    AccountType <- MCAccountType
    Usable = {ar, cash, sales}
    IssueAccounts <- PlainIssueAccounts
    PayAccounts <- PlainPayAccounts
    MaxCrashes = 1
PROPERTIES
    PastDueIsMarked
