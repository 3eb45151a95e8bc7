\* Two handlers and an overdue job race on one invoice; a connection may be lost.
SPECIFICATION Spec
CONSTANTS
    ar = ar
    cash = cash
    sales = sales
    alien = alien
    None = None
    Invoices = {i1}
    Total <- Total3
    Procs = {p1, p2}
    Jobs = {j1}
    Keys = {k1, k2}
    Amounts = {1, 2}
    Accounts = {ar, cash, sales, alien}
    AccountType <- MCAccountType
    Usable = {ar, cash, sales}
    IssueAccounts <- MCIssueAccounts
    PayAccounts <- MCPayAccounts
    MaxCrashes = 1
SYMMETRY AllSymmetry
INVARIANTS
    TypeOK
    StatusMatchesPayments
    ReceivableNetsOut
    LockedRowIsCurrent
    HistoryTellsStatus
PROPERTIES
    RetryIsReplayed
