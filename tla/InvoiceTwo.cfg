\* Two handlers with one idempotency key on two invoices that are past due, and
\* two overdue jobs that deadlock on them.
SPECIFICATION PastDueFairSpec
CONSTANTS
    ar = ar
    cash = cash
    sales = sales
    alien = alien
    None = None
    Invoices = {i1, i2}
    Total <- Total1
    Procs = {p1, p2}
    Jobs = {j1, j2}
    Keys = {k1}
    Amounts = {1}
    Accounts = {ar, cash, sales, alien}
    AccountType <- MCAccountType
    Usable = {ar, cash, sales}
    IssueAccounts = {}
    PayAccounts <- PlainPayAccounts
    MaxCrashes = 0
INVARIANTS
    OnePaymentPerKey
PROPERTIES
    ImplementsLifecycle
    RequestsEnd
