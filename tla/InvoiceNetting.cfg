\* A payment whose bank account is the receivable itself.
SPECIFICATION Spec
CONSTANTS
    ar = ar
    cash = cash
    sales = sales
    alien = alien
    None = None
    Invoices = {i1}
    Total <- Total1
    Procs = {p1}
    Jobs = {j1}
    Keys = {k1}
    Amounts = {1}
    Accounts = {ar, cash, sales, alien}
    AccountType <- MCAccountType
    Usable = {ar, cash, sales}
    IssueAccounts <- PlainIssueAccounts
    PayAccounts <- SamePayAccounts
    MaxCrashes = 0
INVARIANTS
    FullyPaidNetsToZero
