\* Totals 1 and 3 in amounts of 1 to 3; two creations at once, one rolled
\* back; pages of one row.  Pagination: three ids at four timestamps in two milliseconds.
\* Ledger: two posters, one key of clients besides the key of the issue.
SPECIFICATION MCSpec
CONSTANTS
    i1 = i1
    i2 = i2
    Invoices = {i1, i2}
    Total <- MCTotal
    NoInvoice = NoInvoice
    Creators = {c1, c2}
    Filters <- MCFilters
    PageSize = 1
    MaxRollbacks = 1
    Ids = {1, 2, 3}
    Times = {2, 3, 4, 5}
    MS = 2
    Limit = 1
    MaxInserts = 4
    Posters = {p1, p2}
    ClientKeys = {k1}
    IssueKey = IssueKey
    Bodies <- MCBodies
    IssueBody <- MCIssueBody
    Chart <- MCChart
    MaxLost = 1
    NoEntry = NoEntry
INVARIANTS
    TypeOK
    StatusMatchesPaid
    GaplessNumbers
    ShownIsConsistent
    ListIsComplete
    WalkIsComplete
    WalkShowsOnce
    KeyPostsOnce
    AnswerIsPosted
    IssueIsPostedOnce
    TrialBalance
PROPERTIES
    ListEnds
    PostingsEnd
CHECK_DEADLOCK FALSE
