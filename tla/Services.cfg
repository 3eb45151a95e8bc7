\* Members: two callers.  Limits: a limit of one and three windows.  Ask: two
\* questions over two documents with a budget of one call.  Shutdown: two
\* connections.  Text: six lines on up to three pages.
SPECIFICATION ServicesSpec
CONSTANTS
    Callers = {c1, c2}
    Emails = {"A@x", "a@x", "b@x"}
    LowerCase <- MCLowerCase
    MaxAborts = 1
    Visitors = {v1, v2}
    Window = 2
    Limit_ = 1
    Horizon = 5
    MaxVisits = 4
    Docs = {d1, d2}
    Askers = {a1, a2}
    MaxK = 2
    Budget = 1
    Connections = {h1, h2}
    Shapes <- MCShapes
    MaxLines = 6
    MaxPages = 3
    EdgeLines = 1
    MinChars = 2
    PrefixTokens = 1
    Target = 5
    Cap = 7
    Overlap = 2
INVARIANTS
    OneUserPerEmail
    NothingIsOrphaned
    UsersCanLogIn
    DailyBudgetHolds
    BurstIsAtMostTwice
    CitesWhatWasSent
    CallsAreBudgeted
    AbstainingIsFree
    NobodyWaitingIsCutOff
    ChunksFit
    NothingIsLost
PROPERTIES
    ShutdownEnds
CHECK_DEADLOCK FALSE
