\* A worker that dies as often as its job may stall, and once more.
SPECIFICATION Spec
CONSTANTS
    None = None
    Docs = {d1}
    Files = {f1}
    Handlers = {h1}
    Workers = {w1}
    Attempts = 2
    MaxStalled = 1
    MaxRetries = 1
    FaultKinds = {"crash"}
    MaxFaults = 2
INVARIANTS
    StuckIsMarkedFailed
\* Every id may have been used and its document deleted.
CHECK_DEADLOCK FALSE
