\* A retry whose job is never queued.
SPECIFICATION Spec
CONSTANTS
    None = None
    Docs = {d1}
    Files = {f1}
    Handlers = {h1}
    Workers = {w1}
    Attempts = 2
    MaxStalled = 1
    MaxRetries = 1
    FaultKinds = {"enqueue"}
    MaxFaults = 1
INVARIANTS
    RetriedHasJob
\* Every id may have been used and its document deleted.
CHECK_DEADLOCK FALSE
