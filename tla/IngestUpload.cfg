\* An upload of a file that is being deleted.
SPECIFICATION Spec
CONSTANTS
    None = None
    Docs = {d1, d2}
    Files = {f1}
    Handlers = {h1, h2}
    Workers = {w1}
    Attempts = 2
    MaxStalled = 1
    MaxRetries = 0
    FaultKinds = {}
    MaxFaults = 0
INVARIANTS
    UploadsAreAnswered
\* Every id may have been used and its document deleted.
CHECK_DEADLOCK FALSE
