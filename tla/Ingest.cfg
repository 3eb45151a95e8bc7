\* Two handlers and two workers on one document, retried once; two faults.
SPECIFICATION FairSpec
CONSTANTS
    None = None
    Docs = {d1}
    Files = {f1}
    Handlers = {h1, h2}
    Workers = {w1, w2}
    Attempts = 2
    MaxStalled = 1
    MaxRetries = 1
    FaultKinds = {"enqueue", "delete", "statement", "mark", "crash", "late"}
    MaxFaults = 2
INVARIANTS
    TypeOK
    ChunksIffReady
    WorkIsQueued
PROPERTIES
    ImplementsLifecycle
    DocumentsSettle
\* Every id may have been used and its document deleted.
CHECK_DEADLOCK FALSE
