\* One question while one document is ingested.
SPECIFICATION AskSpec
CONSTANTS
    Docs = {d1}
    Askers = {a1}
    MaxK = 1
    Budget = 1
PROPERTIES
    NoDocumentsMeansNone
CHECK_DEADLOCK FALSE
