SPECIFICATION FairSpec
CONSTANTS
    Records = {r1, r2, r3}
    Concurrency = 2
    AgentMode = TRUE
    Deletable = {r1}
    MaxCancels = 2
    MaxRestarts = 1
    MaxFaults = 2
INVARIANTS NoOrphanRecord BooksAgree
PROPERTIES BatchCloses ResultsStand
CHECK_DEADLOCK FALSE
