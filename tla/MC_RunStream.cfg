SPECIFICATION FairSpec
CONSTANTS
    Clients = {c1}
    MaxSteps = 1
    MaxConnects = 2
    MaxCancels = 1
    MaxRestarts = 1
    MaxConfirms = 1
    MaxFaults = 1
INVARIANTS TraceInOrder EndedSawAll
PROPERTIES StreamsEnd
CHECK_DEADLOCK FALSE
