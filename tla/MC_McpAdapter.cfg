SPECIFICATION FairSpec
CONSTANTS
    m1 = m1
    Runs = {1}
    MaxClock = 2
    Calls = {m1}
    McpWait = 1
    Waits = {0, 2}
INVARIANTS ShownIsDone ToldIsTrue
PROPERTIES CallsEnd
CHECK_DEADLOCK FALSE
