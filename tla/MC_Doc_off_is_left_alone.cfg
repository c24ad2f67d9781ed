SPECIFICATION Spec
CONSTANTS
    m1 = m1
    Runs = {1}
    MaxClock = 0
    Calls = {m1}
    McpWait = 0
    Waits = {}
INVARIANTS AgentsLeaveOffRunsAlone
CHECK_DEADLOCK FALSE
