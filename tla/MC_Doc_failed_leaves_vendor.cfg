SPECIFICATION Spec
CONSTANTS
    c1 = c1
    c2 = c2
    Callers = {c1, c2}
    Nobody = Nobody
    Vendors = {"SUP-001"}
    Configs <- DocConfigs
    MaxAttempts = 2
    MaxIssued = 3
INVARIANTS FailedLeavesVendor
CHECK_DEADLOCK FALSE
