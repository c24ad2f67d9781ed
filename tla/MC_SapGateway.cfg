SPECIFICATION FairSpec
CONSTANTS
    c1 = c1
    c2 = c2
    Callers = {c1, c2}
    Nobody = Nobody
    Vendors = {"SUP-001"}
    Configs <- MCConfigs
    MaxAttempts = 2
    MaxIssued = 3
INVARIANTS RevocationIsSurvived ViewsAgree
PROPERTIES CallsEnd
CHECK_DEADLOCK FALSE
