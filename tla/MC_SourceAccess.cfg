SPECIFICATION FairSpec
CONSTANTS
    c1 = c1
    c2 = c2
    Callers = {c1, c2}
    Configs <- MCConfigs
    Layers <- MCLayers
    Paged <- MCPaged
    IndonesiaOnly <- MCIndonesiaOnly
    MaxAttempts = 2
    PageSize = 2
    RowLimit = 4
    DayRange = 2
    Window = 3
    FirstYear = 2021
    CoverageEnd = 2025
    MaxWait = 1
    MaxClock = 1
    MaxRestarts = 1
INVARIANTS WholeOrNothing CompleteMeansCovered ServedWithinTtl WarmRerunIsSilent
PROPERTIES AcquisitionsEnd
CHECK_DEADLOCK FALSE
