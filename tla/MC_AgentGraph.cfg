SPECIFICATION Spec
CONSTANTS
    own = own
    other = other
    unknown = unknown
    Nothing = Nothing
    Config <- MCConfig
    Owner <- MCOwner
    Plot = own
    Declared <- MCDeclared
    Readings <- MCReadings
    Calls <- MCCalls
    Reviews <- MCReviews
    Slots = {c1, c2}
    MaxFaults = 1
SYMMETRY SlotSymmetry
INVARIANTS OneSnapshot InvestigatedBeforeWrite GateStands OutcomeAgrees ReleasedIsSpotless SignalsCoverDeepDives
CHECK_DEADLOCK FALSE
