SPECIFICATION ReplayFairSpec
CONSTANTS
  r1 = r1
  r2 = r2
  s1 = s1
  NoRun = NoRun
  Runs = {r1, r2}
  Suppliers = {s1}
  SupplierOf <- OneSupplier
  Requests = {q1, q2}
  Modes = {"auto", "confirm"}
  StubErp = TRUE
  DbFaults = FALSE
  Deletable = {r1}
  MaxCancels = 1
  MaxRestarts = 1
  MaxRows = 3
INVARIANTS ReplayKeepsVendors
PROPERTIES LocksAreFreed OpenRunsClose
CHECK_DEADLOCK FALSE
