SPECIFICATION ReplaySpec
CONSTANTS
  r1 = r1
  r2 = r2
  s1 = s1
  NoRun = NoRun
  Runs = {r1, r2}
  Suppliers = {s1}
  SupplierOf <- OneSupplier
  Requests = {q1, q2}
  Modes = {"auto", "confirm"}
  StubErp = TRUE
  DbFaults = FALSE
  Deletable = {}
  MaxCancels = 0
  MaxRestarts = 1
  MaxRows = 3
INVARIANTS FlipsSurvive
CHECK_DEADLOCK FALSE
