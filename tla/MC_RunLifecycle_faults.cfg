SPECIFICATION Spec
CONSTANTS
  r1 = r1
  s1 = s1
  NoRun = NoRun
  Runs = {r1}
  Suppliers = {s1}
  SupplierOf <- OnlyRun
  Requests = {q1, q2}
  Modes = {"auto", "confirm", "off"}
  StubErp = FALSE
  DbFaults = TRUE
  Deletable = {r1}
  MaxCancels = 2
  MaxRestarts = 1
  MaxRows = 3
SYMMETRY Symmetry
INVARIANTS StateAgreesWithDossier OneErpAction ErpCallsAreDue
PROPERTIES GateHolds
CHECK_DEADLOCK FALSE
