SPECIFICATION Spec
CONSTANTS
  r1 = r1
  s1 = s1
  NoRun = NoRun
  Runs = {r1}
  Suppliers = {s1}
  SupplierOf <- OnlyRun
  Requests = {q1}
  Modes = {"auto", "confirm", "off"}
  StubErp = TRUE
  DbFaults = FALSE
  Deletable = {r1}
  MaxCancels = 1
  MaxRestarts = 0
  MaxRows = 3
PROPERTIES CompleteIsFinal
CHECK_DEADLOCK FALSE
