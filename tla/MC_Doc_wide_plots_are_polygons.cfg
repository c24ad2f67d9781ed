CONSTANTS
  Clients = {c1, c2}
  Submissions <- MCSubmissions
  Files <- MCFiles
  Facts <- MCFacts
  Profiles = {1}
  MaxRecords = 3
  MaxRuns = 2
  MaxCrashes = 1
SYMMETRY Symmetry
INIT Init
NEXT Next
INVARIANTS WidePlotsArePolygons
