SPECIFICATION Spec
CONSTANTS
  p1 = p1
  x1 = x1
  x2 = x2
  c1 = c1
  c2 = c2
  c3 = c3
  c4 = c4
  None = None
  Procs = {p1}
  Execs = {x1, x2}
  Ids = {c1, c2, c3, c4}
  MaxCrashes = 2
  MaxErrors = 2
SYMMETRY Symmetry
INVARIANTS
  SavedIsListed
  LatestIsNewest
  IndexNamesFiles
PROPERTIES
  ImplementsRepository
