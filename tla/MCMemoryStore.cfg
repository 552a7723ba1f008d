SPECIFICATION Spec
CONSTANTS
  i1 = i1
  i2 = i2
  a1 = a1
  a2 = a2
  None = None
  Ids = {i1, i2}
  Agents = {a1, a2}
  Kinds = {"fact", "summary"}
  MaxTime = 1
SYMMETRY Symmetry
INVARIANTS
  ListIsComplete
  ListAgreesWithSearch
