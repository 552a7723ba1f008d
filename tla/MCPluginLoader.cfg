SPECIFICATION LoaderSpec
CONSTANTS
  o1 = o1
  o2 = o2
  o3 = o3
  Packages <- MCPackages
  NoFile = NoFile
  Ops = {o1, o2, o3}
SYMMETRY Symmetry
INVARIANTS
  InstalledIsListed
  SequentialUseAgrees
  CapabilitiesFirst
