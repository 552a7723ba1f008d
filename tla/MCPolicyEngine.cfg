SPECIFICATION Spec
CONSTANTS
  Agents = {"a1"}
  Resources <- MCResources
  Targets <- MCTargets
  Capabilities <- MCCapabilities
  HasRegistry = TRUE
  Seeds <- MCSeeds
  ttl_seconds = 1
  max_entries = 2
  MaxPolicies = 2
  MaxTime = 2
INVARIANTS
  CacheTransparent
  EntriesBounded
