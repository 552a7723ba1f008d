\* A stream that is closed and trimmed and one whose XADD drops old entries; a
\* crash and a lost reply.
SPECIFICATION StreamsSpec
CONSTANTS
  x1 = x1
  x2 = x2
  t1 = t1
  t2 = t2
  NoTenant = NoTenant
  End = End
  Backends = {"streams"}
  Execs = {x1, x2}
  Events <- MCEvents
  Queues = {}
  Tenants = {t1}
  MayClose = {x1}
  MaxCrashes = 1
  MaxLostReplies = 1
  MayTrim = {x1}
  MaxLen = 1
  ReadCount = 1
  ReplayCount = 2
INVARIANTS
  ReplayIsGapless
PROPERTIES
  DeliveredUnlessDisturbed
