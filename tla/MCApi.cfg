\* Memory and Redis Streams; one intent and two sockets, two keys.
SPECIFICATION Spec
CONSTANTS
  x1 = x1
  t1 = t1
  t2 = t2
  w1 = w1
  w2 = w2
  k1 = k1
  k2 = k2
  NoTenant = NoTenant
  End = End
  NoKey = NoKey
  NoContext = NoContext
  Backends = {"memory", "streams"}
  Execs = {x1}
  Events <- MCEvents
  Queues = {w1, w2}
  Tenants = {t1, t2}
  Keys = {k1, k2}
  KeyContexts = {t1, NoTenant}
  FirstKeys <- MCFirstKeys
  MayClose = {x1}
  MaxLen = 10
INVARIANTS
  NothingAfterEnd
  SeenIsVisible
  RunIsRecorded
PROPERTIES
  ShutdownEndsStreams
