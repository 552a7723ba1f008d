\* Two tenants, an agent that moves between them, two calls, one of which may
\* be cancelled, both limits in force, under fairness.
SPECIFICATION FairSpec
CONSTANTS
    t1 = t1
    t2 = t2
    a1 = a1
    e1 = e1
    e2 = e2
    Tenants = {t1, t2}
    Agents = {a1}
    Limits = {1, 2}
    Executions = {e1, e2}
    Quotas = {1, 2}
    DefaultQuota = 2
    HasIsolation = TRUE
    HasQuota = TRUE
    Cancellable = {e2}
    NoContext = NoContext
    Unregistered = Unregistered
    NotSaved = NotSaved
    NoTenant = NoTenant
INVARIANTS
    TypeOK
    QuotaSlotsAreInFlight
    CountCoversInFlight
    GovernanceChain
    NoInvalidTransition
    MetricsBalance
PROPERTIES
    StartsWithinLimits
    CheckpointForSlotHolder
    ShutdownDrains
    Lifecycle
