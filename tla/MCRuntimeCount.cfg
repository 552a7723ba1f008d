\* The isolation count against the executions in flight.
SPECIFICATION Spec
CONSTANTS
    t1 = t1
    t2 = t2
    a1 = a1
    e1 = e1
    e2 = e2
    Tenants = {t1}
    Agents = {a1}
    Limits = {2}
    Executions = {e1, e2}
    Quotas = {2}
    DefaultQuota = 2
    HasIsolation = TRUE
    HasQuota = TRUE
    Cancellable = {}
    NoContext = NoContext
    Unregistered = Unregistered
    NotSaved = NotSaved
    NoTenant = NoTenant
INVARIANTS
    CountIsActive
