------------------------------ MODULE QuotaManager ------------------------------
(***************************************************************************)
(* The concurrency half of QuotaManager (api/rest/quotas.py): the ids of   *)
(* the executions each tenant has running and each tenant's limit.  Every  *)
(* method holds _lock for its whole body, so each is one step.  The rate   *)
(* half is the token bucket of module RateLimiter.                         *)
(***************************************************************************)
EXTENDS Integers, FiniteSets, Tenancy

CONSTANTS
    Executions,     \* execution ids: one fresh uuid for every call
    Quotas,         \* values TenantQuotaConfig.max_concurrent takes
    DefaultQuota    \* TenantQuotaConfig's default max_concurrent

ASSUME QuotaAssumption ==
    /\ IsFiniteSet(Executions)
    /\ Quotas \subseteq Nat
    /\ DefaultQuota \in Quotas

VARIABLES
    concurrent,     \* _concurrent: ids of the executions of each tenant
    configs         \* _configs: max_concurrent of each tenant

quota == <<concurrent, configs>>

QuotaTypeOK ==
    /\ concurrent \in [Tenants -> SUBSET Executions]
    /\ configs \in [Tenants -> Quotas]

QuotaInit ==
    /\ concurrent = [t \in Tenants |-> {}]
    /\ configs = [t \in Tenants |-> DefaultQuota]

configure(t, max) ==
    /\ configs' = [configs EXCEPT ![t] = max]
    /\ UNCHANGED concurrent

(* Mutant: the limit itself still lets one more in.                        *)
check_concurrent_inclusive(t) == Cardinality(concurrent[t]) <= configs[t]

check_concurrent(t) == Cardinality(concurrent[t]) < configs[t]

quota_start(t, e) == [concurrent EXCEPT ![t] = @ \cup {e}]

quota_end(t, e) == [concurrent EXCEPT ![t] = @ \ {e}]

================================================================================
