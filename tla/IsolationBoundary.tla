--------------------------- MODULE IsolationBoundary ---------------------------
(***************************************************************************)
(* kernel/isolation.py: the tenants and agents the runtime knows and the   *)
(* number of executions charged to each tenant.  Every operation of the    *)
(* class is synchronous, so each is one step.                              *)
(***************************************************************************)
EXTENDS Integers, Tenancy

CONSTANTS
    Limits,         \* values ResourceLimits.max_concurrent_executions takes
    Unregistered    \* what _tenants.get / _agents.get give for an unknown id

ASSUME IsolationAssumption ==
    /\ Limits \subseteq Nat
    /\ Unregistered \notin Tenants
    /\ Unregistered \notin Limits

VARIABLES
    tenants,            \* _tenants: each tenant's max_concurrent_executions
    agents,             \* _agents: the tenant each agent is registered with
    execution_counts    \* _execution_counts

isolation == <<tenants, agents, execution_counts>>

IsolationTypeOK ==
    /\ tenants \in [Tenants -> Limits \cup {Unregistered}]
    /\ agents \in [Agents -> Tenants \cup {Unregistered}]
    /\ execution_counts \in [Tenants -> Nat]

IsolationInit ==
    /\ tenants = [t \in Tenants |-> Unregistered]
    /\ agents = [a \in Agents |-> Unregistered]
    /\ execution_counts = [t \in Tenants |-> 0]

(* Registering a known tenant replaces its limits, active count and all    *)
(* agents kept.                                                            *)
register_tenant(t, max) ==
    /\ tenants' = [tenants EXCEPT ![t] = max]
    /\ UNCHANGED <<agents, execution_counts>>

(* Registering a known agent moves it to the new tenant.                   *)
register_agent(a, t) ==
    /\ tenants[t] # Unregistered
    /\ agents' = [agents EXCEPT ![a] = t]
    /\ UNCHANGED <<tenants, execution_counts>>

validate_agent_scope(a, t) == agents[a] = t

validate_tenant_context(context) ==
    /\ tenants[context.tenant_id] # Unregistered
    /\ validate_agent_scope(context.agent_id, context.tenant_id)

(* check_resource_limits passes (it raises otherwise).                     *)
WithinLimits(t) ==
    /\ tenants[t] # Unregistered
    /\ execution_counts[t] < tenants[t]

isolation_start(t) == [execution_counts EXCEPT ![t] = @ + 1]

(* Mutant: the charge is taken back twice and the floor is missing.        *)
isolation_end_twice(t) == [execution_counts EXCEPT ![t] = @ - 2]

isolation_end(t) ==
    [execution_counts EXCEPT ![t] = IF @ - 1 > 0 THEN @ - 1 ELSE 0]

================================================================================
