-------------------------------- MODULE Runtime --------------------------------
(***************************************************************************)
(* KitematicRuntime (kernel/runtime.py) composed with the isolation        *)
(* boundary and the quota manager it calls.  Everything runs on one        *)
(* asyncio event loop: code between two awaits is atomic, and any other    *)
(* call may run while an execution is suspended at one.  pc[e] is the      *)
(* await the call of execute_intent with id e is suspended at.  The policy *)
(* engine, router, gateway and checkpoint store are the callers' objects   *)
(* behind the ABI protocols: they may answer in any order with any answer. *)
(* Whether the token bucket grants the call is left open (RateLimiter).    *)
(***************************************************************************)
EXTENDS ExecutionStates, IsolationBoundary, QuotaManager

CONSTANTS
    HasIsolation,   \* the runtime was given an IsolationBoundary
    HasQuota,       \* the runtime was given a QuotaManager
    Cancellable,    \* the calls whose caller may cancel their task
    NotSaved,       \* the store holds no checkpoint
    NoTenant        \* a checkpoint without a tenant_id entry

ASSUME RuntimeAssumption ==
    /\ HasIsolation \in BOOLEAN
    /\ HasQuota \in BOOLEAN
    /\ Cancellable \subseteq Executions
    /\ NotSaved \notin Tenants \cup {NoTenant}
    /\ NoTenant \notin Tenants

VARIABLES
    runtime_state,  \* _state
    tenant_context, \* _tenant_context, shared by all calls
    pc,             \* where each call of execute_intent is
    state,          \* its local variable state
    tenant_ctx,     \* its local variable tenant_ctx
    approvals,      \* history: which checks have let it pass
    tool_calls,     \* history: the calls that reached the gateway
    checkpoints,    \* the store: tenant_id of the checkpoint of each call
    metrics         \* runtime.executions.{total, completed, failed, rejected}

calls == <<pc, state, tenant_ctx, approvals, tool_calls, checkpoints, metrics>>
vars == <<runtime_state, tenant_context, calls, isolation, quota>>

Awaiting == {"policy", "capability", "router", "gateway", "save"}
Ended == {"returned", "raised", "cancelled"}
Checks == {"policy", "capability"}
Counters == {"total", "completed", "failed", "rejected"}

TypeOK ==
    /\ IsolationTypeOK
    /\ QuotaTypeOK
    /\ runtime_state \in RuntimeState
    /\ tenant_context \in Contexts \cup {NoContext}
    /\ pc \in [Executions -> {"idle"} \cup Awaiting \cup Ended]
    /\ state \in [Executions -> ExecutionState]
    /\ tenant_ctx \in [Executions -> Contexts \cup {NoContext}]
    /\ approvals \in [Executions -> SUBSET Checks]
    /\ tool_calls \subseteq Executions
    /\ checkpoints \in [Executions -> Tenants \cup {NoTenant, NotSaved}]
    /\ metrics \in [Counters -> Nat]

Init ==
    /\ IsolationInit
    /\ QuotaInit
    /\ runtime_state = "RUNNING"
    /\ tenant_context = NoContext
    /\ pc = [e \in Executions |-> "idle"]
    /\ state = [e \in Executions |-> "CREATED"]
    /\ tenant_ctx = [e \in Executions |-> NoContext]
    /\ approvals = [e \in Executions |-> {}]
    /\ tool_calls = {}
    /\ checkpoints = [e \in Executions |-> NotSaved]
    /\ metrics = [c \in Counters |-> 0]

--------------------------------------------------------------------------------
(* Administration: synchronous calls of the runtime and its components.    *)

RegisterTenant(t, max) ==
    /\ HasIsolation
    /\ register_tenant(t, max)
    /\ UNCHANGED <<runtime_state, tenant_context, calls, quota>>

RegisterAgent(a, t) ==
    /\ HasIsolation
    /\ register_agent(a, t)
    /\ UNCHANGED <<runtime_state, tenant_context, calls, quota>>

Configure(t, max) ==
    /\ HasQuota
    /\ configure(t, max)
    /\ UNCHANGED <<runtime_state, tenant_context, calls, isolation>>

set_tenant_context(context) ==
    /\ HasIsolation => validate_tenant_context(context)
    /\ tenant_context' = context
    /\ UNCHANGED <<runtime_state, calls, isolation, quota>>

drain ==
    /\ runtime_state = "RUNNING"
    /\ runtime_state' = "DRAINING"
    /\ UNCHANGED <<tenant_context, calls, isolation, quota>>

(* Neither releases anything nor touches the executions in flight.         *)
stop ==
    /\ runtime_state # "STOPPED"
    /\ runtime_state' = "STOPPED"
    /\ UNCHANGED <<tenant_context, calls, isolation, quota>>

--------------------------------------------------------------------------------
(* execute_intent up to its first await.  The shared context is read once; *)
(* the isolation count is taken first, the quota slot second, and the      *)
(* shutdown check comes last.                                              *)

HasContext == tenant_context # NoContext
Charging == HasIsolation /\ HasContext
Quotaed == HasQuota /\ HasContext
tenant == tenant_context.tenant_id

Bump(counters) == [c \in Counters |-> IF c \in counters THEN metrics[c] + 1 ELSE metrics[c]]

(* The call is over with the execution still CREATED.                      *)
Refuse(e, outcome, counters) ==
    /\ pc' = [pc EXCEPT ![e] = outcome]
    /\ tenant_ctx' = [tenant_ctx EXCEPT ![e] = tenant_context]
    /\ metrics' = Bump(counters)
    /\ UNCHANGED <<runtime_state, tenant_context, state, approvals, tool_calls,
                   checkpoints, tenants, agents, quota>>

DenyWithoutContext(e) ==
    /\ pc[e] = "idle"
    /\ HasIsolation /\ ~HasContext
    /\ Refuse(e, "returned", {})
    /\ UNCHANGED execution_counts

(* ResourceLimitExceededError (or TenantNotFoundError) leaves the call.    *)
RaiseLimitExceeded(e) ==
    /\ pc[e] = "idle"
    /\ Charging /\ ~WithinLimits(tenant)
    /\ Refuse(e, "raised", {})
    /\ UNCHANGED execution_counts

(* The isolation charge: check_resource_limits, then start_execution.      *)
Charge ==
    IF Charging THEN /\ WithinLimits(tenant)
                     /\ execution_counts' = isolation_start(tenant)
                ELSE /\ ~HasIsolation
                     /\ UNCHANGED execution_counts

DenyConcurrent(e) ==
    /\ pc[e] = "idle"
    /\ Charge
    /\ Quotaed /\ ~check_concurrent(tenant)
    /\ Refuse(e, "returned", {})

DenyRate(e) ==
    /\ pc[e] = "idle"
    /\ Charge
    /\ Quotaed /\ check_concurrent(tenant)
    /\ Refuse(e, "returned", {})

(* The quota slot was taken and is given back; the isolation charge stays. *)
DenyShutdown(e) ==
    /\ pc[e] = "idle"
    /\ Charge
    /\ Quotaed => check_concurrent(tenant)
    /\ runtime_state \in {"DRAINING", "STOPPED"}
    /\ Refuse(e, "returned", {"rejected"})

(* Mutant: the check of the runtime's own state is missing.                *)
ExecuteWhileStopping(e) ==
    /\ pc[e] = "idle"
    /\ Charge
    /\ Quotaed => check_concurrent(tenant)
    /\ concurrent' = IF Quotaed THEN quota_start(tenant, e) ELSE concurrent
    /\ tenant_ctx' = [tenant_ctx EXCEPT ![e] = tenant_context]
    /\ state' = [state EXCEPT ![e] = "VALIDATING"]
    /\ pc' = [pc EXCEPT ![e] = "policy"]
    /\ metrics' = Bump({"total"})
    /\ UNCHANGED <<runtime_state, tenant_context, approvals, tool_calls,
                   checkpoints, tenants, agents, configs>>

ExecuteIntent(e) ==
    /\ pc[e] = "idle"
    /\ Charge
    /\ Quotaed => check_concurrent(tenant)
    /\ runtime_state \notin {"DRAINING", "STOPPED"}
    /\ is_valid_transition(state[e], "VALIDATING")
    /\ concurrent' = IF Quotaed THEN quota_start(tenant, e) ELSE concurrent
    /\ tenant_ctx' = [tenant_ctx EXCEPT ![e] = tenant_context]
    /\ state' = [state EXCEPT ![e] = "VALIDATING"]
    /\ pc' = [pc EXCEPT ![e] = "policy"]
    /\ metrics' = Bump({"total"})
    /\ UNCHANGED <<runtime_state, tenant_context, approvals, tool_calls,
                   checkpoints, tenants, agents, configs>>

--------------------------------------------------------------------------------
(* _execute_quota_guarded, resumed at each await with the answer.          *)

(* Mutant: the slot of the tenant whose context is set now is given back.  *)
release_current_tenant(e) ==
    concurrent' = IF Quotaed THEN quota_end(tenant, e) ELSE concurrent

release_quota(e) ==
    concurrent' = IF HasQuota /\ tenant_ctx[e] # NoContext
                  THEN quota_end(tenant_ctx[e].tenant_id, e)
                  ELSE concurrent

(* The result is returned: the caller's _release_quota follows with no     *)
(* await between.                                                          *)
Return(e, final, counters) ==
    /\ state' = [state EXCEPT ![e] = final]
    /\ pc' = [pc EXCEPT ![e] = "returned"]
    /\ metrics' = Bump(counters)
    /\ release_quota(e)
    /\ UNCHANGED <<runtime_state, tenant_context, tenant_ctx, tenants, agents, configs>>

(* Mutant: a failure that no counter records.                              *)
FailUncounted(e, target) ==
    /\ Return(e, transition_safe(state[e], target), {})
    /\ UNCHANGED <<execution_counts, checkpoints>>

(* A failed execution: _transition_safe to the target.  Only the quota     *)
(* slot is given back.                                                     *)
Fail(e, target) ==
    /\ Return(e, transition_safe(state[e], target), {"failed"})
    /\ UNCHANGED <<execution_counts, checkpoints>>

(* _transition: on to the next await, or InvalidStateTransitionError out   *)
(* of execute_intent with nothing released.                                *)
Proceed(e, target, await) ==
    /\ IF is_valid_transition(state[e], target)
         THEN /\ state' = [state EXCEPT ![e] = target]
              /\ pc' = [pc EXCEPT ![e] = await]
         ELSE /\ pc' = [pc EXCEPT ![e] = "raised"]
              /\ UNCHANGED state
    /\ UNCHANGED <<runtime_state, tenant_context, tenant_ctx, checkpoints, metrics,
                   isolation, quota>>

Approve(e, check) == approvals' = [approvals EXCEPT ![e] = @ \cup {check}]

PolicyAllows(e) ==
    /\ pc[e] = "policy"
    /\ Proceed(e, "AUTHORIZED", "capability")
    /\ Approve(e, "policy")
    /\ UNCHANGED tool_calls

PolicyRejects(e) ==
    /\ pc[e] = "policy"
    /\ \E target \in {"FAILED",       \* (False, reason)
                      "HALTED"} :     \* evaluate_intent raised
          Fail(e, target)
    /\ UNCHANGED <<approvals, tool_calls>>

CapabilityAllows(e) ==
    /\ pc[e] = "capability"
    /\ Proceed(e, "EXECUTING", "router")
    /\ Approve(e, "capability")
    /\ UNCHANGED tool_calls

(* Mutant: a capability check that raises lets the execution through.      *)
CapabilityFailsOpen(e) ==
    /\ pc[e] = "capability"
    /\ Proceed(e, "EXECUTING", "router")
    /\ UNCHANGED <<approvals, tool_calls>>

(* Denied, or check_capability raised.                                     *)
CapabilityRejects(e) ==
    /\ pc[e] = "capability"
    /\ Fail(e, "FAILED")
    /\ UNCHANGED <<approvals, tool_calls>>

RouterAnswers(e) ==
    /\ pc[e] = "router"
    /\ pc' = [pc EXCEPT ![e] = "gateway"]
    /\ tool_calls' = tool_calls \cup {e}
    /\ UNCHANGED <<runtime_state, tenant_context, state, tenant_ctx, approvals,
                   checkpoints, metrics, isolation, quota>>

RouterRaises(e) ==
    /\ pc[e] = "router"
    /\ Fail(e, "HALTED")
    /\ UNCHANGED <<approvals, tool_calls>>

GatewayAnswers(e) ==
    /\ pc[e] = "gateway"
    /\ Proceed(e, "CHECKPOINTING", "save")
    /\ UNCHANGED <<approvals, tool_calls>>

(* Mutant: a failed tool is routed and tried again without end.            *)
GatewayRetries(e) ==
    /\ pc[e] = "gateway"
    /\ pc' = [pc EXCEPT ![e] = "router"]
    /\ UNCHANGED <<runtime_state, tenant_context, state, tenant_ctx, approvals, tool_calls,
                   checkpoints, metrics, isolation, quota>>

(* An unsuccessful ToolResult, or access_tool raised.                      *)
GatewayFails(e) ==
    /\ pc[e] = "gateway"
    /\ Fail(e, "FAILED")
    /\ UNCHANGED <<approvals, tool_calls>>

(* Mutant: the tenant of the shared context, read when the save is made.   *)
current_tenant(e) ==
    IF e \in Executions /\ HasContext THEN tenant ELSE NoTenant

(* checkpoint_state, as far as the tenant goes.                            *)
checkpoint_tenant(e) ==
    IF tenant_ctx[e] # NoContext THEN tenant_ctx[e].tenant_id ELSE NoTenant

(* The store writes the checkpoint; its answer is still to come.           *)
StoreWrites(e) ==
    /\ pc[e] = "save"
    /\ checkpoints[e] = NotSaved
    /\ checkpoints' = [checkpoints EXCEPT ![e] = checkpoint_tenant(e)]
    /\ UNCHANGED <<runtime_state, tenant_context, pc, state, tenant_ctx, approvals,
                   tool_calls, metrics, isolation, quota>>

(* Mutant: the charge of the tenant whose context is set now is ended.     *)
CompleteForCurrentTenant(e) ==
    /\ Return(e, "COMPLETED", {"completed"})
    /\ execution_counts' = IF Charging THEN isolation_end(tenant) ELSE execution_counts

(* save returned a checkpoint_id: COMPLETED, and the one place where the   *)
(* isolation charge ends.                                                  *)
Complete(e) ==
    /\ Return(e, "COMPLETED", {"completed"})
    /\ execution_counts' = IF HasIsolation /\ tenant_ctx[e] # NoContext
                           THEN isolation_end(tenant_ctx[e].tenant_id)
                           ELSE execution_counts

SaveAnswers(e) ==
    /\ pc[e] = "save"
    /\ checkpoints[e] # NotSaved
    /\ IF is_valid_transition(state[e], "COMPLETED")
         THEN Complete(e)
         ELSE Proceed(e, "COMPLETED", "returned")
    /\ UNCHANGED <<approvals, tool_calls, checkpoints>>

(* save raised, before or after the write took effect.                     *)
SaveRaises(e) ==
    /\ pc[e] = "save"
    /\ Fail(e, "HALTED")
    /\ UNCHANGED <<approvals, tool_calls>>

(* The caller cancels the task: CancelledError is no Exception, so no      *)
(* handler runs and, with no finally, nothing is released.                 *)
Cancel(e) ==
    /\ e \in Cancellable
    /\ pc[e] \in Awaiting
    /\ pc' = [pc EXCEPT ![e] = "cancelled"]
    /\ UNCHANGED <<runtime_state, tenant_context, state, tenant_ctx, approvals,
                   tool_calls, checkpoints, metrics, isolation, quota>>

--------------------------------------------------------------------------------

Admin ==
    \/ \E t \in Tenants, max \in Limits : RegisterTenant(t, max)
    \/ \E a \in Agents, t \in Tenants : RegisterAgent(a, t)
    \/ \E t \in Tenants, max \in Quotas : Configure(t, max)
    \/ \E context \in Contexts : set_tenant_context(context)
    \/ drain
    \/ stop

Call(e) ==
    \/ DenyWithoutContext(e)
    \/ RaiseLimitExceeded(e)
    \/ DenyConcurrent(e)
    \/ DenyRate(e)
    \/ DenyShutdown(e)
    \/ ExecuteIntent(e)

Resume(e) ==
    \/ PolicyAllows(e)
    \/ PolicyRejects(e)
    \/ CapabilityAllows(e)
    \/ CapabilityRejects(e)
    \/ RouterAnswers(e)
    \/ RouterRaises(e)
    \/ GatewayAnswers(e)
    \/ GatewayFails(e)
    \/ StoreWrites(e)
    \/ SaveAnswers(e)
    \/ SaveRaises(e)

Next ==
    \/ Admin
    \/ \E e \in Executions : Call(e) \/ Resume(e) \/ Cancel(e)

Spec == Init /\ [][Next]_vars

(* Every collaborator that is awaited answers or raises in the end, and    *)
(* the event loop resumes the task.                                        *)
FairSpec == Spec /\ \A e \in Executions : WF_vars(Resume(e))

--------------------------------------------------------------------------------
(* Properties.                                                             *)

Of(e, t) == tenant_ctx[e] # NoContext /\ tenant_ctx[e].tenant_id = t

InFlight(t) == {e \in Executions : pc[e] \in Awaiting /\ Of(e, t)}

(* The quota manager's set of a tenant holds exactly the ids of the        *)
(* tenant's executions that are suspended in execute_intent, and those     *)
(* whose task was cancelled there: every return of execute_intent, on      *)
(* whatever path, has given its slot back.                                 *)
QuotaSlotsAreInFlight ==
    HasQuota => \A t \in Tenants :
        concurrent[t] = {e \in Executions :
                            pc[e] \in Awaiting \cup {"cancelled"} /\ Of(e, t)}

(* What execution_counts really counts: the calls charged to the tenant    *)
(* that have not COMPLETED, whatever became of them.                       *)
Charged(t) == {e \in Executions :
                  /\ pc[e] \notin {"idle", "raised"}
                  /\ Of(e, t)
                  /\ state[e] # "COMPLETED"}

(* Every execution in flight is counted against its tenant's limit: the    *)
(* count is exactly the number of charged calls, so it never runs below    *)
(* the number in flight, however starts, ends and context switches         *)
(* interleave (and max(0, n - 1) never has to clamp).                      *)
CountCoversInFlight ==
    HasIsolation => \A t \in Tenants :
        /\ execution_counts[t] = Cardinality(Charged(t))
        /\ InFlight(t) \subseteq Charged(t)

(* An execution that is let in leaves its tenant within the isolation      *)
(* limit and the quota in force at that moment.                            *)
StartsWithinLimits ==
    [][\A e \in Executions, t \in Tenants :
          (pc[e] = "idle" /\ pc'[e] \in Awaiting /\ Of(e, t)') =>
              /\ HasIsolation => Cardinality(InFlight(t)') <= tenants[t]
              /\ HasQuota => Cardinality(InFlight(t)') <= configs[t]]_vars

(* No tool is reached without the policy's and the capability check's      *)
(* consent to this very execution, and a COMPLETED execution has used its  *)
(* tool and has its checkpoint in the store.                               *)
GovernanceChain ==
    /\ \A e \in tool_calls : approvals[e] = Checks
    /\ \A e \in Executions :
          state[e] = "COMPLETED" => e \in tool_calls /\ checkpoints[e] # NotSaved

(* How far an execution is along the chain while it is in flight.          *)
ChainSoFar ==
    \A e \in Executions :
        /\ pc[e] = "capability" => "policy" \in approvals[e]
        /\ pc[e] \in {"router", "gateway", "save"} => approvals[e] = Checks
        /\ pc[e] \in {"gateway", "save"} => e \in tool_calls

(* A checkpoint is written once, for the tenant whose quota slot the       *)
(* execution holds, although set_tenant_context may have replaced the      *)
(* shared context since the execution started.                             *)
CheckpointForSlotHolder ==
    [][\A e \in Executions :
          checkpoints'[e] # checkpoints[e] =>
              /\ checkpoints[e] = NotSaved
              /\ \A t \in Tenants :
                    HasQuota => (checkpoints'[e] = t <=> e \in concurrent[t])]_vars

(* The state an execution is in while it is suspended at each await.       *)
StateAt == [policy |-> "VALIDATING", capability |-> "AUTHORIZED",
            router |-> "EXECUTING", gateway |-> "EXECUTING", save |-> "CHECKPOINTING"]

(* _transition never raises: an execution suspended at an await is in the  *)
(* state its next transition starts from, a call that raised has never     *)
(* left CREATED, and whoever is COMPLETED has returned.                    *)
NoInvalidTransition ==
    \A e \in Executions :
        /\ pc[e] \in Awaiting => state[e] = StateAt[pc[e]]
        /\ pc[e] \in {"idle", "raised"} => state[e] = "CREATED"
        /\ state[e] = "COMPLETED" => pc[e] = "returned"

(* The metrics account for every execution that started: completed,        *)
(* failed, still running, or cancelled.                                    *)
MetricsBalance ==
    metrics["total"] =
        metrics["completed"] + metrics["failed"]
        + Cardinality({e \in Executions : pc[e] \in Awaiting \cup {"cancelled"}})

(* Every execution ends: after drain() or stop() those in flight run out,  *)
(* and there is a moment when the only quota slots still held are those of *)
(* cancelled tasks (no step depends on the runtime's state once it has     *)
(* begun, so this is also why executions end while the runtime runs).      *)
ShutdownDrains ==
    runtime_state # "RUNNING" ~>
        \A t \in Tenants : /\ InFlight(t) = {}
                           /\ \A e \in concurrent[t] : pc[e] = "cancelled"

(* The inductive invariant the proofs rest on.                             *)
IInv ==
    /\ TypeOK
    /\ NoInvalidTransition
    /\ ChainSoFar
    /\ GovernanceChain
    /\ QuotaSlotsAreInFlight
    /\ CountCoversInFlight

--------------------------------------------------------------------------------
(* Refinement.                                                             *)

lifeOf == [e \in Executions |->
              IF pc[e] \in {"idle", "raised"} THEN "none" ELSE state[e]]

Abs == INSTANCE ExecutionLifecycle WITH mode <- runtime_state, life <- lifeOf

(* The runtime implements ExecutionLifecycle: nothing begins once drain()  *)
(* or stop() has been called, and each execution walks the transition      *)
(* table of kernel/state.py to at most one terminal state.                 *)
Lifecycle == Abs!LifecycleSpec

--------------------------------------------------------------------------------
(* What a comment of the repository says, and the code does not do.        *)

(* kernel/isolation.py calls _execution_counts "tenant_id -> active        *)
(* count": the executions the tenant has in flight.                        *)
CountIsActive ==
    HasIsolation =>
        \A t \in Tenants : execution_counts[t] = Cardinality(InFlight(t))

================================================================================
