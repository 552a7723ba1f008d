----------------------------- MODULE RuntimeProofs -----------------------------
(***************************************************************************)
(* Proofs about module Runtime, for any number of tenants, agents, limits  *)
(* and calls.                                                              *)
(***************************************************************************)
EXTENDS Runtime, FiniteSetTheorems, TLAPS

(* A runtime that has just been constructed is well typed.                 *)
LEMMA InitTypeOK == Init => TypeOK
  BY QuotaAssumption DEF Init, IsolationInit, QuotaInit, TypeOK, IsolationTypeOK, QuotaTypeOK,
     RuntimeState, ExecutionState, Awaiting, Ended, Counters

(* A call of execute_intent up to its first await keeps the types.         *)
LEMMA CallTypeOK ==
  ASSUME NEW e \in Executions, TypeOK, Call(e)
  PROVE  TypeOK'
<1> USE IsolationAssumption, QuotaAssumption, RuntimeAssumption, TenancyAssumption
    DEF TypeOK, IsolationTypeOK, QuotaTypeOK
<1>0. HasContext => tenant \in Tenants
  BY DEF HasContext, tenant, Contexts
<1>1. \A counters : Bump(counters) \in [Counters -> Nat]
  BY DEF Bump, Counters
<1>2. ASSUME NEW outcome \in Ended, NEW counters, Refuse(e, outcome, counters),
             execution_counts' \in [Tenants -> Nat]
      PROVE  TypeOK'
  BY <1>1, <1>2 DEF Refuse, Ended, quota
<1>3. Charge => execution_counts' \in [Tenants -> Nat]
  BY <1>0 DEF Charge, Charging, isolation_start
<1>4. CASE DenyWithoutContext(e)
  BY <1>2, <1>4 DEF DenyWithoutContext, Ended
<1>5. CASE RaiseLimitExceeded(e)
  BY <1>2, <1>5 DEF RaiseLimitExceeded, Ended
<1>6. CASE DenyConcurrent(e)
  BY <1>2, <1>3, <1>6 DEF DenyConcurrent, Ended
<1>7. CASE DenyRate(e)
  BY <1>2, <1>3, <1>7 DEF DenyRate, Ended
<1>8. CASE DenyShutdown(e)
  BY <1>2, <1>3, <1>8 DEF DenyShutdown, Ended
<1>9. CASE ExecuteIntent(e)
  <2>1. concurrent' \in [Tenants -> SUBSET Executions]
    BY <1>0, <1>9 DEF ExecuteIntent, Quotaed, quota_start
  <2>2. QED
    BY <1>1, <1>3, <1>9, <2>1 DEF ExecuteIntent, Awaiting, ExecutionState
<1>10. QED
  BY <1>4, <1>5, <1>6, <1>7, <1>8, <1>9 DEF Call

(* The transition table of kernel/state.py, row by row.                    *)
LEMMA Transitions ==
  /\ \A x : is_valid_transition("CREATED", x) <=> x = "VALIDATING"
  /\ \A x : is_valid_transition("VALIDATING", x) <=> x \in {"AUTHORIZED", "FAILED", "HALTED"}
  /\ \A x : is_valid_transition("AUTHORIZED", x) <=> x \in {"EXECUTING", "FAILED", "HALTED"}
  /\ \A x : is_valid_transition("EXECUTING", x) <=> x \in {"CHECKPOINTING", "FAILED", "HALTED"}
  /\ \A x : is_valid_transition("CHECKPOINTING", x) <=> x \in {"COMPLETED", "HALTED"}
  /\ \A x : \A y \in Terminal : ~is_valid_transition(y, x)
  BY DEF is_valid_transition, VALID_TRANSITIONS, ExecutionState, Terminal

(* _transition_safe asked for FAILED or HALTED answers with an execution   *)
(* state, with the target itself from the states in which the runtime asks *)
(* for it, and never with COMPLETED from any other state.                  *)
LEMMA TransitionSafe ==
  ASSUME NEW s \in ExecutionState, NEW target \in {"FAILED", "HALTED"}
  PROVE  /\ transition_safe(s, target) \in ExecutionState
         /\ s # "COMPLETED" => transition_safe(s, target) # "COMPLETED"
         /\ s \in {"VALIDATING", "AUTHORIZED", "EXECUTING"}
               => transition_safe(s, target) = target
         /\ s = "CHECKPOINTING" => transition_safe(s, target) = "HALTED"
  BY Transitions DEF transition_safe, ExecutionState, Terminal

(* A step of an execution in flight keeps the variables' types.            *)
LEMMA ResumeTypeOK ==
  ASSUME NEW e \in Executions, TypeOK, Resume(e) \/ Cancel(e)
  PROVE  TypeOK'
<1> USE IsolationAssumption, QuotaAssumption, RuntimeAssumption, TenancyAssumption
    DEF TypeOK, IsolationTypeOK, QuotaTypeOK
<1>0. tenant_ctx[e] # NoContext => tenant_ctx[e].tenant_id \in Tenants
  BY DEF Contexts
<1>1. \A counters : Bump(counters) \in [Counters -> Nat]
  BY DEF Bump, Counters
<1>2. ASSUME NEW final \in ExecutionState, NEW counters, Return(e, final, counters),
             execution_counts' \in [Tenants -> Nat], approvals' = approvals,
             tool_calls' = tool_calls, checkpoints' = checkpoints
      PROVE  TypeOK'
  <2>1. concurrent' \in [Tenants -> SUBSET Executions]
    BY <1>0, <1>2 DEF Return, release_quota, quota_end
  <2>2. QED
    BY <1>1, <1>2, <2>1 DEF Return, Ended
<1>3. ASSUME NEW target \in {"FAILED", "HALTED"}, Fail(e, target),
             UNCHANGED <<approvals, tool_calls>>
      PROVE  TypeOK'
  <2>1. transition_safe(state[e], target) \in ExecutionState
    BY TransitionSafe
  <2>2. QED
    BY <1>2, <1>3, <2>1 DEF Fail
<1>4. ASSUME NEW target \in ExecutionState, NEW await \in Awaiting \cup Ended,
             Proceed(e, target, await),
             approvals' \in [Executions -> SUBSET Checks], tool_calls' = tool_calls
      PROVE  TypeOK'
  BY <1>4 DEF Proceed, isolation, quota, Ended
<1>5. \A check \in Checks : Approve(e, check) => approvals' \in [Executions -> SUBSET Checks]
  BY DEF Approve, Checks
<1>6. CASE PolicyAllows(e)
  BY <1>4, <1>5, <1>6 DEF PolicyAllows, Awaiting, Checks, ExecutionState
<1>7. CASE PolicyRejects(e)
  BY <1>3, <1>7 DEF PolicyRejects
<1>8. CASE CapabilityAllows(e)
  BY <1>4, <1>5, <1>8 DEF CapabilityAllows, Awaiting, Checks, ExecutionState
<1>9. CASE CapabilityRejects(e)
  BY <1>3, <1>9 DEF CapabilityRejects
<1>10. CASE RouterAnswers(e)
  BY <1>10 DEF RouterAnswers, isolation, quota, Awaiting
<1>11. CASE RouterRaises(e)
  BY <1>3, <1>11 DEF RouterRaises
<1>12. CASE GatewayAnswers(e)
  BY <1>4, <1>12 DEF GatewayAnswers, Awaiting, ExecutionState
<1>13. CASE GatewayFails(e)
  BY <1>3, <1>13 DEF GatewayFails
<1>14. CASE StoreWrites(e)
  BY <1>14, <1>0 DEF StoreWrites, isolation, quota, checkpoint_tenant
<1>15. CASE SaveAnswers(e)
  <2>1. CASE Complete(e)
    <3>1. execution_counts' \in [Tenants -> Nat]
      BY <2>1, <1>0 DEF Complete, isolation_end
    <3>2. QED
      BY <2>1, <3>1, <1>2, <1>15 DEF Complete, SaveAnswers, ExecutionState
  <2>2. CASE Proceed(e, "COMPLETED", "returned")
    BY <2>2, <1>4, <1>15 DEF SaveAnswers, ExecutionState, Ended
  <2>3. QED
    BY <2>1, <2>2, <1>15 DEF SaveAnswers
<1>16. CASE SaveRaises(e)
  BY <1>3, <1>16 DEF SaveRaises
<1>17. CASE Cancel(e)
  BY <1>17 DEF Cancel, isolation, quota, Ended
<1>18. QED
  BY <1>6, <1>7, <1>8, <1>9, <1>10, <1>11, <1>12, <1>13, <1>14, <1>15, <1>16, <1>17
  DEF Resume

(* So do the administrative calls.                                         *)
LEMMA AdminTypeOK ==
  ASSUME TypeOK, Admin
  PROVE  TypeOK'
<1> USE DEF TypeOK, IsolationTypeOK, QuotaTypeOK, isolation, quota, calls
<1>1. CASE \E t \in Tenants, max \in Limits : RegisterTenant(t, max)
  BY <1>1 DEF RegisterTenant, register_tenant
<1>2. CASE \E a \in Agents, t \in Tenants : RegisterAgent(a, t)
  BY <1>2 DEF RegisterAgent, register_agent
<1>3. CASE \E t \in Tenants, max \in Quotas : Configure(t, max)
  BY <1>3 DEF Configure, configure
<1>4. CASE \E context \in Contexts : set_tenant_context(context)
  BY <1>4 DEF set_tenant_context
<1>5. CASE drain \/ stop
  BY <1>5 DEF drain, stop, RuntimeState
<1>6. QED
  BY <1>1, <1>2, <1>3, <1>4, <1>5 DEF Admin

(* So does a step that changes nothing.                                    *)
LEMMA StutterTypeOK ==
  ASSUME TypeOK, UNCHANGED vars
  PROVE  TypeOK'
  BY DEF TypeOK, IsolationTypeOK, QuotaTypeOK, vars, isolation, quota, calls

(* So does every step.                                                     *)
LEMMA NextTypeOK == TypeOK /\ [Next]_vars => TypeOK'
  BY CallTypeOK, ResumeTypeOK, AdminTypeOK, StutterTypeOK DEF Next

(* Every behaviour of the runtime is well typed.                           *)
THEOREM TypeCorrect == Spec => []TypeOK
  BY InitTypeOK, NextTypeOK, PTL DEF Spec

--------------------------------------------------------------------------------
(* The transitions an execution makes.                                     *)

(* What the administrative calls leave alone.                              *)
LEMMA AdminFrame ==
  ASSUME Admin
  PROVE  UNCHANGED <<pc, state, tenant_ctx, approvals, tool_calls, checkpoints, metrics,
                     execution_counts, concurrent>>
  BY DEF Admin, RegisterTenant, register_tenant, RegisterAgent, register_agent, Configure,
         configure, set_tenant_context, drain, stop, calls, isolation, quota

(* A call that does not start stays CREATED and holds no quota slot.       *)
LEMMA CallEffect ==
  ASSUME NEW e \in Executions, TypeOK, Call(e)
  PROVE  /\ pc[e] = "idle"
         /\ tenant_ctx' = [tenant_ctx EXCEPT ![e] = tenant_context]
         /\ UNCHANGED <<runtime_state, tenant_context, approvals, tool_calls, checkpoints>>
         /\ \/ /\ pc' = [pc EXCEPT ![e] = "policy"]
               /\ state' = [state EXCEPT ![e] = "VALIDATING"]
               /\ runtime_state = "RUNNING"
            \/ /\ \E outcome \in {"returned", "raised"} : pc' = [pc EXCEPT ![e] = outcome]
               /\ UNCHANGED <<state, concurrent>>
  BY DEF Call, DenyWithoutContext, RaiseLimitExceeded, DenyConcurrent, DenyRate, DenyShutdown,
         ExecuteIntent, Refuse, quota, TypeOK, RuntimeState

(* What one step of an execution in flight does to its place and state: it *)
(* moves on to an await, one transition or none further...                 *)
MovesOn(e) ==
    /\ \E a \in Awaiting :
          /\ pc' = [pc EXCEPT ![e] = a]
          /\ state' = [state EXCEPT ![e] = StateAt[a]]
          /\ \/ StateAt[a] = state[e]
             \/ is_valid_transition(state[e], StateAt[a])
    /\ UNCHANGED <<execution_counts, concurrent>>

(* ... or it ends in a terminal state.                                     *)
Ends(e) ==
    \E s \in Terminal :
        /\ pc' = [pc EXCEPT ![e] = "returned"]
        /\ state' = [state EXCEPT ![e] = s]
        /\ is_valid_transition(state[e], s)
        /\ release_quota(e)
        /\ execution_counts' =
              IF s = "COMPLETED" /\ HasIsolation /\ tenant_ctx[e] # NoContext
              THEN isolation_end(tenant_ctx[e].tenant_id)
              ELSE execution_counts

(* Every step of an execution in flight is one of the two.                 *)
LEMMA ResumeEffect ==
  ASSUME NEW e \in Executions, TypeOK, NoInvalidTransition, Resume(e)
  PROVE  /\ pc[e] \in Awaiting
         /\ UNCHANGED <<runtime_state, tenant_context, tenant_ctx>>
         /\ MovesOn(e) \/ Ends(e)
<1> DEFINE Goal == /\ pc[e] \in Awaiting
                   /\ UNCHANGED <<runtime_state, tenant_context, tenant_ctx>>
                   /\ MovesOn(e) \/ Ends(e)
<1>0. pc[e] \in Awaiting => state[e] = StateAt[pc[e]]
  BY DEF NoInvalidTransition
<1>1. ASSUME NEW target \in {"FAILED", "HALTED"}, Fail(e, target), pc[e] \in Awaiting,
             pc[e] = "save" => target = "HALTED"
      PROVE  Goal
  <2>1. /\ transition_safe(state[e], target) = target
        /\ is_valid_transition(state[e], target)
    BY <1>0, <1>1, Transitions DEF transition_safe, StateAt, Awaiting
  <2>2. QED
    BY <1>1, <2>1 DEF Fail, Return, Terminal, Ends
<1>2. ASSUME NEW a \in Awaiting, NEW target, target = StateAt[a],
             Proceed(e, target, a), pc[e] \in Awaiting,
             is_valid_transition(state[e], target)
      PROVE  Goal
  BY <1>2 DEF Proceed, isolation, quota, MovesOn
<1>3. CASE PolicyAllows(e)
  <2>1. is_valid_transition(state[e], "AUTHORIZED")
    BY <1>0, <1>3, Transitions DEF PolicyAllows, StateAt, Awaiting
  <2>2. QED
    BY <1>2, <1>3, <2>1 DEF PolicyAllows, StateAt, Awaiting
<1>4. CASE CapabilityAllows(e)
  <2>1. is_valid_transition(state[e], "EXECUTING")
    BY <1>0, <1>4, Transitions DEF CapabilityAllows, StateAt, Awaiting
  <2>2. QED
    BY <1>2, <1>4, <2>1 DEF CapabilityAllows, StateAt, Awaiting
<1>5. CASE GatewayAnswers(e)
  <2>1. is_valid_transition(state[e], "CHECKPOINTING")
    BY <1>0, <1>5, Transitions DEF GatewayAnswers, StateAt, Awaiting
  <2>2. QED
    BY <1>2, <1>5, <2>1 DEF GatewayAnswers, StateAt, Awaiting
<1>6. CASE RouterAnswers(e)
  <2>1. state[e] = "EXECUTING" /\ StateAt["gateway"] = "EXECUTING"
    BY <1>0, <1>6 DEF RouterAnswers, StateAt, Awaiting
  <2>2. state = [state EXCEPT ![e] = StateAt["gateway"]]
    BY <2>1 DEF TypeOK
  <2>3. QED
    BY <1>6, <2>1, <2>2 DEF RouterAnswers, isolation, quota, Awaiting, MovesOn
<1>7. CASE StoreWrites(e)
  <2>1. state = [state EXCEPT ![e] = StateAt["save"]] /\ StateAt["save"] = state[e]
    BY <1>0, <1>7 DEF StoreWrites, StateAt, Awaiting, TypeOK
  <2>2. pc = [pc EXCEPT ![e] = "save"]
    BY <1>7 DEF StoreWrites, TypeOK
  <2>3. QED
    BY <1>7, <2>1, <2>2 DEF StoreWrites, isolation, quota, Awaiting, MovesOn
<1>8. CASE SaveAnswers(e)
  <2>1. is_valid_transition(state[e], "COMPLETED")
    BY <1>0, <1>8, Transitions DEF SaveAnswers, StateAt, Awaiting
  <2>2. QED
    BY <1>8, <2>1 DEF SaveAnswers, Complete, Return, Terminal, Awaiting, Ends
<1>9. CASE PolicyRejects(e)
  BY <1>1, <1>9 DEF PolicyRejects, Awaiting
<1>10. CASE CapabilityRejects(e) \/ GatewayFails(e)
  BY <1>1, <1>10 DEF CapabilityRejects, GatewayFails, Awaiting
<1>11. CASE RouterRaises(e) \/ SaveRaises(e)
  BY <1>1, <1>11 DEF RouterRaises, SaveRaises, Awaiting
<1>12. QED
  BY <1>3, <1>4, <1>5, <1>6, <1>7, <1>8, <1>9, <1>10, <1>11 DEF Resume

--------------------------------------------------------------------------------
(* An execution's state follows from the await it is suspended at, so that *)
(* every transition the runtime asks for is in the table.                  *)
LEMMA NextNoInvalidTransition ==
  ASSUME TypeOK, NoInvalidTransition, [Next]_vars
  PROVE  NoInvalidTransition'
<1> USE DEF NoInvalidTransition, TypeOK
<1>1. ASSUME NEW e \in Executions, Call(e)
      PROVE  NoInvalidTransition'
  BY <1>1, CallEffect DEF Awaiting, StateAt
<1>2. ASSUME NEW e \in Executions, Resume(e)
      PROVE  NoInvalidTransition'
  <2>1. CASE MovesOn(e)
    BY <2>1 DEF MovesOn, Awaiting, StateAt
  <2>2. CASE Ends(e)
    BY <2>2 DEF Ends, Awaiting, Terminal
  <2>3. QED
    BY <1>2, <2>1, <2>2, ResumeEffect
<1>3. ASSUME NEW e \in Executions, Cancel(e)
      PROVE  NoInvalidTransition'
  BY <1>3 DEF Cancel, Awaiting, StateAt
<1>4. CASE Admin
  BY <1>4, AdminFrame
<1>5. CASE UNCHANGED vars
  BY <1>5 DEF vars, calls
<1>6. QED
  BY <1>1, <1>2, <1>3, <1>4, <1>5 DEF Next

(* Both checks have let through whoever is past them, and only then does   *)
(* the execution reach its tool.                                           *)
LEMMA NextGovernance ==
  ASSUME TypeOK, NoInvalidTransition, ChainSoFar, GovernanceChain, [Next]_vars
  PROVE  ChainSoFar' /\ GovernanceChain'
<1> USE DEF TypeOK, ChainSoFar, GovernanceChain
<1>1. ASSUME NEW e \in Executions, Call(e)
      PROVE  ChainSoFar' /\ GovernanceChain'
  BY <1>1, CallEffect
<1>2. ASSUME NEW e \in Executions, Resume(e)
      PROVE  ChainSoFar' /\ GovernanceChain'
  <2>1. ASSUME NEW target \in {"FAILED", "HALTED"}, Fail(e, target),
               UNCHANGED <<approvals, tool_calls>>, pc[e] \in Awaiting
        PROVE  ChainSoFar' /\ GovernanceChain'
    <3>1. state[e] # "COMPLETED"
      BY <2>1 DEF NoInvalidTransition, Awaiting
    <3>2. transition_safe(state[e], target) # "COMPLETED"
      BY <3>1, TransitionSafe
    <3>3. QED
      BY <2>1, <3>2 DEF Fail, Return
  <2>2. CASE PolicyAllows(e)
    BY <1>2, <2>2, ResumeEffect
    DEF PolicyAllows, Proceed, Approve, Checks, NoInvalidTransition
  <2>3. CASE CapabilityAllows(e)
    BY <2>3 DEF CapabilityAllows, Proceed, Approve, Checks, NoInvalidTransition
  <2>4. CASE RouterAnswers(e)
    BY <2>4 DEF RouterAnswers
  <2>5. CASE GatewayAnswers(e)
    BY <2>5 DEF GatewayAnswers, Proceed
  <2>6. CASE StoreWrites(e)
    <3>1. checkpoint_tenant(e) # NotSaved
      BY RuntimeAssumption DEF checkpoint_tenant, Contexts
    <3>2. QED
      BY <2>6, <3>1 DEF StoreWrites
  <2>7. CASE SaveAnswers(e)
    BY <2>7 DEF SaveAnswers, Complete, Return, Proceed
  <2>8. CASE PolicyRejects(e)
    BY <2>1, <2>8 DEF PolicyRejects, Awaiting
  <2>9. CASE CapabilityRejects(e) \/ GatewayFails(e)
    BY <2>1, <2>9 DEF CapabilityRejects, GatewayFails, Awaiting
  <2>10. CASE RouterRaises(e) \/ SaveRaises(e)
    BY <2>1, <2>10 DEF RouterRaises, SaveRaises, Awaiting
  <2>11. QED
    BY <1>2, <2>2, <2>3, <2>4, <2>5, <2>6, <2>7, <2>8, <2>9, <2>10 DEF Resume
<1>3. ASSUME NEW e \in Executions, Cancel(e)
      PROVE  ChainSoFar' /\ GovernanceChain'
  BY <1>3 DEF Cancel
<1>4. CASE Admin
  BY <1>4, AdminFrame
<1>5. CASE UNCHANGED vars
  BY <1>5 DEF vars, calls
<1>6. QED
  BY <1>1, <1>2, <1>3, <1>4, <1>5 DEF Next

--------------------------------------------------------------------------------
(* A quota slot is held from the start of an execution to its return.      *)
LEMMA NextQuotaSlots ==
  ASSUME TypeOK, NoInvalidTransition, QuotaSlotsAreInFlight, [Next]_vars
  PROVE  QuotaSlotsAreInFlight'
<1> SUFFICES ASSUME HasQuota, NEW t \in Tenants, NEW x \in Executions
             PROVE  x \in concurrent'[t] <=> pc'[x] \in Awaiting \cup {"cancelled"} /\ Of(x, t)'
  <2>1. concurrent' \in [Tenants -> SUBSET Executions]
    BY NextTypeOK DEF TypeOK, QuotaTypeOK
  <2>2. QED
    BY <2>1 DEF QuotaSlotsAreInFlight
<1>0. x \in concurrent[t] <=> pc[x] \in Awaiting \cup {"cancelled"} /\ Of(x, t)
  BY DEF QuotaSlotsAreInFlight
<1> USE DEF TypeOK, QuotaTypeOK
<1>1. ASSUME NEW e \in Executions, Call(e)
      PROVE  x \in concurrent'[t] <=> pc'[x] \in Awaiting \cup {"cancelled"} /\ Of(x, t)'
  <2>1. CASE ExecuteIntent(e)
    <3>1. pc[e] = "idle" /\ pc'[e] = "policy" /\ tenant_ctx'[e] = tenant_context
      BY <2>1 DEF ExecuteIntent
    <3>2. CASE x = e
      <4>1. Of(x, t)' <=> tenant_context # NoContext /\ tenant_context.tenant_id = t
        BY <3>1, <3>2 DEF Of
      <4>2. x \notin concurrent[t]
        BY <1>0, <3>1, <3>2 DEF Awaiting
      <4>3. x \in concurrent'[t] <=> tenant_context # NoContext /\ tenant_context.tenant_id = t
        BY <2>1, <3>2, <4>2 DEF ExecuteIntent, Quotaed, HasContext, tenant, quota_start, Contexts
      <4>4. QED
        BY <3>1, <3>2, <4>1, <4>3 DEF Awaiting
    <3>3. CASE x # e
      <4>1. x \in concurrent'[t] <=> x \in concurrent[t]
        BY <2>1, <3>3 DEF ExecuteIntent, Quotaed, HasContext, tenant, quota_start, Contexts
      <4>2. QED
        BY <1>0, <2>1, <3>3, <4>1 DEF ExecuteIntent, Of
    <3>4. QED
      BY <3>2, <3>3
  <2>2. CASE ~ExecuteIntent(e)
    <3>1. /\ pc[e] = "idle" /\ pc'[e] \in {"returned", "raised"} /\ concurrent' = concurrent
          /\ \A y \in Executions : y # e => pc'[y] = pc[y] /\ tenant_ctx'[y] = tenant_ctx[y]
      BY <1>1, <2>2 DEF Call, DenyWithoutContext, RaiseLimitExceeded, DenyConcurrent, DenyRate,
                        DenyShutdown, Refuse, quota
    <3>2. QED
      BY <1>0, <3>1 DEF Of, Awaiting
  <2>3. QED
    BY <2>1, <2>2
<1>2. ASSUME NEW e \in Executions, Resume(e)
      PROVE  x \in concurrent'[t] <=> pc'[x] \in Awaiting \cup {"cancelled"} /\ Of(x, t)'
  <2>0. tenant_ctx' = tenant_ctx /\ pc[e] \in Awaiting
    BY <1>2, ResumeEffect
  <2>1. CASE MovesOn(e)
    BY <1>0, <2>0, <2>1 DEF MovesOn, Of
  <2>2. CASE Ends(e)
    <3>1. pc'[e] = "returned" /\ release_quota(e)
      BY <2>2 DEF Ends
    <3>2. CASE x = e
      <4>1. x \notin concurrent'[t]
        BY <1>0, <3>1, <3>2 DEF release_quota, quota_end, Of, Contexts
      <4>2. QED
        BY <3>1, <3>2, <4>1 DEF Awaiting
    <3>3. CASE x # e
      <4>1. x \in concurrent'[t] <=> x \in concurrent[t]
        BY <3>1, <3>3 DEF release_quota, quota_end, Contexts
      <4>2. QED
        BY <1>0, <2>0, <2>2, <3>3, <4>1 DEF Ends, Of
    <3>4. QED
      BY <3>2, <3>3
  <2>3. QED
    BY <1>2, <2>1, <2>2, ResumeEffect
<1>3. ASSUME NEW e \in Executions, Cancel(e)
      PROVE  x \in concurrent'[t] <=> pc'[x] \in Awaiting \cup {"cancelled"} /\ Of(x, t)'
  BY <1>0, <1>3 DEF Cancel, quota, Of
<1>4. CASE Admin
  BY <1>0, <1>4, AdminFrame DEF Of
<1>5. CASE UNCHANGED vars
  BY <1>0, <1>5 DEF vars, calls, quota, Of
<1>6. QED
  BY <1>1, <1>2, <1>3, <1>4, <1>5 DEF Next

--------------------------------------------------------------------------------
(* The charged calls of a tenant are finitely many.                        *)
LEMMA ChargedFinite ==
  ASSUME NEW t \in Tenants
  PROVE  IsFiniteSet(Charged(t)) /\ Cardinality(Charged(t)) \in Nat
<1>1. Charged(t) \in SUBSET Executions
  BY DEF Charged
<1>2. QED
  BY <1>1, QuotaAssumption, FS_Subset, FS_CardinalityType

(* The isolation count is the number of charged calls: the call that adds  *)
(* one is charged by the same step, and the only step that takes one away  *)
(* is the COMPLETED one of a call that was charged.                        *)
LEMMA NextCount ==
  ASSUME TypeOK, NoInvalidTransition, CountCoversInFlight, [Next]_vars
  PROVE  CountCoversInFlight'
<1> SUFFICES ASSUME HasIsolation, NEW t \in Tenants
             PROVE  execution_counts'[t] = Cardinality(Charged(t)')
  <2>1. NoInvalidTransition'
    BY NextNoInvalidTransition
  <2>2. \A s \in Tenants : InFlight(s)' \subseteq Charged(s)'
    BY <2>1 DEF NoInvalidTransition, InFlight, Charged, Awaiting
  <2>3. QED
    BY <2>2 DEF CountCoversInFlight
<1>0. execution_counts[t] = Cardinality(Charged(t))
  BY DEF CountCoversInFlight
<1>a. ASSUME Charged(t)' = Charged(t), execution_counts'[t] = execution_counts[t]
      PROVE  execution_counts'[t] = Cardinality(Charged(t)')
  BY <1>a, <1>0
<1> USE DEF TypeOK, IsolationTypeOK
<1>1. ASSUME NEW e \in Executions, Call(e)
      PROVE  execution_counts'[t] = Cardinality(Charged(t)')
  <2>0. /\ pc[e] = "idle" /\ state[e] = "CREATED" /\ tenant_ctx'[e] = tenant_context
        /\ e \notin Charged(t)
        /\ \A y \in Executions \ {e} : /\ pc'[y] = pc[y] /\ state'[y] = state[y]
                                       /\ tenant_ctx'[y] = tenant_ctx[y]
    BY <1>1, CallEffect DEF NoInvalidTransition, Charged
  <2>1. CASE DenyWithoutContext(e)
    <3>1. ~Of(e, t)'
      BY <2>0, <2>1 DEF DenyWithoutContext, HasContext, Of
    <3>2. QED
      BY <1>a, <2>0, <2>1, <3>1 DEF DenyWithoutContext, Charged, Of
  <2>2. CASE RaiseLimitExceeded(e)
    <3>1. pc'[e] = "raised"
      BY <2>2 DEF RaiseLimitExceeded, Refuse
    <3>2. QED
      BY <1>a, <2>0, <2>2, <3>1 DEF RaiseLimitExceeded, Charged, Of
  <2>3. CASE DenyConcurrent(e) \/ DenyRate(e) \/ DenyShutdown(e) \/ ExecuteIntent(e)
    <3>1. Charge /\ pc'[e] \in {"returned", "policy"} /\ state'[e] # "COMPLETED"
      BY <2>0, <2>3 DEF DenyConcurrent, DenyRate, DenyShutdown, ExecuteIntent, Refuse
    <3>2. tenant_context # NoContext /\ execution_counts' = isolation_start(tenant)
      BY <3>1 DEF Charge, Charging, HasContext
    <3>3. CASE tenant = t
      <4>1. Charged(t)' = Charged(t) \cup {e}
        BY <2>0, <3>1, <3>2, <3>3 DEF Charged, Of, tenant
      <4>2. Cardinality(Charged(t) \cup {e}) = Cardinality(Charged(t)) + 1
        BY <2>0, ChargedFinite, FS_AddElement
      <4>3. execution_counts'[t] = execution_counts[t] + 1
        BY <3>2, <3>3 DEF isolation_start
      <4>4. QED
        BY <1>0, <4>1, <4>2, <4>3
    <3>4. CASE tenant # t
      <4>1. Charged(t)' = Charged(t)
        BY <2>0, <3>1, <3>2, <3>4 DEF Charged, Of, tenant
      <4>2. execution_counts'[t] = execution_counts[t]
        BY <3>2, <3>4 DEF isolation_start
      <4>3. QED
        BY <1>a, <4>1, <4>2
    <3>5. QED
      BY <3>3, <3>4
  <2>4. QED
    BY <1>1, <2>1, <2>2, <2>3 DEF Call
<1>2. ASSUME NEW e \in Executions, Resume(e)
      PROVE  execution_counts'[t] = Cardinality(Charged(t)')
  <2>0. /\ tenant_ctx' = tenant_ctx /\ pc[e] \in Awaiting /\ state[e] # "COMPLETED"
    BY <1>2, ResumeEffect DEF NoInvalidTransition, Awaiting
  <2>1. CASE MovesOn(e)
    <3>1. Charged(t)' = Charged(t)
      BY <2>0, <2>1 DEF MovesOn, Charged, Of, Awaiting, StateAt
    <3>2. QED
      BY <1>a, <2>1, <3>1 DEF MovesOn
  <2>2. CASE Ends(e)
    <3> PICK s \in Terminal :
          /\ pc' = [pc EXCEPT ![e] = "returned"]
          /\ state' = [state EXCEPT ![e] = s]
          /\ execution_counts' =
                IF s = "COMPLETED" /\ HasIsolation /\ tenant_ctx[e] # NoContext
                THEN isolation_end(tenant_ctx[e].tenant_id)
                ELSE execution_counts
      BY <2>2 DEF Ends
    <3>1. CASE s = "COMPLETED" /\ Of(e, t)
      <4>1. Charged(t)' = Charged(t) \ {e} /\ e \in Charged(t)
        BY <2>0, <3>1 DEF Charged, Of, Awaiting
      <4>2. /\ Cardinality(Charged(t) \ {e}) = Cardinality(Charged(t)) - 1
            /\ Cardinality(Charged(t) \ {e}) \in Nat
        BY <4>1, ChargedFinite, FS_RemoveElement, FS_CardinalityType
      <4>3. execution_counts'[t] = IF execution_counts[t] - 1 > 0 THEN execution_counts[t] - 1 ELSE 0
        BY <3>1 DEF Of, isolation_end
      <4>4. QED
        BY <1>0, <4>1, <4>2, <4>3
    <3>2. CASE s # "COMPLETED" \/ ~Of(e, t)
      <4>1. Charged(t)' = Charged(t)
        BY <2>0, <3>2 DEF Charged, Of, Awaiting
      <4>2. execution_counts'[t] = execution_counts[t]
        BY <3>2 DEF Of, isolation_end
      <4>3. QED
        BY <1>a, <4>1, <4>2
    <3>3. QED
      BY <3>1, <3>2
  <2>3. QED
    BY <1>2, <2>1, <2>2, ResumeEffect
<1>3. ASSUME NEW e \in Executions, Cancel(e)
      PROVE  execution_counts'[t] = Cardinality(Charged(t)')
  <2>1. Charged(t)' = Charged(t)
    BY <1>3 DEF Cancel, Charged, Of, Awaiting
  <2>2. QED
    BY <1>a, <1>3, <2>1 DEF Cancel, isolation
<1>4. CASE Admin
  BY <1>a, <1>4, AdminFrame DEF Charged, Of
<1>5. CASE UNCHANGED vars
  BY <1>a, <1>5 DEF vars, calls, isolation, Charged, Of
<1>6. QED
  BY <1>1, <1>2, <1>3, <1>4, <1>5 DEF Next

--------------------------------------------------------------------------------
(* A runtime that has just been constructed satisfies the invariant.       *)
LEMMA InitIInv == Init => IInv
<1> SUFFICES ASSUME Init PROVE IInv
  OBVIOUS
<1>1. TypeOK
  BY InitTypeOK
<1>2. NoInvalidTransition /\ ChainSoFar /\ GovernanceChain
  BY DEF Init, NoInvalidTransition, ChainSoFar, GovernanceChain, Awaiting
<1>3. QuotaSlotsAreInFlight
  BY DEF Init, QuotaInit, QuotaSlotsAreInFlight, Awaiting
<1>4. \A t \in Tenants : Charged(t) = {} /\ InFlight(t) = {}
  BY DEF Init, Charged, InFlight, Awaiting
<1>5. CountCoversInFlight
  BY <1>4, FS_EmptySet DEF Init, IsolationInit, CountCoversInFlight
<1>6. QED
  BY <1>1, <1>2, <1>3, <1>5 DEF IInv

(* Every step keeps it.                                                    *)
LEMMA NextIInv == IInv /\ [Next]_vars => IInv'
  BY NextTypeOK, NextNoInvalidTransition, NextGovernance, NextQuotaSlots, NextCount DEF IInv

(* The inductive invariant holds in every reachable state.                 *)
THEOREM Invariance == Spec => []IInv
  BY InitIInv, NextIInv, PTL DEF Spec

(* No tool without consent, no completion without a durable checkpoint.    *)
THEOREM GovernanceChainHolds == Spec => []GovernanceChain
<1>1. IInv => GovernanceChain
  BY DEF IInv
<1>2. QED
  BY <1>1, Invariance, PTL

(* No InvalidStateTransitionError escapes from execute_intent.             *)
THEOREM NoInvalidTransitionHolds == Spec => []NoInvalidTransition
<1>1. IInv => NoInvalidTransition
  BY DEF IInv
<1>2. QED
  BY <1>1, Invariance, PTL

(* Quota slots are held by the executions in flight (and cancelled ones).  *)
THEOREM QuotaSlotsHold == Spec => []QuotaSlotsAreInFlight
<1>1. IInv => QuotaSlotsAreInFlight
  BY DEF IInv
<1>2. QED
  BY <1>1, Invariance, PTL

(* No execution in flight escapes the isolation count of its tenant.       *)
THEOREM CountHolds == Spec => []CountCoversInFlight
<1>1. IInv => CountCoversInFlight
  BY DEF IInv
<1>2. QED
  BY <1>1, Invariance, PTL

--------------------------------------------------------------------------------
(* The metrics.                                                            *)

(* The executions that started and have not been counted as over.          *)
Uncounted == {e \in Executions : pc[e] \in Awaiting \cup {"cancelled"}}

LEMMA UncountedFinite == IsFiniteSet(Uncounted) /\ Cardinality(Uncounted) \in Nat
<1>1. Uncounted \in SUBSET Executions
  BY DEF Uncounted
<1>2. QED
  BY <1>1, QuotaAssumption, FS_Subset, FS_CardinalityType

(* A step of an execution in flight counts it exactly when it returns.     *)
LEMMA ResumeCounts ==
  ASSUME NEW e \in Executions, TypeOK, NoInvalidTransition, Resume(e)
  PROVE  \/ metrics' = metrics /\ pc'[e] # "returned"
         \/ metrics' \in {Bump({"completed"}), Bump({"failed"})} /\ pc'[e] = "returned"
<1> USE DEF TypeOK
<1>1. ASSUME NEW target, Fail(e, target)
      PROVE  metrics' = Bump({"failed"}) /\ pc'[e] = "returned"
  BY <1>1 DEF Fail, Return
<1>2. ASSUME NEW target, NEW a \in Awaiting, Proceed(e, target, a)
      PROVE  metrics' = metrics /\ pc'[e] # "returned"
  BY <1>2 DEF Proceed, Awaiting
<1>3. CASE PolicyAllows(e) \/ CapabilityAllows(e) \/ GatewayAnswers(e)
  BY <1>2, <1>3 DEF PolicyAllows, CapabilityAllows, GatewayAnswers, Awaiting
<1>4. CASE \/ PolicyRejects(e) \/ CapabilityRejects(e) \/ RouterRaises(e)
           \/ GatewayFails(e) \/ SaveRaises(e)
  BY <1>1, <1>4 DEF PolicyRejects, CapabilityRejects, RouterRaises, GatewayFails, SaveRaises
<1>5. CASE RouterAnswers(e) \/ StoreWrites(e)
  BY <1>5 DEF RouterAnswers, StoreWrites
<1>6. CASE SaveAnswers(e)
  <2>1. is_valid_transition(state[e], "COMPLETED")
    BY <1>6, Transitions DEF SaveAnswers, StateAt, Awaiting, NoInvalidTransition
  <2>2. QED
    BY <1>6, <2>1 DEF SaveAnswers, Complete, Return
<1>7. QED
  BY <1>3, <1>4, <1>5, <1>6 DEF Resume

LEMMA NextMetrics ==
  ASSUME TypeOK, NoInvalidTransition, MetricsBalance, [Next]_vars
  PROVE  MetricsBalance'
<1>0. metrics["total"] = metrics["completed"] + metrics["failed"] + Cardinality(Uncounted)
  BY DEF MetricsBalance, Uncounted
<1>t. /\ metrics["total"] \in Nat /\ metrics["completed"] \in Nat /\ metrics["failed"] \in Nat
      /\ Cardinality(Uncounted) \in Nat
  BY UncountedFinite DEF TypeOK, Counters
<1> DEFINE Goal == metrics'["total"] = metrics'["completed"] + metrics'["failed"]
                                       + Cardinality(Uncounted')
<1>s. SUFFICES Goal
  BY DEF MetricsBalance, Uncounted
<1>a. ASSUME metrics' = metrics, Uncounted' = Uncounted
      PROVE  Goal
  BY <1>0, <1>a
<1> USE DEF TypeOK
<1>1. ASSUME NEW e \in Executions, Call(e)
      PROVE  Goal
  <2>1. CASE ExecuteIntent(e)
    <3>1. Uncounted' = Uncounted \cup {e} /\ e \notin Uncounted
      BY <2>1 DEF ExecuteIntent, Uncounted, Awaiting
    <3>2. Cardinality(Uncounted') = Cardinality(Uncounted) + 1
      BY <3>1, UncountedFinite, FS_AddElement
    <3>3. /\ metrics'["total"] = metrics["total"] + 1
          /\ metrics'["completed"] = metrics["completed"] /\ metrics'["failed"] = metrics["failed"]
      BY <2>1 DEF ExecuteIntent, Bump, Counters
    <3>4. QED
      BY <1>0, <1>t, <3>2, <3>3
  <2>2. CASE ~ExecuteIntent(e)
    <3>1. /\ pc[e] = "idle"
          /\ \E outcome \in {"returned", "raised"} : pc' = [pc EXCEPT ![e] = outcome]
          /\ metrics' = Bump({}) \/ metrics' = Bump({"rejected"})
      BY <1>1, <2>2 DEF Call, DenyWithoutContext, RaiseLimitExceeded, DenyConcurrent, DenyRate,
                        DenyShutdown, Refuse
    <3>2. Uncounted' = Uncounted
      BY <3>1 DEF Uncounted, Awaiting
    <3>3. /\ metrics'["total"] = metrics["total"]
          /\ metrics'["completed"] = metrics["completed"] /\ metrics'["failed"] = metrics["failed"]
      BY <3>1 DEF Bump, Counters
    <3>4. QED
      BY <1>0, <3>2, <3>3
  <2>3. QED
    BY <2>1, <2>2
<1>2. ASSUME NEW e \in Executions, Resume(e)
      PROVE  Goal
  <2>0. /\ pc[e] \in Awaiting /\ e \in Uncounted
        /\ \/ \E a \in Awaiting : pc' = [pc EXCEPT ![e] = a]
           \/ pc' = [pc EXCEPT ![e] = "returned"]
    BY <1>2, ResumeEffect DEF MovesOn, Ends, Uncounted
  <2>1. CASE metrics' = metrics /\ pc'[e] # "returned"
    <3>1. Uncounted' = Uncounted
      BY <2>0, <2>1 DEF Uncounted
    <3>2. QED
      BY <1>a, <2>1, <3>1
  <2>2. CASE metrics' \in {Bump({"completed"}), Bump({"failed"})} /\ pc'[e] = "returned"
    <3>1. Uncounted' = Uncounted \ {e}
      BY <2>0, <2>2 DEF Uncounted, Awaiting
    <3>2. Cardinality(Uncounted') = Cardinality(Uncounted) - 1
      BY <2>0, <3>1, UncountedFinite, FS_RemoveElement
    <3>3. /\ metrics'["total"] = metrics["total"]
          /\ metrics'["completed"] + metrics'["failed"]
               = metrics["completed"] + metrics["failed"] + 1
      <4>1. CASE metrics' = Bump({"completed"})
        BY <1>t, <4>1 DEF Bump, Counters
      <4>2. CASE metrics' = Bump({"failed"})
        BY <1>t, <4>2 DEF Bump, Counters
      <4>3. QED
        BY <2>2, <4>1, <4>2
    <3>4. QED
      BY <1>0, <1>t, <3>2, <3>3
  <2>3. QED
    BY <1>2, <2>1, <2>2, ResumeCounts
<1>3. ASSUME NEW e \in Executions, Cancel(e)
      PROVE  Goal
  <2>1. Uncounted' = Uncounted /\ metrics' = metrics
    BY <1>3 DEF Cancel, Uncounted
  <2>2. QED
    BY <1>a, <2>1
<1>4. CASE Admin
  BY <1>a, <1>4, AdminFrame DEF Uncounted
<1>5. CASE UNCHANGED vars
  BY <1>a, <1>5 DEF vars, calls, Uncounted
<1>6. QED
  BY <1>1, <1>2, <1>3, <1>4, <1>5 DEF Next

(* The metrics account for every execution that started, at every moment   *)
(* and whichever way executions end (runtime.py: the counters of           *)
(* execute_intent and _execute_quota_guarded).                             *)
THEOREM MetricsBalanceHolds == Spec => []MetricsBalance
<1>1. Init => MetricsBalance
  <2> SUFFICES ASSUME Init PROVE MetricsBalance
    OBVIOUS
  <2>1. Uncounted = {} /\ Cardinality(Uncounted) = 0
    BY FS_EmptySet DEF Init, Uncounted, Awaiting
  <2>2. \A c \in Counters : metrics[c] = 0
    BY DEF Init
  <2>3. QED
    BY <2>1, <2>2 DEF MetricsBalance, Uncounted, Counters
<1>2. IInv /\ MetricsBalance /\ [Next]_vars => MetricsBalance'
  BY NextMetrics DEF IInv
<1>3. QED
  BY <1>1, <1>2, Invariance, PTL DEF Spec

--------------------------------------------------------------------------------
(* The executions a tenant has in flight once e has started are bounded by *)
(* what the two admission checks compared.                                 *)
LEMMA StartWithinLimits ==
  ASSUME IInv, IInv', NEW e \in Executions, NEW t \in Tenants, ExecuteIntent(e), Of(e, t)'
  PROVE  /\ HasIsolation => Cardinality(InFlight(t)') <= tenants[t]
         /\ HasQuota => Cardinality(InFlight(t)') <= configs[t]
<1> USE DEF IInv, TypeOK, IsolationTypeOK, QuotaTypeOK
<1>1. tenant_context # NoContext /\ tenant = t
  BY DEF ExecuteIntent, Of, tenant
<1>2. InFlight(t)' \in SUBSET Executions
  BY DEF InFlight
<1>3. IsFiniteSet(InFlight(t)') /\ Cardinality(InFlight(t)') \in Nat
  BY <1>2, QuotaAssumption, FS_Subset, FS_CardinalityType
<1>4. ASSUME HasIsolation
      PROVE  Cardinality(InFlight(t)') <= tenants[t]
  <2>1. /\ tenants[t] \in Nat /\ execution_counts[t] < tenants[t]
        /\ execution_counts'[t] = execution_counts[t] + 1
    BY <1>1, <1>4, IsolationAssumption
    DEF ExecuteIntent, Charge, Charging, HasContext, WithinLimits, isolation_start
  <2>2. /\ InFlight(t)' \subseteq Charged(t)'
        /\ execution_counts'[t] = Cardinality(Charged(t)')
    BY <1>4 DEF CountCoversInFlight
  <2>3. Charged(t)' \in SUBSET Executions
    BY DEF Charged
  <2>4. IsFiniteSet(Charged(t)')
    BY <2>3, QuotaAssumption, FS_Subset
  <2>5. Cardinality(InFlight(t)') <= Cardinality(Charged(t)')
    BY <2>2, <2>4, FS_Subset
  <2>6. QED
    BY <1>3, <2>1, <2>2, <2>5
<1>5. ASSUME HasQuota
      PROVE  Cardinality(InFlight(t)') <= configs[t]
  <2>1. /\ concurrent'[t] = concurrent[t] \cup {e}
        /\ Cardinality(concurrent[t]) < configs[t]
    BY <1>1, <1>5 DEF ExecuteIntent, Quotaed, HasContext, quota_start, check_concurrent
  <2>2. InFlight(t)' \subseteq concurrent'[t]
    BY <1>5 DEF QuotaSlotsAreInFlight, InFlight
  <2>3. IsFiniteSet(concurrent[t]) /\ Cardinality(concurrent[t]) \in Nat
    <3>1. concurrent[t] \in SUBSET Executions
      OBVIOUS
    <3>2. QED
      BY <3>1, QuotaAssumption, FS_Subset, FS_CardinalityType
  <2>4. /\ IsFiniteSet(concurrent'[t])
        /\ Cardinality(concurrent'[t]) <= Cardinality(concurrent[t]) + 1
        /\ Cardinality(concurrent'[t]) \in Nat
    <3>1. /\ IsFiniteSet(concurrent[t] \cup {e})
          /\ Cardinality(concurrent[t] \cup {e}) =
                IF e \in concurrent[t] THEN Cardinality(concurrent[t])
                                      ELSE Cardinality(concurrent[t]) + 1
      BY <2>3, FS_AddElement
    <3>2. QED
      BY <2>1, <2>3, <3>1
  <2>5. Cardinality(InFlight(t)') <= Cardinality(concurrent'[t])
    BY <2>2, <2>4, FS_Subset
  <2>6. configs[t] \in Nat
    BY QuotaAssumption
  <2>7. QED
    BY <1>3, <2>1, <2>3, <2>4, <2>5, <2>6
<1>6. QED
  BY <1>4, <1>5

(* Whoever goes from idle to an await in a step has started in it.         *)
LEMMA OnlyExecuteStarts ==
  ASSUME IInv, [Next]_vars, NEW e \in Executions, pc[e] = "idle", pc'[e] \in Awaiting
  PROVE  ExecuteIntent(e)
<1> USE DEF IInv, TypeOK
<1>1. ASSUME NEW d \in Executions, Call(d)
      PROVE  ExecuteIntent(e)
  <2>1. ~ExecuteIntent(d) => \E outcome \in {"returned", "raised"} : pc' = [pc EXCEPT ![d] = outcome]
    BY <1>1 DEF Call, DenyWithoutContext, RaiseLimitExceeded, DenyConcurrent, DenyRate,
                DenyShutdown, Refuse
  <2>2. ExecuteIntent(d) => pc' = [pc EXCEPT ![d] = "policy"]
    BY DEF ExecuteIntent
  <2>3. QED
    BY <2>1, <2>2 DEF Awaiting
<1>2. ASSUME NEW d \in Executions, Resume(d)
      PROVE  FALSE
  BY <1>2, ResumeEffect DEF MovesOn, Ends, Awaiting
<1>3. ASSUME NEW d \in Executions, Cancel(d)
      PROVE  FALSE
  BY <1>3 DEF Cancel, Awaiting
<1>4. CASE Admin
  BY <1>4, AdminFrame DEF Awaiting
<1>5. CASE UNCHANGED vars
  BY <1>5 DEF vars, calls, Awaiting
<1>6. QED
  BY <1>1, <1>2, <1>3, <1>4, <1>5 DEF Next

(* No start takes a tenant over the limits in force.                       *)
THEOREM StartsWithinLimitsHolds == Spec => StartsWithinLimits
<1>1. ASSUME IInv, IInv', [Next]_vars
      PROVE  [\A e \in Executions, t \in Tenants :
                (pc[e] = "idle" /\ pc'[e] \in Awaiting /\ Of(e, t)') =>
                    /\ HasIsolation => Cardinality(InFlight(t)') <= tenants[t]
                    /\ HasQuota => Cardinality(InFlight(t)') <= configs[t]]_vars
  BY <1>1, OnlyExecuteStarts, StartWithinLimits
<1>2. QED
  BY <1>1, Invariance, PTL DEF Spec, StartsWithinLimits

(* A checkpoint names the tenant whose slot its execution holds.           *)
THEOREM CheckpointForSlotHolderHolds == Spec => CheckpointForSlotHolder
<1>1. ASSUME IInv, [Next]_vars
      PROVE  [\A e \in Executions :
                checkpoints'[e] # checkpoints[e] =>
                    /\ checkpoints[e] = NotSaved
                    /\ \A t \in Tenants :
                          HasQuota => (checkpoints'[e] = t <=> e \in concurrent[t])]_vars
  <2> USE DEF IInv, TypeOK
  <2>1. SUFFICES ASSUME NEW e \in Executions, checkpoints'[e] # checkpoints[e]
                 PROVE  /\ checkpoints[e] = NotSaved
                        /\ \A t \in Tenants :
                              HasQuota => (checkpoints'[e] = t <=> e \in concurrent[t])
    OBVIOUS
  <2>2. \E d \in Executions : StoreWrites(d)
    <3>1. \A d \in Executions : Call(d) => checkpoints' = checkpoints
      BY <1>1, CallEffect
    <3>2. ASSUME NEW d \in Executions, Resume(d)
          PROVE  StoreWrites(d) \/ checkpoints' = checkpoints
      <4>1. \A target : Fail(d, target) => checkpoints' = checkpoints
        BY DEF Fail
      <4>2. \A target, await : Proceed(d, target, await) => checkpoints' = checkpoints
        BY DEF Proceed
      <4>3. PolicyRejects(d) \/ CapabilityRejects(d) \/ RouterRaises(d) \/ GatewayFails(d)
            \/ SaveRaises(d) => checkpoints' = checkpoints
        BY <4>1 DEF PolicyRejects, CapabilityRejects, RouterRaises, GatewayFails, SaveRaises
      <4>4. PolicyAllows(d) \/ CapabilityAllows(d) \/ GatewayAnswers(d)
            => checkpoints' = checkpoints
        BY <4>2 DEF PolicyAllows, CapabilityAllows, GatewayAnswers
      <4>5. RouterAnswers(d) \/ SaveAnswers(d) => checkpoints' = checkpoints
        BY DEF RouterAnswers, SaveAnswers
      <4>6. QED
        BY <3>2, <4>3, <4>4, <4>5 DEF Resume
    <3>3. \A d \in Executions : Cancel(d) => checkpoints' = checkpoints
      BY DEF Cancel
    <3>4. Admin \/ UNCHANGED vars => checkpoints' = checkpoints
      BY AdminFrame DEF vars, calls
    <3>5. QED
      BY <1>1, <2>1, <3>1, <3>2, <3>3, <3>4 DEF Next
  <2>3. StoreWrites(e)
    BY <1>1, <2>1, <2>2 DEF StoreWrites
  <2>4. \A t \in Tenants : HasQuota => (e \in concurrent[t] <=> Of(e, t))
    BY <1>1, <2>3 DEF StoreWrites, QuotaSlotsAreInFlight, Awaiting
  <2>5. \A t \in Tenants : checkpoints'[e] = t <=> Of(e, t)
    <3>1. checkpoints'[e] = checkpoint_tenant(e)
      BY <1>1, <2>3 DEF StoreWrites
    <3>2. tenant_ctx[e] # NoContext => tenant_ctx[e].tenant_id \in Tenants
      BY <1>1 DEF Contexts
    <3>3. QED
      BY <3>1, <3>2, RuntimeAssumption DEF checkpoint_tenant, Of
  <2>6. QED
    BY <2>3, <2>4, <2>5 DEF StoreWrites
<1>2. QED
  BY <1>1, Invariance, PTL DEF Spec, CheckpointForSlotHolder

--------------------------------------------------------------------------------
(* Every step of the runtime is a step of the abstract lifecycle, or       *)
(* changes nothing of what the lifecycle shows.                            *)
LEMMA StepRefines ==
  ASSUME TypeOK, NoInvalidTransition, [Next]_vars
  PROVE  [Abs!LifecycleNext]_(Abs!lifecycleVars)
<1> USE DEF TypeOK, Abs!lifecycleVars
<1>0. lifeOf \in [Executions -> ExecutionState \cup {"none"}]
  BY DEF lifeOf
<1>1. ASSUME NEW e \in Executions, Call(e)
      PROVE  [Abs!LifecycleNext]_(Abs!lifecycleVars)
  <2>0. pc[e] = "idle" /\ state[e] = "CREATED" /\ runtime_state' = runtime_state
        /\ lifeOf[e] = "none"
    BY <1>1, CallEffect DEF NoInvalidTransition, lifeOf
  <2>1. CASE pc' = [pc EXCEPT ![e] = "policy"]
    <3>1. state' = [state EXCEPT ![e] = "VALIDATING"] /\ runtime_state = "RUNNING"
      BY <1>1, <2>1, CallEffect
    <3>2. lifeOf' = [lifeOf EXCEPT ![e] = "VALIDATING"]
      BY <2>1, <3>1 DEF lifeOf
    <3>3. QED
      BY <2>0, <3>1, <3>2 DEF Abs!LifecycleNext, Abs!Begin
  <2>2. CASE pc' = [pc EXCEPT ![e] = "returned"] /\ state' = state
    <3>1. lifeOf' = [lifeOf EXCEPT ![e] = "CREATED"]
      BY <2>0, <2>2 DEF lifeOf
    <3>2. QED
      BY <2>0, <3>1 DEF Abs!LifecycleNext, Abs!Refused
  <2>3. CASE pc' = [pc EXCEPT ![e] = "raised"] /\ state' = state
    <3>1. lifeOf' = lifeOf
      BY <2>0, <2>3 DEF lifeOf
    <3>2. QED
      BY <2>0, <3>1
  <2>4. QED
    BY <1>1, <2>1, <2>2, <2>3, CallEffect
<1>2. ASSUME NEW e \in Executions, Resume(e)
      PROVE  [Abs!LifecycleNext]_(Abs!lifecycleVars)
  <2>0. /\ pc[e] \in Awaiting /\ runtime_state' = runtime_state
        /\ lifeOf[e] = state[e] /\ state[e] \in ExecutionState \ {"CREATED"}
    BY <1>2, ResumeEffect DEF NoInvalidTransition, lifeOf, Awaiting, StateAt, ExecutionState
  <2>1. ASSUME NEW s \in ExecutionState, NEW p, p \notin {"idle", "raised"},
               pc' = [pc EXCEPT ![e] = p], state' = [state EXCEPT ![e] = s],
               s = state[e] \/ is_valid_transition(state[e], s)
        PROVE  [Abs!LifecycleNext]_(Abs!lifecycleVars)
    <3>1. lifeOf' = [lifeOf EXCEPT ![e] = s]
      BY <2>1 DEF lifeOf
    <3>2. CASE s = state[e]
      BY <1>0, <2>0, <3>1, <3>2
    <3>3. CASE is_valid_transition(state[e], s)
      <4>1. s \in Abs!VALID_TRANSITIONS[lifeOf[e]]
        BY <2>0, <3>3 DEF is_valid_transition, VALID_TRANSITIONS, Abs!VALID_TRANSITIONS
      <4>2. lifeOf[e] \in Abs!ExecutionState \ {"CREATED"}
        BY <2>0 DEF ExecutionState, Abs!ExecutionState
      <4>3. QED
        BY <2>0, <3>1, <4>1, <4>2 DEF Abs!LifecycleNext, Abs!Step
    <3>4. QED
      BY <2>1, <3>2, <3>3
  <2>2. CASE MovesOn(e)
    <3>1. PICK a \in Awaiting :
              /\ pc' = [pc EXCEPT ![e] = a]
              /\ state' = [state EXCEPT ![e] = StateAt[a]]
              /\ StateAt[a] = state[e] \/ is_valid_transition(state[e], StateAt[a])
      BY <2>2 DEF MovesOn
    <3>2. StateAt[a] \in ExecutionState /\ a \notin {"idle", "raised"}
      BY DEF StateAt, Awaiting, ExecutionState
    <3>3. QED
      BY <2>1, <3>1, <3>2
  <2>3. CASE Ends(e)
    <3>1. PICK s \in Terminal :
              /\ pc' = [pc EXCEPT ![e] = "returned"]
              /\ state' = [state EXCEPT ![e] = s]
              /\ is_valid_transition(state[e], s)
      BY <2>3 DEF Ends
    <3>2. s \in ExecutionState
      BY DEF Terminal, ExecutionState
    <3>3. QED
      BY <2>1, <3>1, <3>2
  <2>4. QED
    BY <1>2, <2>2, <2>3, ResumeEffect
<1>3. ASSUME NEW e \in Executions, Cancel(e)
      PROVE  UNCHANGED <<runtime_state, lifeOf>>
  BY <1>3 DEF Cancel, lifeOf, Awaiting
<1>4. CASE Admin
  <2>1. lifeOf' = lifeOf
    BY <1>4, AdminFrame DEF lifeOf
  <2>2. CASE drain \/ stop
    BY <2>1, <2>2 DEF drain, stop, Abs!LifecycleNext, Abs!Shutdown, RuntimeState
  <2>3. CASE ~(drain \/ stop)
    <3>1. runtime_state' = runtime_state
      BY <1>4, <2>3 DEF Admin, RegisterTenant, RegisterAgent, Configure, set_tenant_context
    <3>2. QED
      BY <2>1, <3>1
  <2>4. QED
    BY <2>2, <2>3
<1>5. CASE UNCHANGED vars
  BY <1>5 DEF vars, calls, lifeOf
<1>6. QED
  BY <1>1, <1>2, <1>3, <1>4, <1>5 DEF Next

(* The runtime implements the abstract lifecycle.                          *)
THEOREM LifecycleHolds == Spec => Lifecycle
<1>1. Init => Abs!LifecycleInit
  BY DEF Init, Abs!LifecycleInit, lifeOf
<1>2. IInv => TypeOK /\ NoInvalidTransition
  BY DEF IInv
<1>3. TypeOK /\ NoInvalidTransition /\ [Next]_vars => [Abs!LifecycleNext]_(Abs!lifecycleVars)
  BY StepRefines
<1>4. QED
  BY <1>1, <1>2, <1>3, Invariance, PTL DEF Spec, Lifecycle, Abs!LifecycleSpec

================================================================================
