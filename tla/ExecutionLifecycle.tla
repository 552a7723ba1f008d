--------------------------- MODULE ExecutionLifecycle ---------------------------
(***************************************************************************)
(* What the runtime promises of the life of executions, without saying     *)
(* how: an execution begins only while the runtime is RUNNING, moves along *)
(* the transitions kernel/state.py allows, one at a time, and never leaves *)
(* a terminal state; a call that is refused never begins.  The runtime     *)
(* itself only moves forward, RUNNING to DRAINING to STOPPED.              *)
(***************************************************************************)
EXTENDS ExecutionStates

CONSTANT Executions

VARIABLES
    mode,   \* the runtime's own state
    life    \* "none" before the call, then the state of the execution

lifecycleVars == <<mode, life>>

LifecycleInit ==
    /\ mode = "RUNNING"
    /\ life = [e \in Executions |-> "none"]

Begin(e) ==
    /\ mode = "RUNNING"
    /\ life[e] = "none"
    /\ life' = [life EXCEPT ![e] = "VALIDATING"]
    /\ UNCHANGED mode

Refused(e) ==
    /\ life[e] = "none"
    /\ life' = [life EXCEPT ![e] = "CREATED"]
    /\ UNCHANGED mode

Step(e) ==
    /\ life[e] \in ExecutionState \ {"CREATED"}
    /\ \E s \in VALID_TRANSITIONS[life[e]] : life' = [life EXCEPT ![e] = s]
    /\ UNCHANGED mode

Shutdown ==
    /\ \/ mode = "RUNNING" /\ mode' = "DRAINING"
       \/ mode \in {"RUNNING", "DRAINING"} /\ mode' = "STOPPED"
    /\ UNCHANGED life

LifecycleNext ==
    \/ \E e \in Executions : Begin(e) \/ Refused(e) \/ Step(e)
    \/ Shutdown

LifecycleSpec == LifecycleInit /\ [][LifecycleNext]_lifecycleVars

================================================================================
