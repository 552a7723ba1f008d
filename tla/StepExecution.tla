--------------------------- MODULE StepExecution ---------------------------
(***************************************************************************)
(* The control plane's view of one agent execution: ExecutionStateMachine  *)
(* (control_plane/orchestrator/state_machine.py), the LifecycleManager     *)
(* that users start, stop, pause and resume it with (control_plane/        *)
(* lifecycle/manager.py), the StepCoordinator that plans steps             *)
(* (orchestrator/coordinator.py), and RuntimeExecutorAdapter.              *)
(* plan_and_execute (adapters/to_runtime/runtime.py) that runs them on an  *)
(* ExecutionRuntime (kernel/execution/in_memory.py).                       *)
(*                                                                         *)
(* Drivers call plan_and_execute with whatever step, budget and tools they *)
(* have; a step awaits the runtime, and users go on in the meantime.       *)
(* Amounts of budget are in halves, since budget_remaining is a float that *)
(* the adapter truncates with int().                                       *)
(***************************************************************************)
EXTENDS Integers, Sequences, FiniteSets

CONSTANTS
  Drivers,
  coordinator_max_steps,  \* max_steps of the StepCoordinator
  MaxBudget,              \* in halves
  MaxHistory,             \* bound on the transitions of a behaviour
  Idle                    \* no step

ASSUME StepAssumption ==
  /\ coordinator_max_steps \in Nat
  /\ MaxBudget \in Nat
  /\ MaxHistory \in Nat

VARIABLES
  status,        \* ExecutionStateMachine._current_state
  transitions,   \* _history: pairs <<from_state, to_state>>
  starting,      \* start_execution awaits the agent registry
  step,          \* the step each driver awaits, or Idle
  response,      \* the last answer each driver got
  checkpoints    \* versions saved by the runtime

stepVars == <<status, transitions, starting, step, response, checkpoints>>

ExecutionStatus == {"PENDING", "RUNNING", "PAUSED", "RESUMING", "COMPLETED", "FAILED"}

\* Mutant: a failed execution may be started again.
TransitionsWithRestart ==
  [PENDING |-> {"RUNNING", "FAILED"}, RUNNING |-> {"PAUSED", "COMPLETED", "FAILED"},
   PAUSED |-> {"RESUMING", "FAILED"}, RESUMING |-> {"RUNNING", "FAILED"},
   COMPLETED |-> {}, FAILED |-> {"RUNNING"}]

LEGAL_TRANSITIONS ==
  [PENDING |-> {"RUNNING", "FAILED"}, RUNNING |-> {"PAUSED", "COMPLETED", "FAILED"},
   PAUSED |-> {"RESUMING", "FAILED"}, RESUMING |-> {"RUNNING", "FAILED"},
   COMPLETED |-> {}, FAILED |-> {}]

Terminal == {"COMPLETED", "FAILED"}

Steps == 0 .. coordinator_max_steps
Executable == 0 .. coordinator_max_steps - 1  \* the steps the coordinator lets run
Responses == {"NONE", "COMPLETED", "FAILED", "PAUSE_FOR_APPROVAL", "COMPLETE", "RAISED"}

StepTypeOK ==
  /\ status \in ExecutionStatus
  /\ transitions \in Seq(ExecutionStatus \X ExecutionStatus)
  /\ starting \in BOOLEAN
  /\ step \in [Drivers -> Executable \cup {Idle}]
  /\ response \in [Drivers -> Responses]
  /\ checkpoints \subseteq Executable

StepInit ==
  /\ status = "PENDING"
  /\ transitions = << >>
  /\ starting = FALSE
  /\ step = [d \in Drivers |-> Idle]
  /\ response = [d \in Drivers |-> "NONE"]
  /\ checkpoints = {}

-----------------------------------------------------------------------------
(* The state machine.                                                      *)

can_transition(from, target) == target \in LEGAL_TRANSITIONS[from]

\* Mutant: the state is assigned, the record is forgotten.
transition_unrecorded(targets) ==
  /\ status' = targets[Len(targets)]
  /\ transitions' = transitions

\* transition, for one target or for two in a row.
transition(targets) ==
  /\ status' = targets[Len(targets)]
  /\ transitions' = transitions \o [i \in 1 .. Len(targets) |->
                                      <<IF i = 1 THEN status ELSE targets[i - 1], targets[i]>>]

\* The bound on history: users do not go on for ever.
MayGoOn == Len(transitions) < MaxHistory

-----------------------------------------------------------------------------
(* LifecycleManager.                                                       *)

\* start_execution: the registry is awaited ...
start_execution ==
  /\ ~starting
  /\ MayGoOn
  /\ starting' = TRUE
  /\ UNCHANGED <<status, transitions, step, response, checkpoints>>

\* ... and has no such instance (AgentInstanceNotFoundError) ...
StartRaises ==
  /\ starting
  /\ starting' = FALSE
  /\ UNCHANGED <<status, transitions, step, response, checkpoints>>

\* ... or has: the id is returned, started or not.
StartReturns ==
  /\ starting
  /\ starting' = FALSE
  /\ IF can_transition(status, "RUNNING")
     THEN transition(<<"RUNNING">>) ELSE UNCHANGED <<status, transitions>>
  /\ UNCHANGED <<step, response, checkpoints>>

stop_execution ==
  /\ status \notin Terminal
  /\ can_transition(status, "FAILED")
  /\ transition(<<"FAILED">>)
  /\ UNCHANGED <<starting, step, response, checkpoints>>

pause_execution ==
  /\ MayGoOn
  /\ can_transition(status, "PAUSED")
  /\ transition(<<"PAUSED">>)
  /\ UNCHANGED <<starting, step, response, checkpoints>>

\* resume_execution: RESUMING if that is legal, then RUNNING if that is.
resume_execution ==
  /\ MayGoOn
  /\ \/ /\ can_transition(status, "RESUMING")
        /\ can_transition("RESUMING", "RUNNING")
        /\ transition(<<"RESUMING", "RUNNING">>)
     \/ /\ ~can_transition(status, "RESUMING")
        /\ can_transition(status, "RUNNING")
        /\ transition(<<"RUNNING">>)
  /\ UNCHANGED <<starting, step, response, checkpoints>>

-----------------------------------------------------------------------------
(* StepCoordinator and RuntimeExecutorAdapter.                             *)

\* plan_step.  The reason of the two COMPLETE plans is left out.
plan_step(n, budget, has_tools) ==
  IF n >= coordinator_max_steps THEN "COMPLETE"
  ELSE IF budget <= 0 THEN "PAUSE_FOR_APPROVAL"
  ELSE IF ~has_tools THEN "COMPLETE"
  ELSE "EXECUTE"

\* int(budget_remaining)
whole(budget) == budget \div 2

\* with_step_number, with_budget and build of the ContextBuilder: what the
\* runtime looks at of the context it gets.
build(n, budget) == [step_number |-> n, budget_remaining |-> whole(budget)]

\* Mutant: a failed step does not reach the state machine.
FailQuietly(d) ==
  /\ response' = [response EXCEPT ![d] = "FAILED"]
  /\ step' = [step EXCEPT ![d] = Idle]
  /\ UNCHANGED <<status, transitions, starting>>

\* A step failed: the state machine goes to FAILED if it can.
Fail(d) ==
  /\ IF can_transition(status, "FAILED")
     THEN transition(<<"FAILED">>) ELSE UNCHANGED <<status, transitions>>
  /\ response' = [response EXCEPT ![d] = "FAILED"]
  /\ step' = [step EXCEPT ![d] = Idle]
  /\ UNCHANGED starting

\* plan_and_execute, up to the await of the runtime.
Plan(d, n, budget, has_tools) ==
  /\ step[d] = Idle
  /\ plan_step(n, budget, has_tools) # "EXECUTE"
  /\ response' = [response EXCEPT ![d] = plan_step(n, budget, has_tools)]
  /\ UNCHANGED <<status, transitions, starting, step, checkpoints>>

\* ContextBuilder refuses an empty execution or agent id: the ValueError
\* leaves execute_step before its try, and the state machine hears nothing.
BuildRaises(d, n, budget) ==
  /\ step[d] = Idle
  /\ plan_step(n, budget, TRUE) = "EXECUTE"
  /\ response' = [response EXCEPT ![d] = "RAISED"]
  /\ UNCHANGED <<status, transitions, starting, step, checkpoints>>

\* The runtime checks the truncated budget before anything else.
ExecuteWithoutBudget(d, n, budget) ==
  /\ step[d] = Idle
  /\ plan_step(n, budget, TRUE) = "EXECUTE"
  /\ build(n, budget).budget_remaining <= 0
  /\ Fail(d)
  /\ UNCHANGED checkpoints

ExecuteStep(d, n, budget) ==
  /\ step[d] = Idle
  /\ plan_step(n, budget, TRUE) = "EXECUTE"
  /\ build(n, budget).budget_remaining > 0
  /\ step' = [step EXCEPT ![d] = build(n, budget).step_number]
  /\ UNCHANGED <<status, transitions, starting, response, checkpoints>>

plan_and_execute(d) ==
  \E n \in Steps, budget \in 0 .. MaxBudget :
    \/ \E has_tools \in BOOLEAN : Plan(d, n, budget, has_tools)
    \/ BuildRaises(d, n, budget)
    \/ ExecuteWithoutBudget(d, n, budget)
    \/ ExecuteStep(d, n, budget)

\* The runtime has saved its checkpoint, version = step number, and answers.
StepCompletes(d) ==
  /\ step[d] # Idle
  /\ checkpoints' = checkpoints \cup {step[d]}
  /\ response' = [response EXCEPT ![d] = "COMPLETED"]
  /\ step' = [step EXCEPT ![d] = Idle]
  /\ UNCHANGED <<status, transitions, starting>>

\* The runtime raises (an invalid request, a checkpoint that could not be
\* saved) or answers FAILED.
StepFails(d) ==
  /\ step[d] # Idle
  /\ Fail(d)
  /\ UNCHANGED checkpoints

StepNext ==
  \/ start_execution \/ StartRaises \/ StartReturns
  \/ stop_execution \/ pause_execution \/ resume_execution
  \/ \E d \in Drivers : plan_and_execute(d) \/ StepCompletes(d) \/ StepFails(d)

StepSpec == StepInit /\ [][StepNext]_stepVars

-----------------------------------------------------------------------------
(* Properties.                                                             *)

\* A stopped or failed execution stays so: no start, resume, pause or late
\* answer of a step that was under way revives it.
TerminalIsFinal == [][(status \in Terminal) => status' = status]_stepVars

\* The history explains the state: it is a chain of legal transitions from
\* PENDING to the current state, whoever made them in whatever order
\* ("single source of truth for all transitions", state_machine.py:1).
HistoryExplains ==
  LET state(i) == IF i = 0 THEN "PENDING" ELSE transitions[i][2]
  IN  /\ state(Len(transitions)) = status
      /\ \A i \in DOMAIN transitions :
           transitions[i][1] = state(i - 1) /\ can_transition(transitions[i][1], transitions[i][2])

\* A step that failed fails its execution, also when a user paused it or
\* has not even started it while the step was under way.
FailedStepFails ==
  \A d \in Drivers : response[d] = "FAILED" => status \in Terminal
=============================================================================
