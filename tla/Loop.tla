-------------------------------- MODULE Loop --------------------------------
(***************************************************************************)
(* LoopController (kernel/lifecycle.py) and the ExecutionBudget it spends  *)
(* (kernel/resources/budget.py).  Several asyncio tasks call run_intent or *)
(* run_multi_step of ONE controller.  A task runs without interruption     *)
(* until it awaits Runtime.execute_intent; the wall clock moves on its own *)
(* and may pass the time limit, or be set back before it, between any two  *)
(* reads of it, even two reads in the same run-to-completion segment.      *)
(*                                                                         *)
(* The runtime is used through its answer only: a completed execution with *)
(* its checkpoint, a failed one with an error text, or an exception.  The  *)
(* per-call EventLog, the logger and the metrics never influence control   *)
(* and never leave run_intent; they are left out.                          *)
(***************************************************************************)
EXTENDS Integers, FiniteSets, Sequences

CONSTANTS
  Runs,           \* the tasks that call the controller
  MaxIntents,     \* bound on the intents given to run_multi_step
  max_steps,
  max_tokens,
  Errors          \* error texts the runtime returns, as sets of words

ASSUME LoopAssumption ==
  /\ IsFiniteSet(Runs)
  /\ MaxIntents \in Nat
  /\ max_steps \in Nat
  /\ max_tokens \in Nat

VARIABLES
  loop_state,     \* LoopController._state
  current_steps,  \* ExecutionBudget.current_steps
  started,        \* started_at is set
  late,           \* the clock is more than timeout_seconds after started_at
  history,        \* LoopController._history: did the execution succeed?
  pc,             \* where each task stands
  multi,          \* the task is inside run_multi_step
  left,           \* intents the task has not begun
  results         \* the LoopResults the task has collected

budget == <<current_steps, started, late>>
task == <<pc, multi, left, results>>
vars == <<loop_state, budget, history, task>>

Reasons == {"COMPLETED", "POLICY_DENIED", "CAPABILITY_MISSING", "CAPABILITY_DENIED",
            "GATEWAY_FAILED", "TOOL_FAILED", "CHECKPOINT_FAILED", "ORCHESTRATION_FAILED",
            "BUDGET_EXHAUSTED", "TIMEOUT", "EXCEPTION"}

LoopResults ==
  [success : BOOLEAN, reason : Reasons, checkpoint : BOOLEAN, steps_executed : Nat]

TypeOK ==
  /\ loop_state \in {"RUNNING", "STOPPED"}
  /\ current_steps \in 0 .. max_steps
  /\ started \in BOOLEAN
  /\ late \in BOOLEAN
  /\ history \in Seq(BOOLEAN)
  /\ pc \in [Runs -> {"idle", "between", "calling", "executing", "done"}]
  /\ multi \in [Runs -> BOOLEAN]
  /\ left \in [Runs -> Nat]
  /\ results \in [Runs -> Seq(LoopResults)]

Init ==
  /\ loop_state = "RUNNING"
  /\ current_steps = 0
  /\ started = FALSE
  /\ late = FALSE
  /\ history = << >>
  /\ pc = [r \in Runs |-> "idle"]
  /\ multi = [r \in Runs |-> FALSE]
  /\ left = [r \in Runs |-> 0]
  /\ results = [r \in Runs |-> << >>]

-----------------------------------------------------------------------------
(* The budget.  The controller only ever calls consume_step(tokens=0), so  *)
(* tokens_consumed stays at its initial 0.                                 *)

tokens_consumed == 0

is_exhausted ==
  \/ current_steps >= max_steps
  \/ tokens_consumed >= max_tokens
  \/ late

\* Mutant: consume_step charges without looking.
consume_unchecked == TRUE

\* consume_step does not raise BudgetExhaustedError.
consume_allowed == ~is_exhausted

\* The clock passes started_at + timeout_seconds, or is set back before it:
\* is_timeout compares datetime.now(UTC), not a monotonic clock.
ClockMoves ==
  /\ started
  /\ late' = ~late
  /\ UNCHANGED <<loop_state, current_steps, started, history, task>>

-----------------------------------------------------------------------------
(* The controller.                                                         *)

\* A task that is not awaiting anything has the event loop for itself.
Scheduled(r) == \A q \in Runs \ {r} : pc[q] \notin {"between", "calling"}

\* _classify_failure: the tests of the code, in their order, on the words
\* the lower-cased error text contains; "denied!" and "rejected!" stand for
\* a text that is nothing but that word.
classify_failure(error) ==
  IF "policy" \in error \/ "denied!" \in error \/ "rejected!" \in error THEN "POLICY_DENIED"
  ELSE IF "capability" \in error
       THEN IF "not" \in error \/ "denied" \in error THEN "CAPABILITY_DENIED" ELSE "CAPABILITY_MISSING"
  ELSE IF "gateway" \in error THEN "GATEWAY_FAILED"
  ELSE IF "orchestration" \in error THEN "ORCHESTRATION_FAILED"
  ELSE IF "checkpoint" \in error THEN "CHECKPOINT_FAILED"
  ELSE IF "tool" \in error THEN "TOOL_FAILED"
  ELSE "EXCEPTION"

\* The results, with the steps charged by the time they are built.
Failed(reason) ==
  [success |-> FALSE, reason |-> reason, checkpoint |-> FALSE, steps_executed |-> current_steps']
Completed ==
  [success |-> TRUE, reason |-> "COMPLETED", checkpoint |-> TRUE, steps_executed |-> current_steps']

\* run_intent returns; run_multi_step collects the result and goes on to its
\* next intent unless this one failed.
Deliver(r, result) ==
  /\ results' = [results EXCEPT ![r] = Append(@, result)]
  /\ pc' = [pc EXCEPT ![r] =
              IF multi[r] /\ result.success /\ left'[r] > 0 THEN "between" ELSE "done"]

\* The calls: a task enters run_intent, or run_multi_step with some intents.
run_intent(r) ==
  /\ pc[r] = "idle"
  /\ Scheduled(r)
  /\ pc' = [pc EXCEPT ![r] = "calling"]
  /\ left' = [left EXCEPT ![r] = 1]
  /\ UNCHANGED <<loop_state, budget, history, multi, results>>

run_multi_step(r) ==
  /\ pc[r] = "idle"
  /\ Scheduled(r)
  /\ \E n \in 0 .. MaxIntents :
       /\ left' = [left EXCEPT ![r] = n]
       /\ pc' = [pc EXCEPT ![r] = IF n = 0 THEN "done" ELSE "between"]
  /\ multi' = [multi EXCEPT ![r] = TRUE]
  /\ UNCHANGED <<loop_state, budget, history, results>>

\* run_multi_step looks at the budget before each step and breaks, or calls
\* run_intent.
Break(r) ==
  /\ pc[r] = "between"
  /\ is_exhausted
  /\ pc' = [pc EXCEPT ![r] = "done"]
  /\ UNCHANGED <<loop_state, budget, history, multi, left, results>>

Continue(r) ==
  /\ pc[r] = "between"
  /\ ~is_exhausted
  /\ pc' = [pc EXCEPT ![r] = "calling"]
  /\ UNCHANGED <<loop_state, budget, history, multi, left, results>>

\* run_intent up to its await or its return.
Begin(r) ==
  /\ pc[r] = "calling"
  /\ left' = [left EXCEPT ![r] = @ - 1]
  /\ UNCHANGED <<loop_state, current_steps, history, multi>>

RefuseStopped(r) ==
  /\ Begin(r)
  /\ loop_state # "RUNNING"
  /\ Deliver(r, Failed("EXCEPTION"))
  /\ UNCHANGED <<started, late>>

RefuseExhausted(r) ==
  /\ Begin(r)
  /\ loop_state = "RUNNING"
  /\ is_exhausted
  /\ started' = TRUE
  /\ Deliver(r, Failed("BUDGET_EXHAUSTED"))
  /\ UNCHANGED late

\* _check_budget reads the clock twice: the limit passes in between.
RefuseTimeout(r) ==
  /\ Begin(r)
  /\ loop_state = "RUNNING"
  /\ ~is_exhausted
  /\ started' = TRUE
  /\ late' = TRUE
  /\ Deliver(r, Failed("TIMEOUT"))

Execute(r) ==
  /\ Begin(r)
  /\ loop_state = "RUNNING"
  /\ ~is_exhausted
  /\ started' = TRUE
  /\ pc' = [pc EXCEPT ![r] = "executing"]
  /\ UNCHANGED <<late, results>>

\* Mutant: run_intent returns the result without consume_step.
TrackWithoutCharge(r, succeeded, result) ==
  /\ pc[r] = "executing"
  /\ Scheduled(r)
  /\ history' = Append(history, succeeded)
  /\ left' = left
  /\ UNCHANGED <<loop_state, budget, multi>>
  /\ Deliver(r, result)

\* execute_intent answered: the result enters the history, then a step is
\* consumed; when the budget is exhausted by then, BudgetExhaustedError ends
\* in the generic handler and the result is dropped.
Track(r, succeeded, result) ==
  /\ pc[r] = "executing"
  /\ Scheduled(r)
  /\ history' = Append(history, succeeded)
  /\ left' = left
  /\ IF consume_allowed
     THEN /\ current_steps' = current_steps + 1
          /\ Deliver(r, result)
     ELSE /\ current_steps' = current_steps
          /\ Deliver(r, Failed("EXCEPTION"))
  /\ UNCHANGED <<loop_state, started, late, multi>>

RuntimeCompletes(r) == Track(r, TRUE, Completed)

RuntimeFails(r) ==
  \E error \in Errors : Track(r, FALSE, Failed(classify_failure(error)))

RuntimeRaises(r) ==
  /\ pc[r] = "executing"
  /\ Scheduled(r)
  /\ left' = left
  /\ UNCHANGED <<loop_state, budget, history, multi>>
  /\ Deliver(r, Failed("EXCEPTION"))

\* The task is cancelled while it awaits the runtime: CancelledError is not
\* an Exception, so no handler of run_intent runs.
Cancel(r) ==
  /\ pc[r] = "executing"
  /\ Scheduled(r)
  /\ pc' = [pc EXCEPT ![r] = "done"]
  /\ UNCHANGED <<loop_state, budget, history, multi, left, results>>

shutdown ==
  /\ \A r \in Runs : Scheduled(r)
  /\ loop_state = "RUNNING"
  /\ loop_state' = "STOPPED"
  /\ UNCHANGED <<budget, history, task>>

Resume(r) == RuntimeCompletes(r) \/ RuntimeFails(r) \/ RuntimeRaises(r)
Advance(r) ==
  \/ Break(r) \/ Continue(r)
  \/ RefuseStopped(r) \/ RefuseExhausted(r) \/ RefuseTimeout(r) \/ Execute(r)

\* Every task has returned: nothing more can happen.
Done ==
  /\ \A r \in Runs : pc[r] = "done"
  /\ UNCHANGED vars

Next ==
  \/ \E r \in Runs : run_intent(r) \/ run_multi_step(r) \/ Advance(r) \/ Resume(r) \/ Cancel(r)
  \/ ClockMoves
  \/ shutdown
  \/ Done

Spec == Init /\ [][Next]_vars

-----------------------------------------------------------------------------
(* Properties.                                                             *)

Successes(r) == {i \in DOMAIN results[r] : results[r][i].success}

\* Some task was refused with a result that reports every step as used.
ToldStepsGone ==
  \E r \in Runs : \E i \in DOMAIN results[r] :
    results[r][i].reason = "BUDGET_EXHAUSTED" /\ results[r][i].steps_executed = max_steps

\* Nobody overspends the budget by racing: a task is told of success only
\* for a step that consume_step has charged, so all successes together never
\* exceed the charged steps, and these never exceed max_steps
\* (lifecycle.py:219 checks before the await, lifecycle.py:263 after it).
SuccessesAreCharged ==
  LET told == UNION {{<<r, i>> : i \in Successes(r)} : r \in Runs}
  IN  /\ Cardinality(told) <= current_steps
      /\ current_steps <= max_steps

\* Concurrent tasks that passed the budget check before it was exhausted
\* still execute, but at most one execution per task escapes the charge.
OverrunBounded == Len(history) <= current_steps + Cardinality(Runs)

\* The steps, once used up, are used up for good: after some task was told
\* BUDGET_EXHAUSTED with all max_steps steps executed, no task is told of
\* success, not even one whose execution was already under way, whatever the
\* clock does (a refusal for the time limit alone is not final: the clock
\* may be set back, budget.py:66).
ExhaustionIsFinal ==
  [][ToldStepsGone => \A r \in Runs : Successes(r)' = Successes(r)]_vars
=============================================================================
