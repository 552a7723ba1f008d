------------------------ MODULE OrchestrationProofs -------------------------
(***************************************************************************)
(* Theorems about the two parts that drive executions step by step: Loop   *)
(* (the loop controller and its budget), for every number of tasks, of     *)
(* intents per task and of steps and tokens in the budget, and, in the     *)
(* last section, StepExecution (the state machine of one execution with    *)
(* its users and drivers), for every number of drivers and of steps.       *)
(***************************************************************************)
EXTENDS Loop, StepExecution, FiniteSetTheorems, TLAPS

-----------------------------------------------------------------------------
(* Type correctness, and how the steps of the controller move its state.   *)

\* _classify_failure names a reason.
LEMMA ClassifiedReason ==
  ASSUME NEW error
  PROVE  classify_failure(error) \in Reasons
BY DEF classify_failure, Reasons

\* A delivered result is appended to what the task has collected, and a task
\* whose result is a failure is done.
LEMMA DeliverType ==
  ASSUME TypeOK, NEW r \in Runs, NEW result \in LoopResults,
         left' \in [Runs -> Nat], Deliver(r, result)
  PROVE  /\ results' \in [Runs -> Seq(LoopResults)]
         /\ results' = [results EXCEPT ![r] = Append(results[r], result)]
         /\ pc' \in [Runs -> {"idle", "between", "calling", "executing", "done"}]
         /\ \A q \in Runs \ {r} : pc'[q] = pc[q]
         /\ pc'[r] \in {"between", "done"}
         /\ ~result.success => pc'[r] = "done"
         /\ pc'[r] = "between" => left'[r] > 0
<1>1. results' = [results EXCEPT ![r] = Append(results[r], result)]
  BY DEF Deliver
<1>2. pc' = [pc EXCEPT ![r] = IF multi[r] /\ result.success /\ left'[r] > 0 THEN "between" ELSE "done"]
  BY DEF Deliver
<1>3. result.success \in BOOLEAN /\ multi[r] \in BOOLEAN
  BY DEF LoopResults, TypeOK
<1>4. results[r] \in Seq(LoopResults)
  BY DEF TypeOK
<1>5. results' \in [Runs -> Seq(LoopResults)]
  BY <1>1, <1>4 DEF TypeOK
<1>6. /\ pc' \in [Runs -> {"idle", "between", "calling", "executing", "done"}]
      /\ \A q \in Runs \ {r} : pc'[q] = pc[q]
      /\ pc'[r] = IF multi[r] /\ result.success /\ left'[r] > 0 THEN "between" ELSE "done"
  BY <1>2 DEF TypeOK
<1> QED
  BY <1>1, <1>3, <1>5, <1>6

\* The results report the steps charged by the time they are built.
LEMMA ResultTypes ==
  ASSUME current_steps' \in Nat
  PROVE  /\ Completed \in LoopResults
         /\ Completed.steps_executed = current_steps'
         /\ \A reason \in Reasons : /\ Failed(reason) \in LoopResults
                                   /\ ~Failed(reason).success
                                   /\ Failed(reason).steps_executed = current_steps'
BY DEF Completed, Failed, LoopResults, Reasons

\* run_intent is entered with an intent left to begin, so that `left` never
\* goes below zero.
LoopTyped ==
  /\ TypeOK
  /\ \A r \in Runs : pc[r] \in {"between", "calling"} => left[r] > 0

\* What a step may do to the results, the history and the charged steps:
\* nothing, or one task gets a failure for which nothing was executed, a
\* result that is charged, or a failure in place of a result that could not
\* be charged any more.
DoneRuns == {r \in Runs : pc[r] = "done"}

Quiet == UNCHANGED <<results, history, current_steps>>

Gets(r, result) ==
  /\ results' = [results EXCEPT ![r] = Append(results[r], result)]
  /\ result.steps_executed = current_steps'

Refused(r, result) ==
  /\ Gets(r, result)
  /\ ~result.success
  /\ UNCHANGED <<history, current_steps>>

Charged(r, result) ==
  /\ Gets(r, result)
  /\ ~is_exhausted
  /\ Len(history') = Len(history) + 1
  /\ current_steps' = current_steps + 1

Dropped(r, result) ==
  /\ Gets(r, result)
  /\ ~result.success
  /\ Len(history') = Len(history) + 1
  /\ UNCHANGED current_steps
  /\ r \notin DoneRuns
  /\ r \in DoneRuns'

StepShape ==
  /\ LoopTyped'
  /\ DoneRuns \subseteq DoneRuns'
  /\ \/ Quiet
     \/ \E r \in Runs, result \in LoopResults :
          Refused(r, result) \/ Charged(r, result) \/ Dropped(r, result)

LEMMA EnterShape ==
  ASSUME LoopTyped, NEW r \in Runs, run_intent(r) \/ run_multi_step(r) \/ Break(r) \/ Continue(r)
  PROVE  StepShape
<1> USE LoopAssumption DEF LoopTyped
<1>1. /\ UNCHANGED <<loop_state, current_steps, started, late, history, results>>
      /\ pc[r] # "done"
      /\ \A q \in Runs \ {r} : pc'[q] = pc[q] /\ left'[q] = left[q]
      /\ pc' \in [Runs -> {"idle", "between", "calling", "executing", "done"}]
      /\ left' \in [Runs -> Nat]
      /\ multi' \in [Runs -> BOOLEAN]
      /\ pc'[r] \in {"between", "calling"} => left'[r] > 0
  <2>1. CASE run_intent(r)
    BY <2>1 DEF run_intent, TypeOK, budget
  <2>2. CASE run_multi_step(r)
    <3>1. PICK n \in 0 .. MaxIntents :
             /\ left' = [left EXCEPT ![r] = n]
             /\ pc' = [pc EXCEPT ![r] = IF n = 0 THEN "done" ELSE "between"]
      BY <2>2 DEF run_multi_step
    <3> QED
      BY <2>2, <3>1 DEF run_multi_step, TypeOK, budget
  <2>3. CASE Break(r)
    BY <2>3 DEF Break, TypeOK, budget
  <2>4. CASE Continue(r)
    BY <2>4 DEF Continue, TypeOK, budget
  <2> QED
    BY <2>1, <2>2, <2>3, <2>4
<1>2. LoopTyped'
  BY <1>1 DEF TypeOK
<1>3. DoneRuns \subseteq DoneRuns'
  BY <1>1 DEF DoneRuns
<1> QED
  BY <1>1, <1>2, <1>3 DEF StepShape, Quiet

LEMMA RefuseShape ==
  ASSUME LoopTyped, NEW r \in Runs,
         RefuseStopped(r) \/ RefuseExhausted(r) \/ RefuseTimeout(r)
  PROVE  StepShape
<1> USE LoopAssumption DEF LoopTyped
<1>1. Begin(r)
  BY DEF RefuseStopped, RefuseExhausted, RefuseTimeout
<1>2. /\ UNCHANGED <<loop_state, current_steps, history, multi>>
      /\ left' \in [Runs -> Nat]
      /\ \A q \in Runs \ {r} : left'[q] = left[q]
      /\ pc[r] = "calling"
  BY <1>1 DEF Begin, TypeOK
<1>3. started' \in BOOLEAN /\ late' \in BOOLEAN
  BY DEF RefuseStopped, RefuseExhausted, RefuseTimeout, TypeOK
<1>4. PICK reason \in Reasons : Deliver(r, Failed(reason))
  BY DEF RefuseStopped, RefuseExhausted, RefuseTimeout, Reasons
<1> DEFINE result == Failed(reason)
<1>5. /\ result \in LoopResults
      /\ ~result.success
      /\ result.steps_executed = current_steps'
  BY <1>2, ResultTypes DEF TypeOK
<1>6. Deliver(r, result)
  BY <1>4
<1> HIDE DEF result
<1>7. /\ results' \in [Runs -> Seq(LoopResults)]
      /\ Gets(r, result)
      /\ pc' \in [Runs -> {"idle", "between", "calling", "executing", "done"}]
      /\ \A q \in Runs \ {r} : pc'[q] = pc[q]
      /\ pc'[r] = "done"
  BY <1>2, <1>5, <1>6, DeliverType DEF Gets
<1>8. LoopTyped'
  BY <1>2, <1>3, <1>7 DEF TypeOK
<1>9. DoneRuns \subseteq DoneRuns'
  BY <1>2, <1>7 DEF DoneRuns
<1>10. Refused(r, result)
  BY <1>2, <1>5, <1>7 DEF Refused
<1> QED
  BY <1>5, <1>8, <1>9, <1>10 DEF StepShape

LEMMA TrackedSteps ==
  ASSUME LoopTyped, NEW r, NEW succeeded, NEW answer, Track(r, succeeded, answer)
  PROVE  current_steps' \in Nat
BY LoopAssumption DEF LoopTyped, TypeOK, Track

\* The answer of the runtime.
LEMMA TrackShape ==
  ASSUME LoopTyped, NEW r \in Runs, NEW succeeded \in BOOLEAN, NEW answer \in LoopResults,
         answer.steps_executed = current_steps', Track(r, succeeded, answer)
  PROVE  StepShape
<1> USE LoopAssumption DEF LoopTyped
<1>1. /\ pc[r] = "executing"
      /\ history' = Append(history, succeeded)
      /\ left' = left
      /\ UNCHANGED <<loop_state, started, late, multi>>
  BY DEF Track
<1>2. history' \in Seq(BOOLEAN) /\ Len(history') = Len(history) + 1
  BY <1>1 DEF TypeOK
<1>3. PICK result \in LoopResults :
         /\ Deliver(r, result)
         /\ result.steps_executed = current_steps'
         /\ \/ ~is_exhausted /\ current_steps' = current_steps + 1
            \/ ~result.success /\ current_steps' = current_steps
  <2>1. CASE consume_allowed
    BY <2>1 DEF Track, consume_allowed
  <2>2. CASE ~consume_allowed
    <3>1. current_steps' = current_steps /\ Deliver(r, Failed("EXCEPTION"))
      BY <2>2 DEF Track
    <3>2. current_steps' \in Nat
      BY <3>1 DEF TypeOK
    <3>3. /\ Failed("EXCEPTION") \in LoopResults
          /\ ~Failed("EXCEPTION").success
          /\ Failed("EXCEPTION").steps_executed = current_steps'
      BY <3>2, ResultTypes DEF Reasons
    <3> QED
      BY <3>1, <3>3
  <2> QED
    BY <2>1, <2>2
<1>4. /\ results' \in [Runs -> Seq(LoopResults)]
      /\ Gets(r, result)
      /\ pc' \in [Runs -> {"idle", "between", "calling", "executing", "done"}]
      /\ \A q \in Runs \ {r} : pc'[q] = pc[q]
      /\ pc'[r] \in {"between", "done"}
      /\ ~result.success => pc'[r] = "done"
      /\ pc'[r] = "between" => left'[r] > 0
  <2>1. left' \in [Runs -> Nat]
    BY <1>1 DEF TypeOK
  <2> QED
    BY <1>3, <2>1, DeliverType DEF Gets
<1>5. current_steps' \in 0 .. max_steps
  BY <1>3 DEF TypeOK, is_exhausted
<1>6. LoopTyped'
  BY <1>1, <1>2, <1>4, <1>5 DEF TypeOK
<1>7. DoneRuns \subseteq DoneRuns'
  BY <1>1, <1>4 DEF DoneRuns
<1>8. Charged(r, result) \/ Dropped(r, result)
  BY <1>1, <1>2, <1>3, <1>4 DEF Charged, Dropped, DoneRuns
<1> QED
  BY <1>6, <1>7, <1>8 DEF StepShape

LEMMA RaiseShape ==
  ASSUME LoopTyped, NEW r \in Runs, RuntimeRaises(r)
  PROVE  StepShape
<1> USE LoopAssumption DEF LoopTyped
<1>1. /\ pc[r] = "executing"
      /\ left' = left
      /\ Deliver(r, Failed("EXCEPTION"))
      /\ UNCHANGED <<loop_state, current_steps, started, late, history, multi>>
  BY DEF RuntimeRaises, budget
<1> DEFINE result == Failed("EXCEPTION")
<1>2. /\ result \in LoopResults
      /\ ~result.success
      /\ result.steps_executed = current_steps'
  BY <1>1, ResultTypes DEF Reasons, TypeOK
<1>3. Deliver(r, result)
  BY <1>1
<1> HIDE DEF result
<1>4. left' \in [Runs -> Nat]
  BY <1>1 DEF TypeOK
<1>5. /\ results' \in [Runs -> Seq(LoopResults)]
      /\ Gets(r, result)
      /\ pc' \in [Runs -> {"idle", "between", "calling", "executing", "done"}]
      /\ \A q \in Runs \ {r} : pc'[q] = pc[q]
      /\ pc'[r] = "done"
  BY <1>2, <1>3, <1>4, DeliverType DEF Gets
<1>6. LoopTyped'
  BY <1>1, <1>5 DEF TypeOK
<1>7. DoneRuns \subseteq DoneRuns'
  BY <1>1, <1>5 DEF DoneRuns
<1>8. Refused(r, result)
  BY <1>1, <1>2, <1>5 DEF Refused
<1> QED
  BY <1>2, <1>6, <1>7, <1>8 DEF StepShape

\* Execute, Cancel and what happens outside the tasks touch no result.
LEMMA QuietShape ==
  ASSUME LoopTyped,
         \/ \E r \in Runs : Execute(r) \/ Cancel(r)
         \/ ClockMoves \/ shutdown \/ UNCHANGED vars
  PROVE  StepShape
<1> USE LoopAssumption DEF LoopTyped
<1>1. /\ Quiet
      /\ loop_state' \in {"RUNNING", "STOPPED"}
      /\ started' \in BOOLEAN /\ late' \in BOOLEAN
      /\ multi' = multi
      /\ pc' \in [Runs -> {"idle", "between", "calling", "executing", "done"}]
      /\ left' \in [Runs -> Nat]
      /\ \A q \in Runs : pc[q] = "done" => pc'[q] = "done"
      /\ \A q \in Runs : pc'[q] \in {"between", "calling"} => left'[q] > 0
  <2>1. ASSUME NEW r \in Runs, Execute(r) PROVE <1>1!:
    BY <2>1 DEF Execute, Begin, Quiet, TypeOK
  <2>2. ASSUME NEW r \in Runs, Cancel(r) PROVE <1>1!:
    BY <2>2 DEF Cancel, Quiet, TypeOK, budget
  <2>3. CASE ClockMoves
    BY <2>3 DEF ClockMoves, Quiet, TypeOK, task
  <2>4. CASE shutdown
    BY <2>4 DEF shutdown, Quiet, TypeOK, task, budget
  <2>5. CASE UNCHANGED vars
    BY <2>5 DEF vars, Quiet, TypeOK, task, budget
  <2> QED
    BY <2>1, <2>2, <2>3, <2>4, <2>5
<1>2. LoopTyped'
  BY <1>1 DEF TypeOK, Quiet
<1>3. DoneRuns \subseteq DoneRuns'
  BY <1>1 DEF DoneRuns
<1> QED
  BY <1>1, <1>2, <1>3 DEF StepShape

\* Every step of the controller has one of the shapes.
LEMMA EveryStepHasShape == LoopTyped /\ [Next]_vars => StepShape
<1> SUFFICES ASSUME LoopTyped, [Next]_vars PROVE StepShape
  OBVIOUS
<1>1. ASSUME NEW r \in Runs, RuntimeCompletes(r) PROVE StepShape
  <2>1. Track(r, TRUE, Completed)
    BY <1>1 DEF RuntimeCompletes
  <2>2. current_steps' \in Nat
    BY <2>1, TrackedSteps
  <2> QED
    BY <2>1, <2>2, ResultTypes, TrackShape
<1>2. ASSUME NEW r \in Runs, RuntimeFails(r) PROVE StepShape
  <2>1. PICK error \in Errors : Track(r, FALSE, Failed(classify_failure(error)))
    BY <1>2 DEF RuntimeFails
  <2>2. current_steps' \in Nat
    BY <2>1, TrackedSteps
  <2>3. /\ Failed(classify_failure(error)) \in LoopResults
        /\ Failed(classify_failure(error)).steps_executed = current_steps'
    BY <2>2, ResultTypes, ClassifiedReason
  <2> QED
    BY <2>1, <2>3, TrackShape
<1> QED
  BY <1>1, <1>2, EnterShape, RefuseShape, RaiseShape, QuietShape
     DEF Next, Advance, Resume, Done

LEMMA InitTyped == Init => LoopTyped
<1> SUFFICES ASSUME Init PROVE LoopTyped
  OBVIOUS
<1>1. << >> \in Seq(BOOLEAN) /\ << >> \in Seq(LoopResults)
  OBVIOUS
<1>2. history \in Seq(BOOLEAN) /\ results \in [Runs -> Seq(LoopResults)]
  BY <1>1 DEF Init
<1>3. pc \in [Runs -> {"idle", "between", "calling", "executing", "done"}]
  BY DEF Init
<1>4. multi \in [Runs -> BOOLEAN] /\ left \in [Runs -> Nat]
  BY DEF Init
<1>5. current_steps \in 0 .. max_steps
  BY LoopAssumption DEF Init
<1>6. \A r \in Runs : pc[r] \notin {"between", "calling"}
  BY DEF Init
<1> QED
  BY <1>2, <1>3, <1>4, <1>5, <1>6 DEF Init, LoopTyped, TypeOK

\* TypeOK holds in every behaviour, whatever the number of tasks: `left` is
\* never counted below zero and current_steps never above max_steps.
THEOREM LoopTypeCorrect == Spec => []TypeOK
<1>1. Init => LoopTyped
  BY InitTyped
<1>2. LoopTyped /\ [Next]_vars => LoopTyped'
  BY EveryStepHasShape DEF StepShape
<1>3. LoopTyped => TypeOK
  BY DEF LoopTyped
<1> QED
  BY <1>1, <1>2, <1>3, PTL DEF Spec

-----------------------------------------------------------------------------
(* Successes are charged.  The pairs of a task and the index of one of its *)
(* successes grow by at most one pair in a step, and then current_steps    *)
(* grows too.                                                              *)

Told == UNION {{<<r, i>> : i \in Successes(r)} : r \in Runs}

LEMMA ToldPairs ==
  ASSUME NEW x
  PROVE  x \in Told <=> \E r \in Runs : \E i \in Successes(r) : x = <<r, i>>
BY DEF Told

\* The collected successes after a result was delivered.
LEMMA DeliveredSuccesses ==
  ASSUME LoopTyped, NEW r \in Runs, NEW result \in LoopResults, Gets(r, result)
  PROVE  /\ \A q \in Runs \ {r} : Successes(q)' = Successes(q)
         /\ Successes(r)' = IF result.success THEN Successes(r) \cup {Len(results[r]) + 1}
                                              ELSE Successes(r)
<1>1. \A q \in Runs \ {r} : results'[q] = results[q]
  BY DEF Gets, LoopTyped, TypeOK
<1>2. results'[r] = Append(results[r], result) /\ results[r] \in Seq(LoopResults)
  BY DEF Gets, LoopTyped, TypeOK
<1>3. /\ DOMAIN results'[r] = 1 .. Len(results[r]) + 1
      /\ DOMAIN results[r] = 1 .. Len(results[r])
      /\ \A i \in 1 .. Len(results[r]) : results'[r][i] = results[r][i]
      /\ results'[r][Len(results[r]) + 1] = result
      /\ Len(results[r]) \in Nat
  BY <1>2
<1>4. \A i : i \in Successes(r)' <=> i \in DOMAIN results'[r] /\ results'[r][i].success
  BY DEF Successes
<1>5. \A i : i \in Successes(r) <=> i \in DOMAIN results[r] /\ results[r][i].success
  BY DEF Successes
<1>6. Successes(r)' = IF result.success THEN Successes(r) \cup {Len(results[r]) + 1}
                                         ELSE Successes(r)
  <2>1. ASSUME NEW i
        PROVE  i \in Successes(r)' <=>
                 i \in Successes(r) \/ (result.success /\ i = Len(results[r]) + 1)
    BY <1>3, <1>4, <1>5
  <2>2. CASE result.success
    <3>1. \A i : i \in Successes(r)' <=> i \in Successes(r) \cup {Len(results[r]) + 1}
      BY <2>1, <2>2
    <3>2. Successes(r)' = Successes(r) \cup {Len(results[r]) + 1}
      BY <3>1
    <3> QED
      BY <2>2, <3>2
  <2>3. CASE ~result.success
    <3>1. Successes(r)' = Successes(r)
      BY <2>1, <2>3
    <3> QED
      BY <2>3, <3>1
  <2> QED
    BY <2>2, <2>3
<1>7. \A q \in Runs \ {r} : Successes(q)' = Successes(q)
  BY <1>1 DEF Successes
<1> QED
  BY <1>6, <1>7

\* Told in terms of one delivered result.
LEMMA DeliveredTold ==
  ASSUME LoopTyped, NEW r \in Runs, NEW result \in LoopResults, Gets(r, result)
  PROVE  /\ result.success => Told' = Told \cup {<<r, Len(results[r]) + 1>>}
         /\ ~result.success => Told' = Told
<1> DEFINE new == Len(results[r]) + 1
<1>1. \A x : x \in Told <=> \E q \in Runs : \E i \in Successes(q) : x = <<q, i>>
  BY ToldPairs
<1>2. \A x : x \in Told' <=> \E q \in Runs : \E i \in Successes(q)' : x = <<q, i>>
  BY DEF Told
<1>3. \A q \in Runs \ {r} : Successes(q)' = Successes(q)
  BY DeliveredSuccesses
<1>4. CASE result.success
  <2>1. Successes(r)' = Successes(r) \cup {new}
    BY <1>4, DeliveredSuccesses
  <2> HIDE DEF new
  <2>2. ASSUME NEW x
        PROVE  x \in Told' <=> x \in Told \/ x = <<r, new>>
    <3>1. ASSUME x \in Told' PROVE x \in Told \/ x = <<r, new>>
      <4>1. PICK q \in Runs : \E i \in Successes(q)' : x = <<q, i>>
        BY <3>1, <1>2
      <4>2. PICK i \in Successes(q)' : x = <<q, i>>
        BY <4>1
      <4> QED
        BY <1>1, <1>3, <2>1, <4>2
    <3>2. ASSUME x \in Told PROVE x \in Told'
      BY <3>2, <1>1, <1>2, <1>3, <2>1
    <3>3. ASSUME x = <<r, new>> PROVE x \in Told'
      BY <3>3, <1>2, <2>1
    <3> QED
      BY <3>1, <3>2, <3>3
  <2>3. Told' = Told \cup {<<r, new>>}
    BY <2>2
  <2> QED
    BY <2>3, <1>4 DEF new
<1>5. CASE ~result.success
  <2>1. Successes(r)' = Successes(r)
    BY <1>5, DeliveredSuccesses
  <2>2. \A q \in Runs : Successes(q)' = Successes(q)
    BY <1>3, <2>1
  <2>3. Told' = Told
    BY <1>1, <1>2, <2>2
  <2> QED
    BY <2>3, <1>5
<1> QED
  BY <1>4, <1>5 DEF LoopResults

ToldCharged ==
  /\ IsFiniteSet(Told)
  /\ Cardinality(Told) <= current_steps

LEMMA NextToldCharged ==
  ASSUME LoopTyped, ToldCharged, [Next]_vars
  PROVE  ToldCharged'
<1>1. StepShape
  BY EveryStepHasShape
<1>2. current_steps \in Nat /\ Cardinality(Told) \in Nat
  BY FS_CardinalityType, LoopAssumption DEF LoopTyped, TypeOK, ToldCharged
<1>3. CASE Quiet
  <2>1. Told' = Told
    BY <1>3 DEF Told, Quiet, Successes
  <2> QED
    BY <1>3, <2>1 DEF ToldCharged, Quiet
<1>4. ASSUME NEW r \in Runs, NEW result \in LoopResults,
             Refused(r, result) \/ Charged(r, result) \/ Dropped(r, result)
      PROVE  ToldCharged'
  <2>1. Gets(r, result)
    BY <1>4 DEF Refused, Charged, Dropped
  <2>2. CASE Charged(r, result)
    <3>1. current_steps' = current_steps + 1
      BY <2>2 DEF Charged
    <3>2. PICK x : Told' = Told \cup {x} \/ Told' = Told
      BY <2>1, DeliveredTold DEF LoopResults
    <3>3. IsFiniteSet(Told')
      BY <3>2, FS_AddElement DEF ToldCharged
    <3>4. Cardinality(Told') <= Cardinality(Told) + 1
      <4>1. CASE Told' = Told
        BY <1>2, <4>1
      <4>2. CASE Told' = Told \cup {x}
        <5>1. Cardinality(Told \cup {x}) =
                 IF x \in Told THEN Cardinality(Told) ELSE Cardinality(Told) + 1
          BY FS_AddElement DEF ToldCharged
        <5> QED
          BY <1>2, <4>2, <5>1
      <4> QED
        BY <3>2, <4>1, <4>2
    <3> QED
      BY <1>2, <3>1, <3>3, <3>4, FS_CardinalityType DEF ToldCharged
  <2>3. CASE Refused(r, result) \/ Dropped(r, result)
    <3>1. current_steps' = current_steps /\ ~result.success
      BY <2>3 DEF Refused, Dropped
    <3>2. Told' = Told
      BY <2>1, <3>1, DeliveredTold
    <3> QED
      BY <3>1, <3>2 DEF ToldCharged
  <2> QED
    BY <1>4, <2>2, <2>3
<1> QED
  BY <1>1, <1>3, <1>4 DEF StepShape

\* However tasks race for the budget, the successes all of them were told of
\* are no more than the charged steps, nor these than max_steps.
THEOREM SuccessesAreChargedHolds == Spec => []SuccessesAreCharged
<1>1. Init => LoopTyped /\ ToldCharged
  <2> SUFFICES ASSUME Init PROVE LoopTyped /\ ToldCharged
    OBVIOUS
  <2>1. LoopTyped
    BY InitTyped
  <2>2. Told = {}
    BY DEF Init, Told, Successes
  <2> QED
    BY <2>1, <2>2, FS_EmptySet DEF ToldCharged, Init
<1>2. LoopTyped /\ ToldCharged /\ [Next]_vars => (LoopTyped /\ ToldCharged)'
  BY EveryStepHasShape, NextToldCharged DEF StepShape
<1>3. LoopTyped /\ ToldCharged => SuccessesAreCharged
  BY LoopAssumption DEF LoopTyped, TypeOK, ToldCharged, SuccessesAreCharged, Told
<1> QED
  BY <1>1, <1>2, <1>3, PTL DEF Spec

-----------------------------------------------------------------------------
(* The overrun.  An execution escapes the charge only where its task ends  *)
(* with it, so the executions beyond the charged steps are paid for by     *)
(* tasks that are done.                                                    *)

OverrunPaid == Len(history) <= current_steps + Cardinality(DoneRuns)

LEMMA NextOverrunPaid ==
  ASSUME LoopTyped, OverrunPaid, [Next]_vars
  PROVE  OverrunPaid'
<1>1. StepShape
  BY EveryStepHasShape
<1>2. /\ IsFiniteSet(DoneRuns) /\ IsFiniteSet(DoneRuns')
      /\ Cardinality(DoneRuns) \in Nat /\ Cardinality(DoneRuns') \in Nat
      /\ Cardinality(DoneRuns) <= Cardinality(DoneRuns')
  <2>1. DoneRuns \subseteq Runs /\ DoneRuns' \subseteq Runs /\ DoneRuns \subseteq DoneRuns'
    BY <1>1 DEF StepShape, DoneRuns
  <2> QED
    BY <2>1, LoopAssumption, FS_Subset, FS_CardinalityType
<1>3. /\ current_steps \in Nat /\ current_steps' \in Nat
      /\ Len(history) \in Nat /\ Len(history') \in Nat
  BY <1>1, LoopAssumption DEF StepShape, LoopTyped, TypeOK
<1>4. CASE Quiet
  BY <1>2, <1>3, <1>4 DEF Quiet, OverrunPaid
<1>5. ASSUME NEW r \in Runs, NEW result \in LoopResults, Refused(r, result)
      PROVE  OverrunPaid'
  BY <1>2, <1>3, <1>5 DEF Refused, OverrunPaid
<1>6. ASSUME NEW r \in Runs, NEW result \in LoopResults, Charged(r, result)
      PROVE  OverrunPaid'
  BY <1>2, <1>3, <1>6 DEF Charged, OverrunPaid
<1>7. ASSUME NEW r \in Runs, NEW result \in LoopResults, Dropped(r, result)
      PROVE  OverrunPaid'
  <2>1. r \notin DoneRuns /\ DoneRuns \cup {r} \subseteq DoneRuns'
    BY <1>1, <1>7 DEF StepShape, Dropped
  <2>2. Cardinality(DoneRuns \cup {r}) = Cardinality(DoneRuns) + 1
    BY <1>2, <2>1, FS_AddElement
  <2>3. Cardinality(DoneRuns) + 1 <= Cardinality(DoneRuns')
    BY <1>2, <2>1, <2>2, FS_Subset
  <2> QED
    BY <1>2, <1>3, <1>7, <2>3 DEF Dropped, OverrunPaid
<1> QED
  BY <1>1, <1>4, <1>5, <1>6, <1>7 DEF StepShape

\* At most one execution per task escapes the charge, however many intents
\* each task was given.
THEOREM OverrunBoundedHolds == Spec => []OverrunBounded
<1>1. Init => LoopTyped /\ OverrunPaid
  <2> SUFFICES ASSUME Init PROVE LoopTyped /\ OverrunPaid
    OBVIOUS
  <2>1. LoopTyped
    BY InitTyped
  <2>2. DoneRuns = {}
    BY DEF Init, DoneRuns
  <2> QED
    BY <2>1, <2>2, FS_EmptySet DEF OverrunPaid, Init
<1>2. LoopTyped /\ OverrunPaid /\ [Next]_vars => (LoopTyped /\ OverrunPaid)'
  BY EveryStepHasShape, NextOverrunPaid DEF StepShape
<1>3. LoopTyped /\ OverrunPaid => OverrunBounded
  <2>1. DoneRuns \subseteq Runs
    BY DEF DoneRuns
  <2>2. /\ Cardinality(DoneRuns) <= Cardinality(Runs)
        /\ Cardinality(DoneRuns) \in Nat /\ Cardinality(Runs) \in Nat
    BY <2>1, LoopAssumption, FS_Subset, FS_CardinalityType
  <2> QED
    BY <2>2, LoopAssumption DEF LoopTyped, TypeOK, OverrunPaid, OverrunBounded
<1> QED
  BY <1>1, <1>2, <1>3, PTL DEF Spec

-----------------------------------------------------------------------------
(* Used up steps stay used up.  No result reports more steps than are      *)
(* charged, and a charge is never taken back, so after a refusal that      *)
(* reports max_steps consume_step refuses every answer that comes later.   *)

ToldTheTruth ==
  \A r \in Runs : \A i \in DOMAIN results[r] : results[r][i].steps_executed <= current_steps

LEMMA NextToldTheTruth ==
  ASSUME LoopTyped, ToldTheTruth, [Next]_vars
  PROVE  ToldTheTruth'
<1>1. StepShape
  BY EveryStepHasShape
<1>2. current_steps \in Nat /\ current_steps' \in Nat
  BY <1>1, LoopAssumption DEF StepShape, LoopTyped, TypeOK
<1>3. CASE Quiet
  BY <1>3 DEF Quiet, ToldTheTruth
<1>4. ASSUME NEW r \in Runs, NEW result \in LoopResults, Gets(r, result),
             current_steps <= current_steps'
      PROVE  ToldTheTruth'
  <2> SUFFICES ASSUME NEW q \in Runs, NEW i \in DOMAIN results'[q]
               PROVE  results'[q][i].steps_executed <= current_steps'
    BY DEF ToldTheTruth
  <2>0. results[q] \in Seq(LoopResults)
    BY DEF LoopTyped, TypeOK
  <2>1. ASSUME i \in DOMAIN results[q], results'[q][i] = results[q][i]
        PROVE  results'[q][i].steps_executed <= current_steps'
    <3>1. results[q][i].steps_executed \in Nat
      <4>1. results[q][i] \in LoopResults
        BY <2>0, <2>1
      <4> QED
        BY <4>1 DEF LoopResults
    <3>2. results[q][i].steps_executed <= current_steps
      BY <2>1 DEF ToldTheTruth
    <3> QED
      BY <1>2, <1>4, <2>1, <3>1, <3>2
  <2>2. CASE q # r
    <3>1. results'[q] = results[q]
      BY <1>4, <2>2 DEF Gets, LoopTyped, TypeOK
    <3> QED
      BY <2>1, <3>1
  <2>3. CASE q = r
    <3>1. results'[r] = Append(results[r], result)
      BY <1>4 DEF Gets, LoopTyped, TypeOK
    <3>2. CASE i = Len(results[r]) + 1
      BY <1>2, <1>4, <2>0, <2>3, <3>1, <3>2 DEF Gets
    <3>3. CASE i # Len(results[r]) + 1
      <4>1. i \in DOMAIN results[r] /\ results'[r][i] = results[r][i]
        BY <2>0, <2>3, <3>1, <3>3
      <4> QED
        BY <2>1, <2>3, <4>1
    <3> QED
      BY <3>2, <3>3
  <2> QED
    BY <2>2, <2>3
<1> QED
  BY <1>1, <1>2, <1>3, <1>4 DEF StepShape, Refused, Charged, Dropped

LEMMA NothingAfterExhaustion ==
  ASSUME LoopTyped, ToldTheTruth, [Next]_vars, ToldStepsGone, NEW q \in Runs
  PROVE  Successes(q)' = Successes(q)
<1>1. StepShape
  BY EveryStepHasShape
<1>2. is_exhausted
  BY LoopAssumption DEF ToldTheTruth, ToldStepsGone, is_exhausted, LoopTyped, TypeOK
<1>3. CASE Quiet
  BY <1>3 DEF Quiet, Successes
<1>4. ASSUME NEW r \in Runs, NEW result \in LoopResults,
             Refused(r, result) \/ Dropped(r, result)
      PROVE  Successes(q)' = Successes(q)
  <2>1. Gets(r, result) /\ ~result.success
    BY <1>4 DEF Refused, Dropped
  <2> QED
    BY <2>1, DeliveredSuccesses
<1>5. ASSUME NEW r \in Runs, NEW result \in LoopResults, Charged(r, result)
      PROVE  FALSE
  BY <1>2, <1>5 DEF Charged
<1> QED
  BY <1>1, <1>3, <1>4, <1>5 DEF StepShape

\* Once some task was told BUDGET_EXHAUSTED with all the steps executed, no
\* task is told of success any more, not even one whose execution was under
\* way, however the clock is set.
THEOREM ExhaustionIsFinalHolds == Spec => ExhaustionIsFinal
<1> DEFINE NoNewSuccess == \A r \in Runs : Successes(r)' = Successes(r)
<1>1. Init => LoopTyped /\ ToldTheTruth
  BY InitTyped DEF Init, ToldTheTruth
<1>2. LoopTyped /\ ToldTheTruth /\ [Next]_vars => (LoopTyped /\ ToldTheTruth)'
  BY EveryStepHasShape, NextToldTheTruth DEF StepShape
<1>3. LoopTyped /\ ToldTheTruth /\ [Next]_vars => [ToldStepsGone => NoNewSuccess]_vars
  BY NothingAfterExhaustion
<1> QED
  BY <1>1, <1>2, <1>3, PTL DEF Spec, ExhaustionIsFinal

-----------------------------------------------------------------------------
(* StepExecution, on constants and variables of its own.                   *)

\* What HistoryExplains says of a history h and a state s.
Chain(h, s) ==
  LET state(i) == IF i = 0 THEN "PENDING" ELSE h[i][2]
  IN  /\ state(Len(h)) = s
      /\ \A i \in DOMAIN h :
           h[i][1] = state(i - 1) /\ can_transition(h[i][1], h[i][2])

Pairs == ExecutionStatus \X ExecutionStatus

\* A legal transition from the last state makes a chain longer.
LEMMA ChainGrows ==
  ASSUME NEW h \in Seq(Pairs), NEW s, Chain(h, s), NEW t, can_transition(s, t)
  PROVE  Chain(Append(h, <<s, t>>), t)
<1> DEFINE g == Append(h, <<s, t>>)
           n == Len(h) + 1
<1>1. /\ Len(h) \in Nat
      /\ Len(g) = n
      /\ DOMAIN h = 1 .. Len(h)
      /\ DOMAIN g = 1 .. n
      /\ g[n] = <<s, t>>
      /\ \A i \in 1 .. Len(h) : g[i] = h[i]
  OBVIOUS
<1>2. /\ s = IF Len(h) = 0 THEN "PENDING" ELSE h[Len(h)][2]
      /\ \A i \in 1 .. Len(h) :
           /\ h[i][1] = IF i - 1 = 0 THEN "PENDING" ELSE h[i - 1][2]
           /\ can_transition(h[i][1], h[i][2])
  BY <1>1 DEF Chain
<1>3. g[n][1] = s /\ g[n][2] = t
  BY <1>1
<1> HIDE DEF g
<1>4. ASSUME NEW i \in 1 .. n
      PROVE  /\ g[i][1] = IF i - 1 = 0 THEN "PENDING" ELSE g[i - 1][2]
             /\ can_transition(g[i][1], g[i][2])
  <2>1. CASE i = n
    BY <1>1, <1>2, <1>3, <2>1
  <2>2. CASE i # n
    <3>1. i \in 1 .. Len(h) /\ (i - 1 # 0 => i - 1 \in 1 .. Len(h))
      BY <1>1, <2>2
    <3> QED
      BY <1>1, <1>2, <3>1
  <2> QED
    BY <2>1, <2>2
<1>5. n # 0
  BY <1>1
<1>6. Chain(g, t)
  BY <1>1, <1>3, <1>4, <1>5 DEF Chain
<1> QED
  BY <1>6 DEF g

\* transition with one target appends one record, with two it appends two.
LEMMA OneTransition ==
  ASSUME StepTypeOK, NEW t, transition(<<t>>)
  PROVE  status' = t /\ transitions' = Append(transitions, <<status, t>>)
<1> DEFINE more == [i \in 1 .. 1 |-> <<IF i = 1 THEN status ELSE <<t>>[i - 1], <<t>>[i]>>]
<1>1. status' = t /\ transitions' = transitions \o more
  BY DEF transition
<1>2. more = <<<<status, t>>>>
  OBVIOUS
<1> HIDE DEF more
<1>3. transitions \in Seq(ExecutionStatus \X ExecutionStatus)
  BY DEF StepTypeOK
<1> QED
  BY <1>1, <1>2, <1>3

LEMMA TwoTransitions ==
  ASSUME StepTypeOK, NEW t, NEW u, transition(<<t, u>>)
  PROVE  status' = u /\ transitions' = Append(Append(transitions, <<status, t>>), <<t, u>>)
<1> DEFINE more == [i \in 1 .. 2 |-> <<IF i = 1 THEN status ELSE <<t, u>>[i - 1], <<t, u>>[i]>>]
           a == <<status, t>>
           b == <<t, u>>
<1>1. status' = u /\ transitions' = transitions \o more
  BY DEF transition
<1>2. more = <<a, b>>
  OBVIOUS
<1> HIDE DEF more
<1>3. transitions \in Seq(ExecutionStatus \X ExecutionStatus)
  BY DEF StepTypeOK
<1> HIDE DEF a, b
<1>4. transitions \o <<a, b>> = Append(Append(transitions, a), b)
  <2> DEFINE S == (ExecutionStatus \X ExecutionStatus) \cup {a, b}
             l == transitions \o <<a, b>>
             r == Append(Append(transitions, a), b)
  <2>1. transitions \in Seq(S) /\ <<a, b>> \in Seq(S)
    BY <1>3
  <2> HIDE DEF S
  <2>2. a \in S /\ b \in S
    BY DEF S
  <2>3. l \in Seq(S) /\ r \in Seq(S)
    BY <2>1, <2>2
  <2>4. Len(l) = Len(transitions) + 2 /\ Len(r) = Len(transitions) + 2
    BY <2>1, <2>2
  <2>5. \A i \in 1 .. Len(transitions) + 2 : l[i] = r[i]
    BY <2>1, <2>2
  <2> QED
    BY <2>3, <2>4, <2>5
<1> QED
  BY <1>1, <1>2, <1>4 DEF a, b

\* What a step may do to the state machine: nothing, one legal transition, or
\* two in a row.
Moves ==
  \/ UNCHANGED <<status, transitions>>
  \/ \E t \in ExecutionStatus :
       /\ can_transition(status, t)
       /\ status' = t
       /\ transitions' = Append(transitions, <<status, t>>)
  \/ \E t, u \in ExecutionStatus :
       /\ can_transition(status, t)
       /\ can_transition(t, u)
       /\ status' = u
       /\ transitions' = Append(Append(transitions, <<status, t>>), <<t, u>>)

\* A step that failed moves the execution to FAILED, or finds it over.
LEMMA FailMoves ==
  ASSUME StepTypeOK, NEW d \in Drivers, Fail(d)
  PROVE  Moves /\ status' \in Terminal
<1>1. CASE can_transition(status, "FAILED")
  <2>1. status' = "FAILED" /\ transitions' = Append(transitions, <<status, "FAILED">>)
    BY <1>1, OneTransition DEF Fail
  <2> QED
    BY <1>1, <2>1 DEF Moves, ExecutionStatus, Terminal
<1>2. CASE ~can_transition(status, "FAILED")
  <2>1. UNCHANGED <<status, transitions>>
    BY <1>2 DEF Fail
  <2>2. status \in Terminal
    BY <1>2 DEF StepTypeOK, ExecutionStatus, can_transition,
                LEGAL_TRANSITIONS, Terminal
  <2> QED
    BY <2>1, <2>2 DEF Moves
<1> QED
  BY <1>1, <1>2

LEMMA UserMoves ==
  ASSUME StepTypeOK,
         \/ start_execution \/ StartRaises \/ StartReturns
         \/ stop_execution \/ pause_execution \/ resume_execution
  PROVE  Moves /\ starting' \in BOOLEAN /\ UNCHANGED <<step, response, checkpoints>>
<1> USE OneTransition, TwoTransitions DEF Moves, ExecutionStatus
<1>1. CASE start_execution
  BY <1>1 DEF start_execution
<1>2. CASE StartRaises
  BY <1>2 DEF StartRaises
<1>3. CASE StartReturns
  BY <1>3 DEF StartReturns
<1>4. CASE stop_execution
  BY <1>4 DEF stop_execution, StepTypeOK
<1>5. CASE pause_execution
  BY <1>5 DEF pause_execution, StepTypeOK
<1>6. CASE resume_execution
  BY <1>6 DEF resume_execution, StepTypeOK
<1> QED
  BY <1>1, <1>2, <1>3, <1>4, <1>5, <1>6

\* The drivers: the coordinator lets only steps below its limit run, and only
\* a failure is answered FAILED.
DriverEffect(d) ==
  /\ Moves
  /\ starting' = starting
  /\ step' \in [Drivers -> Executable \cup {Idle}]
  /\ response' \in [Drivers -> Responses]
  /\ checkpoints' \subseteq Executable
  /\ \A e \in Drivers \ {d} : response'[e] = response[e]
  /\ response'[d] = "FAILED" => response[d] = "FAILED" \/ status' \in Terminal

LEMMA DriverMoves ==
  ASSUME StepTypeOK, NEW d \in Drivers,
         plan_and_execute(d) \/ StepCompletes(d) \/ StepFails(d)
  PROVE  DriverEffect(d)
<1>0. /\ step \in [Drivers -> Executable \cup {Idle}]
      /\ response \in [Drivers -> Responses]
      /\ checkpoints \subseteq Executable
  BY DEF StepTypeOK
<1>1. ASSUME NEW n \in Steps, NEW budget_left \in 0 .. MaxBudget, NEW has_tools \in BOOLEAN,
             Plan(d, n, budget_left, has_tools)
      PROVE  DriverEffect(d)
  <2> DEFINE answer == plan_step(n, budget_left, has_tools)
  <2>1. answer \in {"COMPLETE", "PAUSE_FOR_APPROVAL"}
    BY <1>1 DEF Plan, plan_step
  <2>2. /\ response' = [response EXCEPT ![d] = answer]
        /\ UNCHANGED <<status, transitions, starting, step, checkpoints>>
    BY <1>1 DEF Plan
  <2> HIDE DEF answer
  <2> QED
    BY <1>0, <2>1, <2>2 DEF Moves, Responses, DriverEffect
<1>2. ASSUME Fail(d), UNCHANGED checkpoints
      PROVE  DriverEffect(d)
  <2>1. /\ response' = [response EXCEPT ![d] = "FAILED"]
        /\ step' = [step EXCEPT ![d] = Idle]
        /\ starting' = starting
    BY <1>2 DEF Fail
  <2> QED
    BY <1>0, <1>2, <2>1, FailMoves DEF Responses, DriverEffect
<1>3. ASSUME NEW n \in Steps, NEW budget_left \in 0 .. MaxBudget,
             ExecuteStep(d, n, budget_left)
      PROVE  DriverEffect(d)
  <2>1. n \in Executable
    BY <1>3, StepAssumption DEF ExecuteStep, plan_step, Steps, Executable
  <2>2. /\ step' = [step EXCEPT ![d] = n]
        /\ UNCHANGED <<status, transitions, starting, response, checkpoints>>
    BY <1>3 DEF ExecuteStep, build
  <2> QED
    BY <1>0, <2>1, <2>2 DEF Moves, DriverEffect
<1>4. CASE StepCompletes(d)
  BY <1>0, <1>4 DEF StepCompletes, Moves, Responses, DriverEffect
<1>5. CASE StepFails(d)
  BY <1>2, <1>5 DEF StepFails
<1>6. ASSUME NEW n \in Steps, NEW budget_left \in 0 .. MaxBudget,
             BuildRaises(d, n, budget_left)
      PROVE  DriverEffect(d)
  BY <1>0, <1>6 DEF BuildRaises, Moves, Responses, DriverEffect
<1>7. CASE plan_and_execute(d)
  BY <1>1, <1>2, <1>3, <1>6, <1>7 DEF plan_and_execute, ExecuteWithoutBudget
<1> QED
  BY <1>4, <1>5, <1>7

\* The inductive invariant of the execution.
StepInv == StepTypeOK /\ HistoryExplains /\ FailedStepFails

\* No legal transition leads out of a terminal state.
LEMMA TerminalStays ==
  ASSUME Moves, status \in Terminal
  PROVE  status' = status
<1>1. LEGAL_TRANSITIONS[status] = {}
  BY DEF Terminal, LEGAL_TRANSITIONS
<1>2. \A t : ~can_transition(status, t)
  BY <1>1 DEF can_transition
<1> QED
  BY <1>2 DEF Moves

\* The history after the moves of one step.
LEMMA MovesExplained ==
  ASSUME StepTypeOK, HistoryExplains, Moves
  PROVE  /\ status' \in ExecutionStatus
         /\ transitions' \in Seq(ExecutionStatus \X ExecutionStatus)
         /\ HistoryExplains'
<1>1. /\ status \in ExecutionStatus
      /\ transitions \in Seq(Pairs)
      /\ Chain(transitions, status)
  BY DEF StepTypeOK, HistoryExplains, Chain, Pairs
<1>2. /\ status' \in ExecutionStatus
      /\ transitions' \in Seq(Pairs)
      /\ Chain(transitions', status')
  <2>1. CASE UNCHANGED <<status, transitions>>
    BY <1>1, <2>1
  <2>2. ASSUME NEW t \in ExecutionStatus, can_transition(status, t), status' = t,
               transitions' = Append(transitions, <<status, t>>)
        PROVE  <1>2!:
    <3>1. <<status, t>> \in Pairs
      BY <1>1 DEF Pairs
    <3>2. Append(transitions, <<status, t>>) \in Seq(Pairs)
      BY <1>1, <3>1
    <3>3. Chain(Append(transitions, <<status, t>>), t)
      BY <1>1, <2>2, ChainGrows
    <3> QED
      BY <2>2, <3>2, <3>3
  <2>3. ASSUME NEW t \in ExecutionStatus, NEW u \in ExecutionStatus,
               can_transition(status, t), can_transition(t, u), status' = u,
               transitions' = Append(Append(transitions, <<status, t>>), <<t, u>>)
        PROVE  <1>2!:
    <3> DEFINE h == Append(transitions, <<status, t>>)
    <3>1. <<status, t>> \in Pairs /\ <<t, u>> \in Pairs
      BY <1>1 DEF Pairs
    <3>2. h \in Seq(Pairs)
      BY <1>1, <3>1
    <3>3. Chain(h, t)
      BY <1>1, <2>3, ChainGrows
    <3>4. transitions' = Append(h, <<t, u>>)
      BY <2>3
    <3> HIDE DEF h
    <3>5. Append(h, <<t, u>>) \in Seq(Pairs)
      BY <3>1, <3>2
    <3>6. Chain(Append(h, <<t, u>>), u)
      BY <2>3, <3>2, <3>3, ChainGrows
    <3> QED
      BY <2>3, <3>4, <3>5, <3>6
  <2> QED
    BY <2>1, <2>2, <2>3 DEF Moves
<1> QED
  BY <1>2 DEF HistoryExplains, Chain, Pairs

LEMMA InitStep == StepInit => StepInv
<1> SUFFICES ASSUME StepInit PROVE StepInv
  OBVIOUS
<1>1. << >> \in Seq(Pairs) /\ DOMAIN << >> = {} /\ Len(<< >>) = 0
  OBVIOUS
<1>2. StepTypeOK
  BY <1>1 DEF StepInit, StepTypeOK, ExecutionStatus, Responses, Pairs
<1>3. HistoryExplains
  BY <1>1 DEF StepInit, HistoryExplains
<1>4. FailedStepFails
  BY DEF StepInit, FailedStepFails
<1> QED
  BY <1>2, <1>3, <1>4 DEF StepInv

LEMMA NextStep ==
  ASSUME StepInv, [StepNext]_stepVars
  PROVE  StepInv' /\ Moves
<1>1. CASE UNCHANGED stepVars
  BY <1>1 DEF stepVars, StepInv, StepTypeOK, HistoryExplains, FailedStepFails, Moves
<1>2. CASE \/ start_execution \/ StartRaises \/ StartReturns
           \/ stop_execution \/ pause_execution \/ resume_execution
  <2>1. Moves /\ starting' \in BOOLEAN /\ UNCHANGED <<step, response, checkpoints>>
    BY <1>2, UserMoves DEF StepInv
  <2>2. StepTypeOK'
    BY <2>1, MovesExplained DEF StepInv, StepTypeOK
  <2>3. FailedStepFails'
    BY <2>1, TerminalStays DEF StepInv, FailedStepFails
  <2> QED
    BY <2>1, <2>2, <2>3, MovesExplained DEF StepInv
<1>3. ASSUME NEW d \in Drivers,
             plan_and_execute(d) \/ StepCompletes(d) \/ StepFails(d)
      PROVE  StepInv' /\ Moves
  <2>1. /\ Moves
        /\ starting' = starting
        /\ step' \in [Drivers -> Executable \cup {Idle}]
        /\ response' \in [Drivers -> Responses]
        /\ checkpoints' \subseteq Executable
        /\ \A e \in Drivers \ {d} : response'[e] = response[e]
        /\ response'[d] = "FAILED" => response[d] = "FAILED" \/ status' \in Terminal
    BY <1>3, DriverMoves DEF StepInv, DriverEffect
  <2>2. StepTypeOK'
    BY <2>1, MovesExplained DEF StepInv, StepTypeOK
  <2>3. FailedStepFails'
    <3>1. status \in Terminal => status' \in Terminal
      BY <2>1, TerminalStays
    <3> QED
      BY <2>1, <3>1 DEF StepInv, FailedStepFails
  <2> QED
    BY <2>1, <2>2, <2>3, MovesExplained DEF StepInv
<1> QED
  BY <1>1, <1>2, <1>3 DEF StepNext

\* The inductive invariant holds in every behaviour of an execution.
THEOREM StepInvHolds == StepSpec => []StepInv
<1>1. StepInit => StepInv
  BY InitStep
<1>2. StepInv /\ [StepNext]_stepVars => StepInv'
  BY NextStep
<1> QED
  BY <1>1, <1>2, PTL DEF StepSpec, stepVars

\* TypeOK: the coordinator lets no step at or beyond its limit run, and the
\* runtime saves no checkpoint of one.
THEOREM StepTypeCorrect == StepSpec => []StepTypeOK
<1>1. StepInv => StepTypeOK
  BY DEF StepInv
<1> QED
  BY <1>1, StepInvHolds, PTL

\* However users and late answers of steps interleave, the recorded history
\* is a chain of legal transitions from PENDING to the current state.
THEOREM HistoryExplainsHolds == StepSpec => []HistoryExplains
<1>1. StepInv => HistoryExplains
  BY DEF StepInv
<1> QED
  BY <1>1, StepInvHolds, PTL

\* A driver that was answered FAILED finds its execution over, also when a
\* user paused it while the step was under way.
THEOREM FailedStepFailsHolds == StepSpec => []FailedStepFails
<1>1. StepInv => FailedStepFails
  BY DEF StepInv
<1> QED
  BY <1>1, StepInvHolds, PTL

\* Nothing revives an execution that has completed or failed.
THEOREM TerminalIsFinalHolds == StepSpec => TerminalIsFinal
<1>1. StepInv /\ [StepNext]_stepVars => [(status \in Terminal) => status' = status]_stepVars
  BY NextStep, TerminalStays
<1>2. StepSpec => [][StepNext]_stepVars
  BY DEF StepSpec, stepVars
<1> QED
  BY <1>1, <1>2, StepInvHolds, PTL DEF TerminalIsFinal, stepVars
=============================================================================
