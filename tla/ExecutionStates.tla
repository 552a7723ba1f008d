---------------------------- MODULE ExecutionStates ----------------------------
(***************************************************************************)
(* The two state machines of kernel/state.py: RuntimeState, the life of    *)
(* the runtime as a whole, and ExecutionState, the life of one intent      *)
(* execution, with the table of transitions the runtime enforces.          *)
(***************************************************************************)

RuntimeState == {"RUNNING", "DRAINING", "STOPPED"}

ExecutionState == {"CREATED", "VALIDATING", "AUTHORIZED", "EXECUTING",
                   "CHECKPOINTING", "COMPLETED", "FAILED", "HALTED"}

(* Mutant: the table without the way into COMPLETED.                       *)
TransitionsWithoutCompletion ==
    [CREATED       |-> {"VALIDATING"},
     VALIDATING    |-> {"AUTHORIZED", "FAILED", "HALTED"},
     AUTHORIZED    |-> {"EXECUTING", "FAILED", "HALTED"},
     EXECUTING     |-> {"CHECKPOINTING", "FAILED", "HALTED"},
     CHECKPOINTING |-> {"HALTED"},
     COMPLETED     |-> {},
     FAILED        |-> {},
     HALTED        |-> {}]

VALID_TRANSITIONS ==
    [CREATED       |-> {"VALIDATING"},
     VALIDATING    |-> {"AUTHORIZED", "FAILED", "HALTED"},
     AUTHORIZED    |-> {"EXECUTING", "FAILED", "HALTED"},
     EXECUTING     |-> {"CHECKPOINTING", "FAILED", "HALTED"},
     CHECKPOINTING |-> {"COMPLETED", "HALTED"},
     COMPLETED     |-> {},
     FAILED        |-> {},
     HALTED        |-> {}]

Terminal == {"COMPLETED", "FAILED", "HALTED"}

is_valid_transition(current, target) == target \in VALID_TRANSITIONS[current]

(* KitematicRuntime._transition_safe: the target, else HALTED, else stay.  *)
transition_safe(current, target) ==
    IF is_valid_transition(current, target) THEN target
    ELSE IF is_valid_transition(current, "HALTED") THEN "HALTED"
    ELSE current

================================================================================
