SPECIFICATION StepSpec
CONSTANTS
  d1 = d1
  d2 = d2
  Drivers = {d1, d2}
  Idle = Idle
  coordinator_max_steps = 2
  MaxBudget = 2
  MaxHistory = 6
SYMMETRY Symmetry
INVARIANTS
  HistoryExplains
  FailedStepFails
PROPERTIES
  TerminalIsFinal
