SPECIFICATION Spec
CONSTANTS
  r1 = r1
  r2 = r2
  r3 = r3
  Runs = {r1, r2, r3}
  MaxIntents = 2
  max_steps = 2
  max_tokens = 1
  Errors <- MCErrors
SYMMETRY MCSymmetry
INVARIANTS
  SuccessesAreCharged
  OverrunBounded
PROPERTIES
  ExhaustionIsFinal
