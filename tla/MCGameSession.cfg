SPECIFICATION Spec
CONSTANTS
  maxDelta = 5
  timeScale = 2
  fixedDelta = 4
  Listen = TRUE
  MaxElapsed = 8
  MaxTime = 20
INVARIANTS TypeOK TimeAccounted StepsBounded
