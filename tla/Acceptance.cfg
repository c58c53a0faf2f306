SPECIFICATION Spec
CONSTANTS
  None = None
  Phases <- MCPhases
  RunBound = 2
  DriftBound = 2
  Rewordings <- MCRewordings
INVARIANTS
  DecisionMatchesDrift
  NoticesReachTheDecision
\* A decision is the end of a pipeline.
CHECK_DEADLOCK FALSE
