\* A halt and its resume, then a start while the teardown is in flight.
CONSTANTS
  Requests <- HaltResumeStart
  MaxWindow = 1
  MaxGeneration = 2
  MaxRevision = 2
  MaxCrashes = 0
  CommitOutcomes = {TRUE}
SPECIFICATION Spec
INVARIANT AcceptedStartIsPursued
CHECK_DEADLOCK FALSE
