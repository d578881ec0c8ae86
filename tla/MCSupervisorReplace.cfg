\* A stop, then a start while the teardown is in flight.
CONSTANTS
  Requests <- StopStart
  MaxWindow = 1
  MaxGeneration = 2
  MaxRevision = 1
  MaxCrashes = 0
  CommitOutcomes = {TRUE}
SPECIFICATION Spec
INVARIANT OneGenerationAtATime
CHECK_DEADLOCK FALSE
