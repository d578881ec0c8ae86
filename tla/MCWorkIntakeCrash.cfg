\* A crash, a stop of the agent, refused commits, redeliveries and reports in any order.
CONSTANTS
  Messages <- Redelivered
  Letters <- OneLetter
  Fires <- OneFire
  Kinds = {"completed"}
  MaxRetained = 1
  CommitOutcomes = {TRUE, FALSE}
  SaveOutcomes = {TRUE}
  MaxQueue = 2
  MaxAccepted = 2
  MaxCrashes = 1
  MaxStops = 1
SPECIFICATION Spec
INVARIANTS OneRecordPerSource NothingIsLost IntentBeforeWrite
PROPERTIES OutcomesAreFinal
CHECK_DEADLOCK FALSE
