\* A daemon that dies between the submission of a cron fire and its receipt.
CONSTANTS
  Messages = {}
  Letters = {}
  Fires <- OneFire
  Kinds = {}
  MaxRetained = 1
  CommitOutcomes = {TRUE}
  SaveOutcomes = {TRUE}
  MaxQueue = 0
  MaxAccepted = 1
  MaxCrashes = 1
  MaxStops = 0
SPECIFICATION Spec
INVARIANT SubmittedOnce
CHECK_DEADLOCK FALSE
