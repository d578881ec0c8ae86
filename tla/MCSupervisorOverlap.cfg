\* Requests, completions, failed commits and a crash in any order.
CONSTANTS
  Requests <- AllRequests
  MaxWindow = 1
  MaxGeneration = 3
  MaxRevision = 2
  MaxCrashes = 1
  CommitOutcomes = {TRUE, FALSE}
SPECIFICATION Spec
INVARIANTS PendingStartIsWanted ReadyOwnsCurrent
PROPERTIES FreshIntentIsSticky ImplementsSpawnAuthority
VIEW OwnerView
CHECK_DEADLOCK FALSE
