\* Requests of every kind, two per window, in any order with completions, failed
\* commits and a crash, until the owner runs into one of its gaps.  The hosts: two
\* of them, two daemons, two failures.
CONSTANTS
  Requests <- AllRequests
  MaxWindow = 2
  MaxGeneration = 3
  MaxRevision = 2
  MaxCrashes = 1
  CommitOutcomes = {TRUE, FALSE}
  MaxHosts = 2
  MaxDaemons = 2
  MaxFaults = 2
SPECIFICATION OwnershipSpec
INVARIANTS OneGenerationUnlessBeside NoProcessIsForgotten StartsArePursued
PROPERTIES RetiringSettles WantedIsSpared OrphansAreReaped
CHECK_DEADLOCK FALSE
