\* The intake: no crash and no refused commit, an agent that is down for a while
\* is served.
\* The fleet: one lease for two agents.
\* The board: two runs, two slips, a task and an issue or two changes of one.
CONSTANTS
  Messages <- TwoMessages
  Letters <- OneLetter
  Fires <- OneFire
  Kinds <- Progress
  MaxRetained = 2
  CommitOutcomes = {TRUE}
  SaveOutcomes = {TRUE}
  MaxQueue = 2
  MaxAccepted = 1
  MaxCrashes = 0
  MaxStops = 1
  a1 = a1
  a2 = a2
  Agents <- TwoAgents
  MaxConcurrent = 1
  GraceTicks = 1
  DeadlineTicks = 1
  LeaseTicks = 2
  QueueTicks = 3
  WindowTicks = 3
  PauseTicks = 4
  MaxReports = 3
  MaxSessions = 1
  s1 = s1
  s2 = s2
  Runs <- TwoSyncs
  AgentStatuses = {"completed"}
  HumanStatuses = {"in_review", "blocked"}
  MaxTasks = 3
  MaxIssues = 3
  MaxMade = 1
  MaxFiled = 1
  MaxChanges = 2
  MaxSlips = 2
SPECIFICATION RuntimesSpec
INVARIANTS RuntimesTypeOK HandoffsAreBounded
PROPERTIES HandoffsAreServed QueuedIsWritten DispatchedIsReviewed MirrorSettles
CHECK_DEADLOCK FALSE
