\* One run, an issue that a person files, and one slip.
CONSTANTS
  Runs = {1}
  AgentStatuses = {}
  HumanStatuses = {}
  MaxTasks = 3
  MaxIssues = 3
  MaxMade = 0
  MaxFiled = 1
  MaxChanges = 0
  MaxSlips = 1
SPECIFICATION SyncSpec
INVARIANT OneToOne
CHECK_DEADLOCK FALSE
