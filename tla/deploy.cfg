SPECIFICATION FairSpec
CONSTANTS
  t1 = t1
  t2 = t2
  Tasks <- MCTasks
  Sensitive <- MCSensitive
  MaxEdits = 2
  MaxCommit = 7
  MaxPosts = 2
  MaxCrash = 1
INVARIANTS
  NoDeployLoop
  RollbackDropsFailed
  
CHECK_DEADLOCK FALSE
CONSTRAINTS
  SecondTaskWithoutEdits
  SlipsWithoutCrashes
PROPERTIES
  EveryTriggerAnswered
