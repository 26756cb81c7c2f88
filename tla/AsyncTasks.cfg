SPECIFICATION FairSpec
CONSTANTS
  m1 = m1
  n1 = n1
  Tasks <- MCTasks
  CreatedAt <- MCCreatedAt
  Workers = {w1, w2}
  NoTask = NoTask
  NoLease = NoLease
  MaxAttempts = 3
  LeaseTicks = 1
  MaxRetries = 1
INVARIANTS
  StartBudget
  NoEarlyGiveUp
  AttemptsTellRunsApart
  LeaseExclusive
PROPERTIES
  ImplementsQueue
  EventuallyDecided
