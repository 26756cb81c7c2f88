SPECIFICATION Spec
CONSTANTS
  m1 = m1
  n1 = n1
  Tasks <- MCTasks
  CreatedAt <- MCCreatedAt
  Workers = {w1, w2}
  NoTask = NoTask
  NoLease = NoLease
  MaxAttempts = 2
  LeaseTicks = 1
  MaxRetries = 0
INVARIANT ExhaustedIsFailed
