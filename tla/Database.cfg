CONSTANTS
  p1 = p1
  p2 = p2
  m1 = m1
  m2 = m2
  Procs = {p1, p2}
  Models = {m1, m2}
  Model <- MCModel
  MaxRows = 2
  MaxBackups = 1
  MaxRestores = 2
SPECIFICATION Spec
INVARIANTS NeverMixed NothingLost ModelsAgree
CHECK_DEADLOCK FALSE
