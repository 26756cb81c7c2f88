SPECIFICATION Spec
CONSTANTS
  w1 = w1
  w2 = w2
  w3 = w3
  titled = titled
  empty = empty
  session = session
  NObs = 3
  AtStart = 2
  CreatedAt <- MCCreatedAt
  ObsText <- MCNewText
  Wrapper <- MCWrapper
  Docs <- MCDocs
  Text <- MCTextOfNew
  NoText = "unparseable"
  Garbage = {w1, empty}
  Imported <- MCImported
  ClientDocs = {w2}
  Percent = 50
  MaxRuns = 2
  MaxClientOps = 1
INVARIANT DeltaCatchesUp
CHECK_DEADLOCK FALSE
