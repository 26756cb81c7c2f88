SPECIFICATION Spec
CONSTANTS
  w1 = w1
  w2 = w2
  w3 = w3
  titled = titled
  empty = empty
  session = session
  NObs = 3
  AtStart = 2
  CreatedAt <- MCCreatedAt
  ObsText <- MCObsText
  Wrapper <- MCWrapper
  Docs <- MCDocs
  Text <- MCText
  NoText = "unparseable"
  Garbage = {w1, empty}
  Imported <- MCImported
  ClientDocs = {w2}
  Percent = 50
  MaxRuns = 3
  MaxClientOps = 1
INVARIANTS
  LegacyKept
  MetadataOfItsText
PROPERTIES
  IngestedOnce
  NothingToRedo
CHECK_DEADLOCK FALSE
