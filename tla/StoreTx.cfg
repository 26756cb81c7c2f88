SPECIFICATION TxSpec
CONSTANTS
  Contents <- MCContents
  HashOf <- MCHashOf
  Pieces <- MCPieces
  MaxMemories = 3
  Callers = {c1, c2}
  NoCaller = NoCaller
INVARIANTS
  AckedIsStored
  DedupStaysTrue
  UniqueActive
  SupersededLeadsForward
PROPERTIES
  HistoryKept
  StoreSpec
