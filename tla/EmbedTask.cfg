CONSTANTS
  Workers = {w1, w2}
  Length = 4
  Cuts <- CutsTwo
  Stubborn = {4}
  MaxAttempts = 3
  MaxOverruns = 1
SPECIFICATION FairSpec
INVARIANTS NoTextLost IndexesDistinct VectorsCurrent ChunksSpellDocument CompletedIsSearchable
PROPERTY EmbeddingEnds
CHECK_DEADLOCK FALSE
