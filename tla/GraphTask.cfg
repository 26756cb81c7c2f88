CONSTANTS
  m1 = m1
  m2 = m2
  Workers = {w1, w2}
  Memories = {m1, m2}
  NoMemory = none
  Names = {"a", "b", ""}
  Blank = ""
  AllowedTypes = {"TECH", "FILE"}
  Outputs <- TwoOutputs
  MaxAttempts = 2
  MaxOverruns = 1
  MaxGlitches = 1
SPECIFICATION Spec
INVARIANTS EvidenceComplete EvidenceSound
PROPERTY DeferredNeverDropped
CHECK_DEADLOCK FALSE
