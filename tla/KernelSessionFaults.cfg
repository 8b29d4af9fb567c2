CONSTANTS
  Envs = {e1}
  Modules = {m1}
  Acts = {a}
  Residue = residue
  None = none
  NoSnapshot = noSnapshot
  ReuseReads = FALSE
  Faults <- FaultKinds
  MaxStates = 2
  MaxSequence = 4
  MaxGeneration = 2
SPECIFICATION FairSpec
INVARIANTS OneStatePerSequence
PROPERTIES StaleForever RollbackRestoresOrPoisons CallsReturn
CHECK_DEADLOCK FALSE
