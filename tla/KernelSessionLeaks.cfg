CONSTANTS
  Envs = {e1}
  Modules = {m1}
  Acts = {a, b}
  Residue = residue
  None = none
  NoSnapshot = noSnapshot
  ReuseReads = FALSE
  Faults <- Leaking
  MaxStates = 4
  MaxSequence = 7
  MaxGeneration = 2
SPECIFICATION Spec
INVARIANTS VerdictsFaithful
CHECK_DEADLOCK FALSE
