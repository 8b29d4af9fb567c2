CONSTANTS
  Envs = {e1, e2}
  Modules = {m1}
  Acts = {a}
  Residue = residue
  None = none
  NoSnapshot = noSnapshot
  ReuseReads = TRUE
  Faults <- Contained
  MaxStates = 3
  MaxSequence = 4
  MaxGeneration = 2
SPECIFICATION Spec
INVARIANTS VerdictsFaithful MarkerFaithful
CHECK_DEADLOCK FALSE
