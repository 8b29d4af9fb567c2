SPECIFICATION FocusedSpec
CONSTANTS
  Bound = 6
  Types <- MCTypes
  TypeSize <- Size
  Problems <- MCProblems
INVARIANTS NoProofMeansNone
CHECK_DEADLOCK FALSE
