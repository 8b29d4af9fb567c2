CONSTANTS
  Sequents <- SmallSequents
  Requests <- SmallRequests
  MaxTries = 2
  Shapes <- SmallShapes
  QueryLimit = 2
  BranchSlice = 1
  EvidenceSlice = 2
  PathSlice = 2
  ShallowSlice = 1
  FocusedSlice = 2
  WrapSlice = 1
  Widths = 2
  Subjects = {x}
  Nobody = nobody
  Reader <- SmallReader
  Ids = {1, 2, 3}
  Symbols = {1, 2, 3, 8, 9}
  Fragments = {"p", "q"}
  Names = {"f", "g", "h"}
  FragmentsOf <- SmallFragments
  Heads = {"nat", "eq", "none"}
  Arities = {0, 1, 2}
  Unknown = "none"
  ModuleNames = {"m", "n"}
  Scopes <- SmallScopes
  NoModule = noModule
  Reuse = TRUE
  Goals <- SmallGoals
  Queries <- SmallQueries
  RetrieveLimit = 3
  ProgressiveWidths <- SmallProgressiveWidths
  MaxPools = 2
  MaxPoolSize = 3
  Wideners = {1}
  Bound = 6
  Types <- SmallTypes
  TypeSize <- Size
  Refutations <- Refuting
  MaxSolutions = 2
  AssignmentBudget = 4
  Problems <- SmallProblems
  GoalTasks <- SmallGoalTasks
  AtomOrder <- SmallAtomOrder
  Resting <- SmallResting
SPECIFICATION StructuralSpec
INVARIANTS IndexIsFresh RetrievalIsPrefixStable WideningKeepsItsPool ResultsAreWhole StackHolds
  ProofsAreProofs FailuresAreReal LabelsAreTheProofs RefutationsRefute CreditIsDue UnsolvedIsEarned
PROPERTIES SearchesEnd KeepsContract
CHECK_DEADLOCK FALSE
