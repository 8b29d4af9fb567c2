CONSTANTS
  a1 = a1
  CaseRequests <- MCCaseRequests
  MaxClauses = 2
  MaxQueries = 1
  CaseSlice = 1
  QuerySlice = 1
  MaxSpecs = 2
  WrapSlice = 2
  FocusSlice = 1
  JointTasks <- MCJointTasks
  AttendedTasks <- MCAttendedTasks
  GoalLimit = 1
  MaxObserved = 2
  MaxPrograms = 2
  RunFaults <- MCRunFaults
  Depth = 2
  Areas = {a1}
  Allowances <- MCAllowances
  MaxSize = 2
  MaxBytes = 3
  MaxDenied = 1
  NativeTasks <- MCNativeTasks
  MaxBranch = 4
  Actions = {1}
SPECIFICATION FairSpec
INVARIANTS EditsFitTheSource OverspendBounded SessionHoldsTheState AnswersAreHonest StoppedMeansGone AcceptedWasValidated BudgetsHold HandlesStayGood NativeRunIsHonest
PROPERTY ProverEnds
CHECK_DEADLOCK FALSE
