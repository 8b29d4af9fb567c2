CONSTANTS
  a1 = a1
  CaseRequests <- NoCaseRequests
  MaxClauses = 2
  MaxQueries = 1
  CaseSlice = 1
  QuerySlice = 1
  MaxSpecs = 2
  WrapSlice = 2
  FocusSlice = 1
  JointTasks <- MCOverspendingTasks
  AttendedTasks <- NoTasks
  GoalLimit = 1
  MaxObserved = 2
  MaxPrograms = 2
  RunFaults <- MCRunFaults
  Depth = 2
  Areas = {a1}
  Allowances <- MCOneAllowance
  MaxSize = 2
  MaxBytes = 3
  MaxDenied = 1
  NativeTasks <- NoTasks
  MaxBranch = 1
  Actions = {1}
SPECIFICATION Spec
INVARIANT ValidTasksStayValid
CHECK_DEADLOCK FALSE
