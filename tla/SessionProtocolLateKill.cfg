CONSTANTS
  MaxRuns = 1
  MaxRevision = 2
  NoKey = noKey
  MaxId = 3
  Operations = {"start", "advance"}
  Faults = {"late-kill"}
  Nobody = nobody
SPECIFICATION Spec
INVARIANTS CancelKeepsTheKey
CHECK_DEADLOCK FALSE
