CONSTANTS
  MaxRuns = 2
  MaxRevision = 1
  NoKey = noKey
  MaxId = 2
  Operations = {"session", "start", "advance", "snapshot", "discard"}
  Faults = {"adapter-failure", "stale-inputs", "broken-output"}
  Nobody = nobody
SPECIFICATION Spec
INVARIANTS CancelledIsOver EveryStartHasItsResult ActiveAccounts ConsumedOnce RunsStayReachable
CHECK_DEADLOCK FALSE
