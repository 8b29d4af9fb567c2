CONSTANTS
  MaxRuns = 1
  MaxRevision = 1
  NoKey = noKey
  MaxId = 2
  Operations = {"session", "start", "advance"}
  Faults = {"late-kill", "blocked-output", "overflow", "broken-output", "adapter-failure", "stale-inputs"}
  Nobody = nobody
SPECIFICATION FairSpec
PROPERTIES ReaderReturns
CHECK_DEADLOCK FALSE
