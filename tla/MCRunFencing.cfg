\* Fencing tokens across the leases of a run.
SPECIFICATION Spec
CONSTANTS
  Workers = {w1, w2}
  Runs = {r1}
  Tasks = {t1}
  WaitRequests = {"admitted_execution"}
  TerminalRequests = {}
  LeaseTTL = 1
  ResultTTL = 1
  SerialAdmission = TRUE
  MaxRevision = 6
  MaxTime = 0
SYMMETRY Symmetry
CHECK_DEADLOCK FALSE
INVARIANT FencingTokensGrow
