\* begin_admission races with the other commands on its run.
SPECIFICATION Spec
CONSTANTS
  Workers = {w1, w2}
  Runs = {r1}
  Tasks = {t1}
  WaitRequests = {"admitted_execution"}
  TerminalRequests = {"completed", "cancelled"}
  LeaseTTL = 1
  ResultTTL = 1
  SerialAdmission = FALSE
  MaxRevision = 5
  MaxTime = 1
SYMMETRY Symmetry
CHECK_DEADLOCK FALSE
PROPERTY TerminalIsFinal
