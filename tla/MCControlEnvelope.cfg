\* A task posted again with another goal.
SPECIFICATION ControlSpec
CONSTANTS
  Replicas = {"p1", "p2"}
  ApiRuns = {"r1", "r2"}
  ApiTasks = {"t1", "t2"}
  Goals = {"g1", "g2"}
  Compatible = {"g1"}
  SameAgain = FALSE
  MaxApiRevision = 4
CHECK_DEADLOCK FALSE
INVARIANT JudgedAsCreated
