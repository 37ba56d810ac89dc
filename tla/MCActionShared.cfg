\* Two callers that may work on one key at the same time.
SPECIFICATION Spec
CONSTANTS
  Callers = {c1, c2}
  Keys = {k1}
  Tokens = {1, 2}
  Exclusive = FALSE
  MaxAttempts = 3
  MaxRevision = 12
  MaxTime = 1
SYMMETRY Symmetry
CHECK_DEADLOCK FALSE
PROPERTIES
  RevisionsNeverFall
