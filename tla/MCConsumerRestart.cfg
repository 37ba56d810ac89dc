\* A restart between the acknowledgement and the yield.
SPECIFICATION Spec
CONSTANTS
  MaxStream = 2
  Retention = 2
  MaxFetch = 2
  MaxCrashes = 1
  MaxErrors = 0
  MaxLostAcks = 0
CHECK_DEADLOCK FALSE
INVARIANT AcknowledgedWasHanded
