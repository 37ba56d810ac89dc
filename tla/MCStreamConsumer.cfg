\* Redelivery, lost acknowledgements, retention, an exception and a restart.
SPECIFICATION Spec
CONSTANTS
  MaxStream = 4
  Retention = 3
  MaxFetch = 2
  MaxCrashes = 1
  MaxErrors = 1
  MaxLostAcks = 1
CHECK_DEADLOCK FALSE
INVARIANTS
  TypeOK
  HandedOnceInOrder
  LossesAreErrors
PROPERTY EventuallyHandedOrReported
