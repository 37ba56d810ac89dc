\* Two publishers, two aggregates, two failed drains, fair scheduling.
SPECIFICATION FairSpec
CONSTANTS
  Publishers = {p1, p2}
  Aggregates = {a1, a2}
  MaxRows = 2
  MaxFailures = 2
CHECK_DEADLOCK FALSE
INVARIANTS
  TypeOK
  PublishedWasStored
  FirstCopiesInOrder
  CopiesArePaidFor
PROPERTIES
  EventuallyPublished
