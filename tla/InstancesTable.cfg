SPECIFICATION Spec
CONSTANTS
  InstanceIds = {i1, i2}
  Absent = Absent
  NoDialog = NoDialog
  MaxDepth = 2
  MaxEvents = 4
INVARIANTS
  TypeOK
  FaultsNeedNesting
  ActedOnWhatWasClicked
  TransitionalIsPolled
  IdleIsClean
  RowsAreDistinct
  RowFaultsNeedNestedRefresh
PROPERTY PollingEnds
\* Once the timer has stopped and the bound on events is reached nothing is left to do.
CHECK_DEADLOCK FALSE
