SPECIFICATION Spec
CONSTANTS
  Pods = {p1}
  Gone = 3
  MaxWatches = 1
  RefreshWhileWatching = FALSE
PROPERTY StopWatchStops
\* Once every pod is gone and its events are handled nothing is left to do.
CHECK_DEADLOCK FALSE
