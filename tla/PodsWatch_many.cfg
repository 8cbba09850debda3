SPECIFICATION Spec
CONSTANTS
  Pods = {p1}
  Gone = 3
  MaxWatches = 2
  RefreshWhileWatching = TRUE
INVARIANT ListedBounded
PROPERTY GoneRowsVanish
\* Once every pod is gone and its events are handled nothing is left to do.
CHECK_DEADLOCK FALSE
