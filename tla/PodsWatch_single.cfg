SPECIFICATION Spec
CONSTANTS
  Pods = {p1, p2}
  Gone = 3
  MaxWatches = 1
  RefreshWhileWatching = FALSE
INVARIANT TypeOK
PROPERTIES
  ImplementsReplica
  ChangesAreShown
\* Once every pod is gone and its events are handled nothing is left to do.
CHECK_DEADLOCK FALSE
