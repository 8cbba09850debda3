SPECIFICATION Spec
CONSTANT MaxRequests = 2
INVARIANT FailuresTroubleshot
CHECK_DEADLOCK FALSE
