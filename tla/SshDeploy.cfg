SPECIFICATION Spec
CONSTANTS
  MaxDeploys = 3
  MaxOutstanding = 3
INVARIANTS
  TypeOK
  FailedDeploysReleaseSession
  MonitoredUntilHealthy
PROPERTY MonitoringEnds
