SPECIFICATION SystemSpec
CONSTANTS
  MaxRequests = 4
  UseShippedCatalogue = FALSE
  Catalogue <- MCCatalogue
  Registered <- MCRegistered
  Implemented <- MCImplemented
  NoProblem = NoProblem
INVARIANTS
  TypeOK
  PushRepliesExamined
  NetworkFailureTroubleshot
  LonePushFailureTroubleshot
  LoneBuildReported
  BuildReportedOnce
  AlarmsAreFailures
  DialogTypeOK
  SolutionsResolveAfterBuildFailure
  DialogExplainsAFailure
  TroubleshooterSurvives
\* A session may end: all requests answered and the dialog closed, or the program
\* ended by an exception.
CHECK_DEADLOCK FALSE
