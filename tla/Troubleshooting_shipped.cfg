SPECIFICATION SystemSpec
CONSTANTS
  MaxRequests = 2
  UseShippedCatalogue = TRUE
  Catalogue <- MCCatalogue
  Registered <- MCRegistered
  Implemented <- MCImplemented
  NoProblem = NoProblem
INVARIANT TroubleshooterSurvives
CHECK_DEADLOCK FALSE
