SPECIFICATION RepositorySpec
CONSTANTS
  Applicants = {"u1", "u4"}
  Forms <- Asked
  PayrollFigures <- Figures
  Lodgings = {"none", "half-board"}
  Verifiable <- Seen
  MaxOperations = 7
  MaxChanged = 2
INVARIANTS
  RepositoryTypeOK
  PricesAreExplained
PROPERTIES
  FollowsRouteButForTiming
CHECK_DEADLOCK FALSE
