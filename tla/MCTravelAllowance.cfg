SPECIFICATION Spec
CONSTANTS
  emp = emp  mgr = mgr  pr = pr  trn = trn  tim = tim  sal = sal
  Users <- MCUsers
  RolesOf <- MCRolesOf
  Instants <- MCInstants
  CairoOffset <- MCCairoOffset
  JobLevel = "Level 2"
  Trips <- Itineraries
  TripType <- MCTripType
  EarnsReturnDay <- MCEarnsReturnDay
  Accommodations = {"half-board"}
  Transports = {"train"}
  Adjustments <- MCAdjustments
  NoAdjustment <- MCNoAdjustment
  TicketPrices = {0, 4550}
  NoTicketPrice = 0
  NotVerified = NotVerified
  Calculate <- MCCalculate
  Leavers = {emp}
  EditsPerStage = 1
INVARIANTS
  InitialPreviewIsRecalculated
  OneWayPaysExpensesOnly
  VerifiedTripsFollowTheRules
CHECK_DEADLOCK FALSE
