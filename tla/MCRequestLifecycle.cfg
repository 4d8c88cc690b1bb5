SPECIFICATION FairSpec
CONSTANTS
  emp = emp  mgr = mgr  mgr2 = mgr2  pr = pr  trn = trn  tim = tim  sal = sal
  day = day  week = week  hop = hop  flat = flat  shared = shared  bus = bus  car = car
  zero = zero  waived = waived  fine = fine  free = free  paid = paid
  Users <- MCUsers
  RolesOf <- MCRolesOf
  Trips = {day, week, hop}
  TripType <- MCTripType
  EarnsReturnDay <- MCEarnsReturnDay
  Accommodations = {flat, shared}
  Transports = {bus}
  Adjustments = {zero, waived}
  NoAdjustment = zero
  TicketPrices = {free, paid}
  NoTicketPrice = free
  NotVerified = NotVerified
  Calculate <- MCCalculate
  Leavers = {}
  EditsPerStage = 1
INVARIANTS
  AuditTrailIsContiguous
  DepartmentsSignOnceInOrder
  AuditTrailExplainsFields
  PreviewFollowsFields
  PriceHistoryIsContinuous
  PaidOnVerifiedFigures
PROPERTIES
  SettledFieldsStayFrozen
  FollowsRouteButForTiming
  EventuallyDecided
CHECK_DEADLOCK FALSE
