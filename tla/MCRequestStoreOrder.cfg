SPECIFICATION Spec
CONSTANTS
  emp = emp  mgr = mgr  pr = pr  trn = trn  tim = tim  sal = sal  h1 = h1  h2 = h2
  day = day  week = week  hop = hop  flat = flat  shared = shared  bus = bus
  zero = zero  fine = fine  free = free  paid = paid
  Users <- MCUsers
  RolesOf <- MCRolesOf
  Trips = {week}
  TripType <- MCTripType
  EarnsReturnDay <- MCEarnsReturnDay
  Accommodations = {flat}
  FirstAccommodations = {flat}
  Transports = {bus}
  Adjustments = {zero}
  NoAdjustment = zero
  TicketPrices = {free, paid}
  NoTicketPrice = free
  NotVerified = NotVerified
  Calculate <- MCCalculate
  Handlers = {h1, h2}
  Adapters = {"postgres"}
  Leavers = {}
  EditsPerStage = 1
  TornEdits = 1
  MaxEvents = 9
PROPERTY DepartmentsDecideInOrder
SYMMETRY SymmetricHandlers
CHECK_DEADLOCK FALSE
