SPECIFICATION Spec
CONSTANTS
  emp = emp  mgr = mgr  pr = pr  trn = trn  tim = tim  sal = sal  h1 = h1  h2 = h2
  day = day  week = week  hop = hop  flat = flat  shared = shared  bus = bus
  zero = zero  fine = fine  free = free  paid = paid
  Users <- MCUsers
  RolesOf <- MCRolesOf
  Trips = {hop, week}
  TripType <- MCTripType
  EarnsReturnDay <- MCEarnsReturnDay
  Accommodations = {flat, shared}
  FirstAccommodations = {flat}
  Transports = {bus}
  Adjustments = {zero, fine}
  NoAdjustment = zero
  TicketPrices = {free, paid}
  NoTicketPrice = free
  NotVerified = NotVerified
  Calculate <- MCCalculate
  Handlers = {h1, h2}
  Adapters = {"memory", "postgres"}
  Leavers = {emp}
  EditsPerStage = 1
  TornEdits = 0
  MaxEvents = 9
INVARIANTS
  TypeOK
  PaidOnStoredFigures
PROPERTIES
  ActsAtomically
  AcknowledgedRowsStay
  TerminalStaysLocked
CONSTRAINT Scope
SYMMETRY SymmetricHandlers
CHECK_DEADLOCK FALSE
