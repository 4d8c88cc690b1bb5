-------------------------- MODULE TravelAllowance --------------------------
(***************************************************************************)
(* RequestLifecycle with the itineraries, hours and amounts of             *)
(* SalaryCalculation: what an employee is paid for a trip that was claimed,*)
(* corrected and verified.                                                 *)
(***************************************************************************)
EXTENDS RequestLifecycle, SalaryCalculation

CONSTANT Instants  \* the times at which trips start and end

\* A one-way request carries its departure as its return.
Itineraries ==
    {t \in [tripType : {"one-way", "round-trip"}, departureAt : Instants, returnAt : Instants] :
        IF t.tripType = "one-way" THEN t.returnAt = t.departureAt
                                  ELSE t.returnAt > t.departureAt}

\* The hours credited at submission: the initial preview pays a return day.
ItineraryEarnsReturnDay(t) ==
    \E a \in Accommodations : ComputeInitialSalaryPreview(t, a).returnDayAmount > 0

\* Clocks in Cairo are never set back across midnight.
ASSUME CalendarAssumption ==
    /\ Instants \subseteq Int
    /\ \A t \in Instants : CairoOffset(t) \in Nat
    /\ \A s, t \in Instants : s <= t => LocalDay(s) <= LocalDay(t)

\* The parameters of the workflow are those of the calculation.
AllowanceParameters ==
    /\ Trips = Itineraries
    /\ TripType = [t \in Trips |-> t.tripType]
    /\ EarnsReturnDay = [t \in Trips |-> ItineraryEarnsReturnDay(t)]
    /\ Accommodations \subseteq AccommodationType
    /\ Adjustments \subseteq [bonus : Nat, penalty : Nat]
    /\ NoAdjustment = [bonus |-> 0, penalty |-> 0]
    /\ TicketPrices \subseteq Nat
    /\ NoTicketPrice = 0
    /\ \A f \in Fields : Calculate(f) = RecalculateSalaryPreview(f, NotVerified)

----------------------------------------------------------------------------
(* Properties *)

\* createNewRequest stores the initial preview, and every later handler uses
\* recalculateSalaryPreview: the hours the record starts with make them agree.
InitialPreviewIsRecalculated ==
    Len(request.audit) = 1 =>
        request.salaryPreview =
            ComputeInitialSalaryPreview(request.fields.trip, request.fields.accommodationType)

\* Whatever is corrected and verified, a one-way trip is never paid an allowance:
\* its dates stay equal and it earns no hours.
OneWayPaysExpensesOnly ==
    TripType[request.submitted.trip] = "one-way" =>
        request.salaryPreview.totalAmount =
            request.fields.ticket + request.fields.adjustments.bonus
              - request.fields.adjustments.penalty

\* The rules of random.md/SALARY_RULES.md, in hundredths.  Nights are the
\* midnights in Cairo that the trip spans.
MidnightsSpanned(d) ==
    Cardinality({day \in LocalDay(d.departureAt)..LocalDay(d.returnAt) :
                    LocalTime(d.departureAt) < MinutesPerDay * day})

AllowanceByTheRules(d, accommodationType, sevenHours) ==
    LET rate == SalaryRates(JobLevel)
        nights == MidnightsSpanned(d)
        hours == IF ~sevenHours THEN 0 ELSE IF nights = 0 THEN rate \div 2 ELSE (3 * rate) \div 10
    IN  (rate * nights * AccommodationFactors(accommodationType)) \div 8 + hours

AllowanceOf(calculation) ==
    calculation.overnightAmount + calculation.sameDayAmount + calculation.returnDayAmount

CalendarsAgree(d) ==
    UtcDay(d.departureAt) = UtcDay(d.returnAt) <=> LocalDay(d.departureAt) = LocalDay(d.returnAt)

\* Once timing has verified the attendance, a request is priced by the rules on
\* the verified dates, and never on what was claimed, if UTC and Cairo agree on
\* whether the trip is one day.
VerifiedTripsFollowTheRules ==
    LET f == request.fields
    IN  f.verifiedDates # NotVerified /\ CalendarsAgree(f.verifiedDates) =>
            AllowanceOf(request.salaryPreview) =
                AllowanceByTheRules(f.verifiedDates, f.accommodationType, f.hoursCredited)

\* random.md/SALARY_RULES.md:4 "Same-day travel with at least seven verified hours
\* receives 50% of the daily rate."
SameDayTravelReceivesHalf ==
    LET f == request.fields
    IN  (/\ f.verifiedDates # NotVerified /\ f.hoursCredited
         /\ LocalDay(f.verifiedDates.departureAt) = LocalDay(f.verifiedDates.returnAt)) =>
            request.salaryPreview.sameDayAmount = SalaryRates(JobLevel) \div 2
=============================================================================
