------------------------- MODULE SalaryCalculation -------------------------
(***************************************************************************)
(* The amount of a trip: calculateSalary and the rates of shared/, and the *)
(* calendar of backend/src/services/salaryService.ts.                      *)
(*                                                                         *)
(* Instants are minutes from some midnight in UTC, amounts are hundredths  *)
(* of the currency.  Between them, amounts are kept in fortieths of a      *)
(* hundredth, so that the factors 0.3, 0.5 and 0.625 are exact.            *)
(***************************************************************************)
EXTENDS Integers

CONSTANTS
    CairoOffset(_),  \* minutes by which Cairo is ahead of UTC at an instant
    JobLevel         \* the level selected when the request was submitted

AccommodationType == {"none", "room-only", "room-and-food", "half-board", "bed-and-breakfast",
                      "egas-arranged", "other-company-arranged", "employee-arranged"}

JobLevels == {"Chairman", "Deputy", "Advisor", "Expert", "Assistant", "Deputy Assistant",
              "General Manager", "Assistant General Manager", "Level 1", "Level 2", "Level 3"}

ASSUME JobLevelAssumption == JobLevel \in JobLevels

\* Daily rates, in hundredths.
SalaryRates(level) ==
    CASE level \in {"Chairman", "Deputy", "Advisor", "Expert"} -> 27000
      [] level \in {"Assistant", "Deputy Assistant"} -> 24000
      [] level \in {"General Manager", "Assistant General Manager"} -> 20000
      [] level = "Level 1" -> 14000
      [] level = "Level 2" -> 11000
      [] OTHER -> 6000  \* "Level 3"

\* Factors of a night, in eighths.
AccommodationFactors(type) ==
    CASE type \in {"none", "employee-arranged"} -> 8
      [] type = "room-only" -> 6
      [] type = "half-board" -> 5
      [] OTHER -> 4

----------------------------------------------------------------------------
(* The calendar *)

MinutesPerDay == 1440
SevenHours == 420

LocalTime(t) == t + CairoOffset(t)
LocalDay(t) == LocalTime(t) \div MinutesPerDay
UtcDay(t) == t \div MinutesPerDay

\* Mutant: nights are counted on UTC dates, as the page of timing counts them.
UtcOvernightCount(departureAt, returnAt) ==
    LET nights == UtcDay(returnAt) - UtcDay(departureAt)
    IN  IF nights > 0 THEN nights ELSE 0

OvernightCount(departureAt, returnAt) ==
    LET nights == LocalDay(returnAt) - LocalDay(departureAt)
    IN  IF nights > 0 THEN nights ELSE 0

\* The last day starts at 08:00.
ReturnDayMinutes(returnAt) ==
    LET worked == (LocalTime(returnAt) % MinutesPerDay) - 480
    IN  IF worked > 0 THEN worked ELSE 0

----------------------------------------------------------------------------
(* The amounts *)

Fortieths(amount) == 40 * amount

\* Halves are rounded up.
Rounded(x) == (x + 20) \div 40

\* input: accommodationType, overnightCount, isSameDayMission, the verified
\* minutes of the same day and of the return day, transportationCost, bonusAmount
\* and penaltyAmount.  Numbers that are not negative pass the validation.
CalculateSalary(input) ==
    LET rate == SalaryRates(JobLevel)
        overnight == IF input.isSameDayMission THEN 0
                     ELSE 5 * rate * input.overnightCount
                            * AccommodationFactors(input.accommodationType)
        sameDay == IF input.isSameDayMission /\ input.sameDayMinutes >= SevenHours
                   THEN 20 * rate ELSE 0
        returnDay == IF ~input.isSameDayMission /\ input.returnDayMinutes >= SevenHours
                     THEN 12 * rate ELSE 0
        total == overnight + sameDay + returnDay
                   + Fortieths(input.transportationCost + input.bonusAmount - input.penaltyAmount)
    IN  [dailyRate |-> rate,
         overnightCount |-> input.overnightCount,
         overnightAmount |-> Rounded(overnight),
         sameDayAmount |-> Rounded(sameDay),
         returnDayAmount |-> Rounded(returnDay),
         transportationCost |-> input.transportationCost,
         bonusAmount |-> input.bonusAmount,
         penaltyAmount |-> input.penaltyAmount,
         totalAmount |-> Rounded(total)]

ComputeInitialSalaryPreview(trip, accommodationType) ==
    LET nights == OvernightCount(trip.departureAt, trip.returnAt)
    IN  CalculateSalary(
          [accommodationType |-> accommodationType,
           overnightCount |-> nights,
           isSameDayMission |-> nights = 0,
           sameDayMinutes |-> 0,
           returnDayMinutes |-> IF nights > 0 THEN ReturnDayMinutes(trip.returnAt) ELSE 0,
           transportationCost |-> 0, bonusAmount |-> 0, penaltyAmount |-> 0])

----------------------------------------------------------------------------
(* The hours a request carries.  createNewRequest credits return-day hours  *)
(* from the claimed dates and no correction touches them; timing credits    *)
(* same-day or return-day hours, as the verified dates agree in UTC or not. *)

CreditedMinutes(f) == IF f.hoursCredited THEN SevenHours ELSE 0

VerifiedOnOneDay(f, notVerified) ==
    /\ f.verifiedDates # notVerified
    /\ UtcDay(f.verifiedDates.departureAt) = UtcDay(f.verifiedDates.returnAt)

RecalculateSalaryPreview(f, notVerified) ==
    LET dates == IF f.verifiedDates = notVerified THEN f.trip ELSE f.verifiedDates
        nights == OvernightCount(dates.departureAt, dates.returnAt)
        oneDay == VerifiedOnOneDay(f, notVerified)
    IN  CalculateSalary(
          [accommodationType |-> f.accommodationType,
           overnightCount |-> nights,
           isSameDayMission |-> nights = 0,
           sameDayMinutes |-> IF oneDay THEN CreditedMinutes(f) ELSE 0,
           returnDayMinutes |-> IF oneDay THEN 0 ELSE CreditedMinutes(f),
           transportationCost |-> f.ticket,
           bonusAmount |-> f.adjustments.bonus,
           penaltyAmount |-> f.adjustments.penalty])
=============================================================================
