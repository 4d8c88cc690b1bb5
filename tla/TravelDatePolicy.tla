-------------------------- MODULE TravelDatePolicy --------------------------
(***************************************************************************)
(* shared/date/travelDatePolicy.ts: how far back a trip may lie when it is *)
(* submitted.  A date is a day of a month of a calendar; the hours of a    *)
(* day do not matter, because the boundary is a local midnight.            *)
(***************************************************************************)
EXTENDS Integers, Sequences

CONSTANT Months   \* the months of the calendar, each with its year and length

ASSUME MonthsAssumption ==
    /\ Months \in Seq([year : Nat, length : Nat \ {0}])
    /\ Len(Months) > 1

Date == [month : 1..Len(Months), day : Nat \ {0}]

IsDay(d) == d \in Date /\ d.day <= Months[d.month].length

Year(d) == Months[d.month].year

Precedes(a, b) == \/ a.month < b.month
                  \/ a.month = b.month /\ a.day <= b.day

HasTomorrow(d) == d.day < Months[d.month].length \/ d.month < Len(Months)

Tomorrow(d) ==
    IF d.day < Months[d.month].length
    THEN [month |-> d.month, day |-> d.day + 1]
    ELSE [month |-> d.month + 1, day |-> 1]

\* Mutant of EarliestTravelDate: the day is not clamped to the month before.
EarliestOverflowing(now) ==
    LET last == Months[now.month - 1].length
    IN  IF now.day <= last THEN [month |-> now.month - 1, day |-> now.day]
                           ELSE [month |-> now.month, day |-> now.day - last]

\* The same day of the month before, or the last one if that month is shorter.
EarliestTravelDate(now) ==
    LET last == Months[now.month - 1].length
    IN  [month |-> now.month - 1, day |-> IF now.day <= last THEN now.day ELSE last]

IsWithinTravelSubmissionWindow(d, now) == Precedes(EarliestTravelDate(now), d)
=============================================================================
