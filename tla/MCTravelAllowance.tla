------------------------- MODULE MCTravelAllowance -------------------------
(* One user per role, and instants on both sides of the limits: in Cairo they *)
(* are 01:30 of one day, which is the day before in UTC, 23:30 of the same day, *)
(* and 14:59 and 15:00 of the next one, when summer time has begun.             *)
EXTENDS TravelAllowance

CONSTANTS emp, mgr, pr, trn, tim, sal

MCUsers == {emp, mgr, pr, trn, tim, sal}

MCRolesOf ==
    [u \in MCUsers |->
        CASE u = emp -> {"employee"}
          [] u = mgr -> {"manager"}
          [] u = pr -> {"pr"}
          [] u = trn -> {"transportation"}
          [] u = tim -> {"timing"}
          [] u = sal -> {"salary"}]

MCInstants == {-30, 1290, 2159, 2160}
MCCairoOffset(t) == IF t < 2000 THEN 120 ELSE 180
MCEarnsReturnDay == [t \in Itineraries |-> ItineraryEarnsReturnDay(t)]
MCTripType == [t \in Itineraries |-> t.tripType]
MCCalculate(f) == RecalculateSalaryPreview(f, NotVerified)
MCNoAdjustment == [bonus |-> 0, penalty |-> 0]
MCAdjustments == {MCNoAdjustment, [bonus |-> 1000, penalty |-> 25000]}

ASSUME ParametersFit == AllowanceParameters
=============================================================================
