------------------------ MODULE MCRequestLifecycle ------------------------
(* A small company for RequestLifecycle. *)
EXTENDS RequestLifecycle

CONSTANTS emp, mgr, mgr2, pr, trn, tim, sal,
          day, week, hop, flat, shared, bus, car, zero, waived, fine, free, paid

MCUsers == {emp, mgr, mgr2, pr, trn, tim, sal}

\* sal also travels; mgr2 is a manager nobody selected.
MCRolesOf ==
    [u \in MCUsers |->
        CASE u = emp -> {"employee"}
          [] u \in {mgr, mgr2} -> {"manager"}
          [] u = pr -> {"pr"}
          [] u = trn -> {"transportation"}
          [] u = tim -> {"timing"}
          [] u = sal -> {"employee", "salary"}]

MCTripType == [t \in Trips |-> IF t = hop THEN "one-way" ELSE "round-trip"]
MCEarnsReturnDay == [t \in Trips |-> t = week]

\* A penalty that a bonus of the same size waives leaves the total alone.
MCCalculate(f) ==
    LET dates == IF f.verifiedDates = NotVerified THEN f.trip ELSE f.verifiedDates
        nights == IF dates = week THEN (IF f.accommodationType = flat THEN 4 ELSE 2) ELSE 0
        hours == IF f.hoursCredited THEN 1 ELSE 0
        ticket == IF f.ticket = paid THEN 8 ELSE 0
        plus == IF f.adjustments = waived THEN 16 ELSE 0
        minus == IF f.adjustments \in {fine, waived} THEN 16 ELSE 0
    IN  [overnightAmount |-> nights, dayAmount |-> hours, transportationCost |-> ticket,
         bonusAmount |-> plus, penaltyAmount |-> minus,
         totalAmount |-> nights + hours + ticket + plus - minus]
=============================================================================
