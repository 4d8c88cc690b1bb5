--------------------------- MODULE MCRequestStore ---------------------------
(* A company of one user per role, and two handlers at a time. *)
EXTENDS RequestStore, TLC

CONSTANTS emp, mgr, pr, trn, tim, sal, h1, h2,
          day, week, hop, flat, shared, bus, zero, fine, free, paid

MCUsers == {emp, mgr, pr, trn, tim, sal}

MCRolesOf ==
    [u \in MCUsers |->
        CASE u = emp -> {"employee"}
          [] u = mgr -> {"manager"}
          [] u = pr -> {"pr"}
          [] u = trn -> {"transportation"}
          [] u = tim -> {"timing"}
          [] u = sal -> {"salary"}]

MCTripType == [t \in Trips |-> IF t = hop THEN "one-way" ELSE "round-trip"]
MCEarnsReturnDay == [t \in Trips |-> t = week]

MCCalculate(f) ==
    LET dates == IF f.verifiedDates = NotVerified THEN f.trip ELSE f.verifiedDates
        nights == IF dates = week THEN (IF f.accommodationType = shared THEN 2 ELSE 4) ELSE 0
        hours == IF f.hoursCredited THEN 1 ELSE 0
        ticket == IF f.ticket = paid THEN 8 ELSE 0
        minus == IF f.adjustments = fine THEN 16 ELSE 0
    IN  [overnightAmount |-> nights, dayAmount |-> hours, transportationCost |-> ticket,
         penaltyAmount |-> minus, totalAmount |-> nights + hours + ticket - minus]

SymmetricHandlers == Permutations(Handlers)

----------------------------------------------------------------------------
(* Scope, the bound of the store's passing run: it follows requests that are *)
(* free of charge with both adapters, and requests with a price up to their  *)
(* payment with PostgreSQL.                                                  *)

Records ==
    {stored.record} \union
    {handlers[h].wanted.record : h \in {g \in Handlers : handlers[g].phase = "computed"}}

Busy == {h \in Handlers : handlers[h].phase # "idle"}

ReadAt(stages) ==
    {h \in Handlers : /\ handlers[h].phase \in {"reading", "computed"}
                      /\ handlers[h].seen.record.stage \in stages}

\* One event less than MaxEvents completes a request if no department acts twice.
Free(r) ==
    /\ {r.fields.trip, r.fields.verifiedDates} \subseteq {hop, NotVerified}
    /\ r.fields.adjustments = zero /\ r.fields.ticket = free
    /\ Len(r.audit) < MaxEvents

Priced(r) ==
    /\ {r.fields.trip, r.fields.verifiedDates} \subseteq {week, NotVerified}
    /\ (r.fields.adjustments = fine) = (r.fields.ticket = paid)

\* With PostgreSQL the edit window stays open, which no handler sees, because
\* TornEdits = 0 allows no corrections.  There, a handler that has read a free
\* request at the stage of timing or of payroll runs alone, and one that has read a
\* priced request at the stage of PR or of transportation, which enter no figure
\* here; users leave while at most one handler is busy.
Scope ==
    \/ adapter = "memory" /\ \A r \in Records : Free(r)
    \/ /\ adapter = "postgres" /\ windowOpen
       /\ \A r \in Records : Free(r)
       /\ active # Users => Cardinality(Busy) <= 1
       /\ ReadAt({"timing-review", "salary-finalization"}) # {} => Cardinality(Busy) = 1
    \/ /\ adapter = "postgres" /\ windowOpen /\ active = Users
       /\ \A r \in Records : Priced(r)
       /\ ReadAt({"pr-review", "transportation-review"}) # {} => Cardinality(Busy) = 1
=============================================================================
