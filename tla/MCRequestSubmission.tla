------------------------ MODULE MCRequestSubmission ------------------------
(* A small instance of RequestSubmission. *)
EXTENDS RequestSubmission

CONSTANTS e1, m1, nobody

\* Three short months, the second one the longest, then a new year: the
\* earliest day is clamped to a shorter month on the first day of the run.
MCMonths == << [year |-> 1, length |-> 1], [year |-> 1, length |-> 3], [year |-> 2, length |-> 1] >>

MCFirstDay == [month |-> 2, day |-> 3]

Draft == [manager |-> nobody, level |-> TRUE, from |-> "Cairo", to |-> "Tanta",
          departure |-> [month |-> 1, day |-> 1], trip |-> "round-trip", hours |-> 12,
          transport |-> "company-car", amount |-> 0, purpose |-> TRUE]

OwnCar == [Draft EXCEPT !.transport = "personal-car", !.trip = "one-way",
                        !.departure = MCFirstDay]

\* More submissions with the adapter whose numbers collide, more forms with
\* the other one.
MCDrafts == [memory |-> {Draft}, postgres |-> {Draft, OwnCar}]

MCMaxClicks == [memory |-> 3, postgres |-> 2]
=============================================================================
