---------------------- MODULE MCDevelopmentRepository ----------------------
(***************************************************************************)
(* DevelopmentRepository with forms that are accepted (a night away, a     *)
(* one-way trip) and refused (a return before the departure, a private car *)
(* without a ticket), verified instants on one day and on the next, and    *)
(* payroll figures in which a bonus and a penalty may cancel out.          *)
(***************************************************************************)
EXTENDS DevelopmentRepository

Night ==
    [departureAt |-> At(63, 6), returnAt |-> At(64, 17), oneWay |-> FALSE,
     accommodationType |-> "none", level |-> "Chairman", cost |-> 12000, managerId |-> "u10",
     personalCar |-> TRUE, tickets |-> 4, samePlace |-> FALSE]

Asked ==
    {Night,
     [Night EXCEPT !.returnAt = At(63, 6), !.oneWay = TRUE, !.managerId = "u4", !.level = "Level 3"],
     [Night EXCEPT !.returnAt = At(62, 6)], [Night EXCEPT !.samePlace = TRUE],
     [Night EXCEPT !.tickets = 0], [Night EXCEPT !.tickets = 5]}

Figures ==
    {[cost |-> 25000, bonus |-> 0, penalty |-> 0],
     [cost |-> 25000, bonus |-> 3000, penalty |-> 3000],
     [cost |-> 12000, bonus |-> 5000, penalty |-> 0]}

Seen == {At(49, 7), At(49, 16), At(50, 16)}
=============================================================================
