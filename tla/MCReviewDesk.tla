---------------------------- MODULE MCReviewDesk ----------------------------
(***************************************************************************)
(* ReviewDesk with two requests, of which others write to one, and a       *)
(* method that the form of transportation cannot show.                     *)
(***************************************************************************)
EXTENDS ReviewDesk, TLC

CONSTANTS r1, r2

Both == {r1, r2}
Writes == (r1 :> 1) @@ (r2 :> 0)
=============================================================================
