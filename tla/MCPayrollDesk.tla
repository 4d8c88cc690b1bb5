--------------------------- MODULE MCPayrollDesk ---------------------------
(***************************************************************************)
(* PayrollDesk with two requests, of which others write to one, and two    *)
(* sets of figures.                                                        *)
(***************************************************************************)
EXTENDS PayrollDesk, TLC

CONSTANTS r1, r2

Both == {r1, r2}
Writes == (r1 :> 1) @@ (r2 :> 0)

Interchangeable == Permutations(Figures)
=============================================================================
