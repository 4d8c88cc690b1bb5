--------------------------- MODULE MCAuthService ---------------------------
(* Small instances of AuthService. *)
EXTENDS AuthService, TLC

CONSTANTS a1, a2

\* With passwords the sign-in attempts are explored, behind IIS the sessions.
ClockBound == [development |-> 2, ldap |-> 1, iis |-> 4]
SessionBound == [development |-> 1, ldap |-> 1, iis |-> 4]

Interchangeable == Permutations(Attempts)
=============================================================================
