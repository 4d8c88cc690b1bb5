--------------------------- MODULE SessionTable ---------------------------
(***************************************************************************)
(* What a session table promises to the browsers that hold its tokens: a   *)
(* token is issued once, for one user, and a session that has ended never  *)
(* comes back.  AuthService shows that authService.ts keeps the promise;   *)
(* BrowserSession puts browser tabs and a cookie on top of it.             *)
(***************************************************************************)
EXTENDS Naturals, Sequences

CONSTANT Users

VARIABLES
    issued,   \* issued[t]: the user token t was issued for, in order of issue
    live      \* tokens whose session the table still holds

Tokens == DOMAIN issued

TableInit ==
    /\ issued = <<>>
    /\ live = {}

\* A new session; others may end to make room for it.
Issue(u, ending) ==
    /\ issued' = Append(issued, u)
    /\ live' = (live \ ending) \union {Len(issued) + 1}

\* Expiry, sign-out, sign-out elsewhere, or a restart of the process.
End(ending) ==
    /\ live' = live \ ending
    /\ UNCHANGED issued

TableNext ==
    \/ \E u \in Users, ending \in SUBSET live : Issue(u, ending)
    \/ \E ending \in SUBSET live : End(ending)

TableSpec == TableInit /\ [][TableNext]_<<issued, live>>
=============================================================================
