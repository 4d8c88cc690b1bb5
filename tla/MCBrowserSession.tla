-------------------------- MODULE MCBrowserSession --------------------------
(* A small instance of BrowserSession. *)
EXTENDS BrowserSession, TLC

CONSTANTS t1, t2, c1, c2

Interchangeable == Permutations(Tabs) \union Permutations(Calls)
=============================================================================
