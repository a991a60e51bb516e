---------------------------- MODULE MCGoogleSync ----------------------------
(* Small instances of GoogleSync. *)
EXTENDS GoogleSync, TLC

CONSTANTS t1, t2, r1, r2, n1, k1, k2

\* One review on each page.
OnePerPage == r1 :> 1 @@ r2 :> 2
=============================================================================
