--------------------------- MODULE MCCaseApproval ---------------------------
(* Small instances of CaseApproval. *)
EXTENDS CaseApproval, TLC

CONSTANTS d1, d2, s1, s2, t1, t2, t3

OneProcess == [t \in Threads |-> s1]
TwoProcesses == [t \in Threads |-> IF t = t3 THEN s2 ELSE s1]
\* A bound: requests overlap in s1, or s2 serves the case as well, but not both.
OneHazard == overlap => store[s2].case.status = "absent"
\* Sound: no decision is named by a property or a constant, and t1 and t2 are
\* threads of the same process.
Symmetry == Permutations({d1, d2}) \cup Permutations({t1, t2})
=============================================================================
