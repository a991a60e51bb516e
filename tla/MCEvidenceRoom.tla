--------------------------- MODULE MCEvidenceRoom ---------------------------
(* Small instances of EvidenceRoom. *)
EXTENDS EvidenceRoom, TLC

CONSTANTS t1, t2, e1, f1, f2

\* Each thread in a process of its own, named like it.
OneServerEach == [t \in Threads |-> t]

\* Two facts of one evidence.
TwoFacts == f1 :> e1 @@ f2 :> e1

ThreadSymmetry == Permutations(Threads)
=============================================================================
