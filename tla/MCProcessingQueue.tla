-------------------------- MODULE MCProcessingQueue --------------------------
(* Small instances of ProcessingQueue. *)
EXTENDS ProcessingQueue, TLC

CONSTANTS j1, j2, k1, t1, t2

OwnWorkerIds == [t \in Threads |-> t]
OneLimit == {2}
NowOrLater == {0, 1}
\* Sound: no row or thread is named by a property, and OwnWorkerIds is the
\* identity, which permuting the threads leaves as it is.
Symmetry == Permutations({j1, j2}) \cup Permutations({t1, t2})
=============================================================================
