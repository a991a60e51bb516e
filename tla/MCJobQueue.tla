----------------------------- MODULE MCJobQueue -----------------------------
(* Small instances of JobQueue. *)
EXTENDS JobQueue, TLC

CONSTANTS j1, j2, o1, o2, k1, p1, p2, t1, t2

OwnWorkerIds == t1 :> "w1" @@ t2 :> "w2"
OneLimit == {2}
OnePriority == {0}
TwoPriorities == {0, 1}
=============================================================================
