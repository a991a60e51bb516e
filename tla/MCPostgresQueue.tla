--------------------------- MODULE MCPostgresQueue ---------------------------
(* Small instances of PostgresQueue. *)
EXTENDS PostgresQueue, TLC

CONSTANTS j1, j2, k1, p1, p2, w1, w2

OwnIds == [w \in Workers |-> w]
OneLimit == {2}
\* Sound: no row, producer or worker is named by a property, and OwnIds is the
\* identity, which permuting the workers leaves as it is.
Symmetry == Permutations({j1, j2}) \cup Permutations({p1, p2}) \cup Permutations({w1, w2})
=============================================================================
