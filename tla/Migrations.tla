----------------------------- MODULE Migrations -----------------------------
(***************************************************************************)
(* Several instances start at once, of the same or of different releases,  *)
(* and each migrates the database before it serves: by scripts/migrate.py, *)
(* which every container's command runs, or by migration_runner.py, which  *)
(* also looks for drift.  A deployment uses one of the two.  Migrating is  *)
(* one transaction under an advisory lock; a file is a record of its name  *)
(* and its content.                                                        *)
(***************************************************************************)
EXTENDS Integers, Sequences

CONSTANTS Instances, Releases,      \* a release is the sequence of its files, by name
          None, MaxFaults           \* bound of crashes and failing statements

VARIABLES program,                  \* "script" or "runner"
          table,                    \* is schema_migrations there?
          rows,                     \* its rows: the checksum (the content) by name; None if without
          executed,                 \* the contents executed and committed, by name; None if unknown
          creating,                 \* the transaction which made the table and has not ended
          locked,                   \* the holder of the advisory lock
          inst, faults
vars == <<program, table, rows, executed, creating, locked, inst, faults>>

Names == UNION {{r[n].name : n \in DOMAIN r} : r \in Releases}
Nothing == [f \in {} |-> None]
Down == [at |-> "down"]
At(i, step) == inst[i].at = step
Go(i, a) == inst' = [inst EXCEPT ![i] = a]

\* A database without the table, or one of the runner's first edition, which kept no checksum.
Init ==
  /\ program \in {"script", "runner"}
  /\ \/ /\ table = FALSE /\ rows = Nothing /\ executed = [f \in Names |-> <<>>]
     \/ /\ table = TRUE /\ program = "runner"
        /\ \E r \in Releases :
             /\ rows = [f \in {r[1].name} |-> None]
             /\ executed = [f \in Names |-> IF f = r[1].name THEN <<None>> ELSE <<>>]
  /\ creating = None /\ locked = None
  /\ inst = [i \in Instances |-> Down] /\ faults = 0

\* The connection is lost or a statement fails: nothing of the transaction stays, and
\* the container starts anew.
Rollback(i) ==
  /\ creating' = IF creating = i THEN None ELSE creating
  /\ locked' = IF locked = i THEN None ELSE locked
  /\ Go(i, Down)
  /\ UNCHANGED <<program, table, rows, executed>>
Crash(i) == /\ ~At(i, "down") /\ faults < MaxFaults /\ faults' = faults + 1 /\ Rollback(i)

Start(i, r) ==
  /\ At(i, "down")
  /\ Go(i, [at |-> IF program = "script" THEN "begun" ELSE "waiting", files |-> r])
  /\ UNCHANGED <<program, table, rows, executed, creating, locked, faults>>

\* The script makes the table before it has the lock.  CREATE TABLE IF NOT EXISTS
\* waits for a transaction which makes it meanwhile, and fails if that one commits.
CreateTable(i) ==
  /\ At(i, "begun") \/ (At(i, "blocked") /\ creating = None)
  /\ IF At(i, "blocked") /\ table
       THEN Rollback(i)
       ELSE /\ IF table THEN UNCHANGED creating /\ Go(i, [inst[i] EXCEPT !.at = "waiting"])
               ELSE IF creating # None THEN UNCHANGED creating /\ Go(i, [inst[i] EXCEPT !.at = "blocked"])
               ELSE creating' = i /\ Go(i, [inst[i] EXCEPT !.at = "waiting"])
            /\ UNCHANGED <<program, table, rows, executed, locked>>
  /\ UNCHANGED faults

\* pg_advisory_xact_lock; the runner makes the table after it.
Lock(i) ==
  /\ At(i, "waiting") /\ locked = None /\ locked' = i
  /\ Go(i, [at |-> "migrating", files |-> inst[i].files, next |-> 1,
            rows |-> rows, executed |-> executed])
  /\ UNCHANGED <<program, table, rows, executed, creating, faults>>

\* The runner refuses a file whose content is not the recorded one.
Drifts_Never(i, file) == FALSE
Drifts(i, file) ==
  /\ program = "runner" /\ file.name \in DOMAIN inst[i].rows
  /\ inst[i].rows[file.name] \notin {None, file.content}

\* One file: recorded before (its checksum is then filled in), drifted, or to execute.
Migrate(i) ==
  LET a == inst[i]  file == a.files[a.next]
      recorded == IF program = "runner" THEN file.content ELSE None
      known == file.name \in DOMAIN a.rows
  IN
  /\ At(i, "migrating") /\ a.next <= Len(a.files)
  /\ IF Drifts(i, file)
       THEN Rollback(i)
       ELSE /\ Go(i, [a EXCEPT !.next = @ + 1,
                               !.rows = [f \in DOMAIN @ \cup {file.name} |->
                                           IF f = file.name THEN recorded ELSE @[f]],
                               !.executed[file.name] = IF known THEN @ ELSE Append(@, file.content)])
            /\ UNCHANGED <<program, table, rows, executed, creating, locked>>
  /\ UNCHANGED faults

Commit(i) ==
  LET a == inst[i] IN
  /\ At(i, "migrating") /\ a.next > Len(a.files)
  /\ table' = TRUE /\ rows' = a.rows /\ executed' = a.executed
  /\ creating' = IF creating = i THEN None ELSE creating
  /\ locked' = None
  /\ Go(i, [at |-> "serving", files |-> a.files])
  /\ UNCHANGED <<program, faults>>

\* An instance is taken down, perhaps for another release.
Stop(i) ==
  /\ At(i, "serving") /\ Go(i, Down)
  /\ UNCHANGED <<program, table, rows, executed, creating, locked, faults>>

Next == \E i \in Instances : \/ Crash(i) \/ CreateTable(i) \/ Lock(i) \/ Migrate(i) \/ Commit(i) \/ Stop(i)
                             \/ \E r \in Releases : Start(i, r)

Spec == Init /\ [][Next]_vars

-----------------------------------------------------------------------------
\* A file is recorded if and only if it was executed, and it was executed once, however
\* many instances start together or fail half-way.
ExecutedOnce == \A f \in Names : Len(executed[f]) = IF f \in DOMAIN rows THEN 1 ELSE 0

\* An instance serves only when all files of its release were executed: with the runner,
\* in the content they have there, unless no checksum was kept when they were.  (The
\* script does not notice an edited file.)
ServesMigrated ==
  \A i \in Instances : At(i, "serving") =>
    \A n \in DOMAIN inst[i].files : LET file == inst[i].files[n] IN
      /\ file.name \in DOMAIN rows
      /\ program = "runner" => executed[file.name] \in {<<None>>, <<file.content>>}

SchemaIsRecorded == ExecutedOnce /\ ServesMigrated
=============================================================================
