---------------------------- MODULE PostgresQueue ----------------------------
(***************************************************************************)
(* The processing queue of src/postgres_processing.py and the worker of    *)
(* scripts/worker.py: many processes and one table, whose rows they lock.  *)
(* Every statement is confined to one organization, by its WHERE and by    *)
(* row level security; the module is one organization's part of the table. *)
(*                                                                         *)
(* Two calls are transactions that others can get in between: claim, which *)
(* holds the locks of the rows it recovers and of the row it takes until   *)
(* it commits, and enqueue, which looks its key up and inserts later.      *)
(* complete, fail and recover_expired_leases wait for the row locks they   *)
(* need and see the rows as they are then, so each is one step.            *)
(*                                                                         *)
(* "due" stands for next_attempt_at <= now, "lapsed" for leased_until <=   *)
(* now.  claim orders the due rows by next_attempt_at but skips the locked *)
(* ones; here it may take any due row that is not locked.  The order is    *)
(* the subject of ProcessingQueue.                                         *)
(***************************************************************************)
EXTENDS ProcessingLog

CONSTANTS
  Jobs,         \* the row identifiers
  Keys,         \* idempotency keys
  Limits,       \* the values of max_attempts callers pass
  Producers,    \* those who call enqueue
  Workers, IdOf,  \* the worker processes, and the worker_id of each
  None,         \* SQL's NULL
  MaxExpiries   \* bound: how many leases of one job may run out

WorkerIds == {IdOf[w] : w \in Workers}
ASSUME LimitsAssumption == Limits \subseteq Nat \ {0}
ASSUME MaxExpiriesAssumption == MaxExpiries \in Nat
ASSUME NoneAssumption == None \notin Keys \cup WorkerIds \cup Jobs

VARIABLES
  jobs,      \* table processing_jobs, as committed
  log,       \* table processing_job_events, as committed, per job
  prod,      \* where each producer is in enqueue
  run,       \* where each process is in run_processing_once
  expiries   \* history: how many leases of each job ran out

vars == <<jobs, log, prod, run, expiries>>

Job == [status : Statuses \cup {"absent"}, key : Keys \cup {None}, attempt : Nat, limit : Nat,
        due : BOOLEAN, worker : WorkerIds \cup {None}, lapsed : BOOLEAN]
NoRow == [status |-> "absent", key |-> None, attempt |-> 0, limit |-> 0, due |-> FALSE,
          worker |-> None, lapsed |-> FALSE]
Event == [type : EventTypes, from : Statuses \cup {"absent"}, to : Statuses, attempt : Nat,
          worker : WorkerIds \cup {None}]
Producer == [at : {"idle", "inserting", "raised"}, key : Keys \cup {None}]
Run == [at : {"idle", "claiming", "handling", "returned", "raised"}, job : Jobs \cup {None},
        attempt : Nat, recovered : SUBSET Jobs]
Idle == [at |-> "idle", job |-> None, attempt |-> 0, recovered |-> {}]
NotEnqueuing == [at |-> "idle", key |-> None]

TypeOK ==
  /\ jobs \in [Jobs -> Job]
  /\ log \in [Jobs -> Seq(Event)]
  /\ prod \in [Producers -> Producer]
  /\ run \in [Workers -> Run]
  /\ \A w \in Workers : run[w].at # "idle" => run[w].job \in Jobs
  /\ expiries \in [Jobs -> Nat]

Present(j) == jobs[j].status # "absent"

Logged(l, type, from, to, attempt, worker) ==
  Append(l, [type |-> type, from |-> from, to |-> to, attempt |-> attempt, worker |-> worker])

Init ==
  /\ jobs = [j \in Jobs |-> NoRow]
  /\ log = [j \in Jobs |-> <<>>]
  /\ prod = [p \in Producers |-> NotEnqueuing]
  /\ run = [w \in Workers |-> Idle]
  /\ expiries = [j \in Jobs |-> 0]

-----------------------------------------------------------------------------
(* enqueue: the SELECT, and the INSERT, which the UNIQUE constraint on the *)
(* organization and its keys may refuse.                                   *)

HasKey(k, j) == k # None /\ Present(j) /\ jobs[j].key = k
Violates(k) == \E j \in Jobs : HasKey(k, j)

\* A key that is found ends the call: it returns the job, or raises
\* ProcessingIdempotencyConflict if the payload differs.
LookUp(p, k) ==
  /\ prod[p].at = "idle"
  /\ \A j \in Jobs : ~HasKey(k, j)
  /\ prod' = [prod EXCEPT ![p] = [at |-> "inserting", key |-> k]]
  /\ UNCHANGED <<jobs, log, run, expiries>>

Insert(p, j) ==
  /\ prod[p].at = "inserting" /\ ~Violates(prod[p].key)
  /\ ~Present(j)
  /\ \E n \in Limits :
       jobs' = [jobs EXCEPT ![j] = [NoRow EXCEPT !.status = "pending", !.key = prod[p].key,
                                                 !.limit = n, !.due = TRUE]]
  /\ log' = [log EXCEPT ![j] = Logged(@, "enqueued", "absent", "pending", 0, None)]
  /\ prod' = [prod EXCEPT ![p] = NotEnqueuing]
  /\ UNCHANGED <<run, expiries>>

\* Nothing catches the driver's UniqueViolation.
InsertRaises(p) ==
  /\ prod[p].at = "inserting" /\ Violates(prod[p].key)
  /\ prod' = [prod EXCEPT ![p].at = "raised"]
  /\ UNCHANGED <<jobs, log, run, expiries>>

\* The caller gives up, or dies in between.
EnqueueEnds(p) ==
  /\ prod[p].at # "idle"
  /\ prod' = [prod EXCEPT ![p] = NotEnqueuing]
  /\ UNCHANGED <<jobs, log, run, expiries>>

-----------------------------------------------------------------------------
(* Time. *)

BecomesDue(j) ==
  /\ jobs[j].status = "pending" /\ ~jobs[j].due
  /\ jobs' = [jobs EXCEPT ![j] = [@ EXCEPT !.due = TRUE]]
  /\ UNCHANGED <<log, prod, run, expiries>>

LeaseRunsOut(j) ==
  /\ jobs[j].status = "processing" /\ ~jobs[j].lapsed
  /\ expiries[j] < MaxExpiries
  /\ jobs' = [jobs EXCEPT ![j] = [@ EXCEPT !.lapsed = TRUE]]
  /\ expiries' = [expiries EXCEPT ![j] = @ + 1]
  /\ UNCHANGED <<log, prod, run>>

-----------------------------------------------------------------------------
(* Workers. *)

Locked_RecoveredOnly(j) == \E w \in Workers : run[w].at = "claiming" /\ j \in run[w].recovered
Locked(j) ==
  \E w \in Workers : run[w].at = "claiming" /\ j \in run[w].recovered \cup {run[w].job}

Expired(j) == jobs[j].status = "processing" /\ jobs[j].lapsed
Released(row, status, due) ==
  [row EXCEPT !.status = status, !.worker = None, !.lapsed = FALSE, !.due = due]

\* The UPDATE returns the row it wrote, whose worker_id is NULL by then.
RecoverExpiredLeases ==
  /\ \E j \in Jobs : Expired(j)
  /\ \A j \in Jobs : Expired(j) => ~Locked(j)
  /\ jobs' = [j \in Jobs |-> IF Expired(j) THEN Released(jobs[j], "pending", TRUE) ELSE jobs[j]]
  /\ log' = [j \in Jobs |->
       IF Expired(j)
         THEN Logged(log[j], "lease_expired", "processing", "pending", jobs[j].attempt, None)
         ELSE log[j]]
  /\ UNCHANGED <<prod, run, expiries>>

\* claim up to its locks: recover in the transaction itself, then take a due
\* row that is not locked.
Ready == {j \in Jobs : /\ ~Locked(j)
                       /\ Expired(j) \/ (jobs[j].status = "pending" /\ jobs[j].due)}

ClaimBegins(w) ==
  /\ run[w].at = "idle"
  /\ \A j \in Jobs : Expired(j) => ~Locked(j)
  /\ \E j \in Ready :
       run' = [run EXCEPT ![w] = [at |-> "claiming", job |-> j, attempt |-> jobs[j].attempt + 1,
                                  recovered |-> {i \in Jobs : Expired(i)}]]
  /\ UNCHANGED <<jobs, log, prod, expiries>>

\* The leases recovered by claim leave no event.
Leased(row, w, n) == [row EXCEPT !.status = "processing", !.attempt = n, !.worker = IdOf[w],
                                 !.lapsed = FALSE]

ClaimCommits(w) ==
  LET j == run[w].job
  IN /\ run[w].at = "claiming"
     /\ jobs' = [i \in Jobs |->
          IF i = j THEN Leased(jobs[j], w, run[w].attempt)
          ELSE IF i \in run[w].recovered THEN Released(jobs[i], "pending", TRUE) ELSE jobs[i]]
     /\ log' = [log EXCEPT ![j] =
          Logged(@, "claimed", "pending", "processing", run[w].attempt, IdOf[w])]
     /\ run' = [run EXCEPT ![w].at = "handling", ![w].recovered = {}]
     /\ UNCHANGED <<prod, expiries>>

HandlerEnds(w) ==
  /\ run[w].at = "handling"
  /\ \E outcome \in {"returned", "raised"} : run' = [run EXCEPT ![w].at = outcome]
  /\ UNCHANGED <<jobs, log, prod, expiries>>

\* WHERE status='processing' AND worker_id=%s
Owned_ByAnyone(j, w) == jobs[j].status = "processing"
Owned(j, w) == jobs[j].status = "processing" /\ jobs[j].worker = IdOf[w]

Exhausted_OneEarly(j) == jobs[j].attempt + 1 >= jobs[j].limit
Exhausted(j) == jobs[j].attempt >= jobs[j].limit

Settle_Silent(w, status, type, due) ==
  /\ jobs' = [jobs EXCEPT ![run[w].job] = Released(@, status, due)]
  /\ run' = [run EXCEPT ![w] = Idle]
  /\ UNCHANGED <<log, prod, expiries>>
Settle(w, status, type, due) ==
  LET j == run[w].job
  IN /\ jobs' = [jobs EXCEPT ![j] = Released(@, status, due)]
     /\ log' = [log EXCEPT ![j] =
          Logged(@, type, "processing", status, jobs[j].attempt, IdOf[w])]
     /\ run' = [run EXCEPT ![w] = Idle]
     /\ UNCHANGED <<prod, expiries>>

Complete(w) ==
  /\ run[w].at = "returned"
  /\ ~Locked(run[w].job) /\ Owned(run[w].job, w)
  /\ Settle(w, "completed", "completed", jobs[run[w].job].due)

Fail(w) ==
  LET j == run[w].job
  IN /\ run[w].at = "raised"
     /\ ~Locked(j) /\ Owned(j, w)
     /\ \/ Exhausted(j) /\ Settle(w, "failed", "failed", TRUE)
        \/ ~Exhausted(j) /\ \E d \in BOOLEAN : Settle(w, "pending", "retry_scheduled", d)

Refused(w) ==
  /\ run[w].at \in {"returned", "raised"}
  /\ ~Locked(run[w].job) /\ ~Owned(run[w].job, w)
  /\ run' = [run EXCEPT ![w] = Idle]
  /\ UNCHANGED <<jobs, log, prod, expiries>>

\* The process dies: an open transaction is rolled back, a lease stays behind.
Crash(w) ==
  /\ run[w].at # "idle"
  /\ run' = [run EXCEPT ![w] = Idle]
  /\ UNCHANGED <<jobs, log, prod, expiries>>

EnqueueStep(p) ==
  \/ \E k \in Keys \cup {None} : LookUp(p, k)
  \/ \E j \in Jobs : Insert(p, j)
  \/ InsertRaises(p)
  \/ EnqueueEnds(p)

WorkerStep(w) ==
  ClaimBegins(w) \/ ClaimCommits(w) \/ HandlerEnds(w) \/ Complete(w) \/ Fail(w) \/ Refused(w)

Next ==
  \/ \E p \in Producers : EnqueueStep(p)
  \/ \E j \in Jobs : BecomesDue(j) \/ LeaseRunsOut(j)
  \/ RecoverExpiredLeases
  \/ \E w \in Workers : WorkerStep(w) \/ Crash(w)

Spec == Init /\ [][Next]_vars

-----------------------------------------------------------------------------
(* Properties. *)

\* One row for a key, however many enqueue calls look it up at once.
OneJobPerKey ==
  \A i, j \in Jobs : Present(i) /\ Present(j) /\ jobs[i].key # None /\ jobs[i].key = jobs[j].key
                       => i = j

\* No two processes run the same attempt of a job, although each chose its row
\* before the other had committed: the row locks keep their choices apart.
AttemptsAreExclusive ==
  \A v, w \in Workers :
    v # w /\ run[v].at # "idle" /\ run[v].job = run[w].job => run[v].attempt # run[w].attempt

\* What concurrent transactions are kept from sharing: a key, and an attempt.
RowsAreExclusive == TypeOK /\ OneJobPerKey /\ AttemptsAreExclusive

\* The outcome of a run that lost its lease is not recorded.  It takes worker
\* identifiers that no two processes share.
StaleRunsAreRefused ==
  [][\A w \in Workers :
       run[w].at # "idle" /\ run'[w].at = "idle" /\ jobs'[run[w].job] # jobs[run[w].job]
         => run[w].attempt = jobs[run[w].job].attempt]_vars

\* Whatever the trail leaves out, it counts the attempts, and it tells how a
\* job that is over ended.
TrailTellsOutcome ==
  \A j \in Jobs : /\ Attempts(log[j]) = jobs[j].attempt
                  /\ LastStatus(log[j]) # jobs[j].status
                       => jobs[j].status = "pending" /\ LastStatus(log[j]) = "processing"

PhaseOf(j) == CASE jobs[j].status = "absent" -> "absent"
                [] jobs[j].status = "pending" -> "waiting"
                [] jobs[j].status = "processing" -> "leased"
                [] jobs[j].status = "completed" -> "done"
                [] jobs[j].status = "failed" -> "dead"

Life == INSTANCE JobLifecycle WITH
  phase <- [j \in Jobs |-> PhaseOf(j)],
  tries <- [j \in Jobs |-> jobs[j].attempt],
  allowance <- [j \in Jobs |-> jobs[j].limit]

LifecycleSpec == Life!Spec
=============================================================================
