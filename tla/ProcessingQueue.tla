--------------------------- MODULE ProcessingQueue ---------------------------
(***************************************************************************)
(* The processing queue and the worker of src/processing_jobs.py, on       *)
(* SQLite within one process: the operations of the queue exclude each     *)
(* other by its lock, handlers run outside it.                             *)
(*                                                                         *)
(* Unlike JobQueue this queue has no priorities, serves jobs in the order  *)
(* of next_attempt_at, and writes an event for every change of status.     *)
(* The order and the trail depend on the instants operations take from     *)
(* the clock, so the clock is explicit.  claim and enqueue read it before  *)
(* they wait for the lock: what they use may be LockWait behind.           *)
(***************************************************************************)
EXTENDS ProcessingLog

CONSTANTS
  Jobs,         \* the row identifiers
  Keys,         \* an organization together with one of its idempotency keys
  Limits,       \* the values of max_attempts callers pass
  Delays,       \* retry_delay of fail, and next_attempt_at of enqueue after now
  LeaseSeconds,
  Threads, WorkerOf,  \* those who call run_once, and their worker_id
  None,         \* SQL's NULL
  LockWait,     \* bound: how long an operation waits for the lock
  MaxClock      \* bound: how long the clock runs

ASSUME LimitsAssumption == Limits \subseteq Nat \ {0}
ASSUME TimeAssumption ==
  Delays \subseteq Nat /\ LeaseSeconds \in Nat /\ LockWait \in Nat /\ MaxClock \in Nat
Workers == {WorkerOf[t] : t \in Threads}
ASSUME NoneAssumption == None \notin Keys \cup Workers \cup Jobs

VARIABLES
  clock,
  jobs,   \* table processing_jobs
  log,    \* table processing_job_events, per job, in the order of insertion
  run     \* where each thread is in run_once, and the job claim returned to it

vars == <<clock, jobs, log, run>>

Job == [status : Statuses \cup {"absent"}, key : Keys \cup {None}, attempt : Nat, limit : Nat,
        next : Nat, created : Nat, worker : Workers \cup {None}, until : Nat \cup {None}]
NoRow == [status |-> "absent", key |-> None, attempt |-> 0, limit |-> 0, next |-> 0,
          created |-> 0, worker |-> None, until |-> None]
Event == [type : EventTypes, from : Statuses \cup {"absent"}, to : Statuses, attempt : Nat,
          worker : Workers \cup {None}, at : Nat]
Run == [at : {"idle", "handling", "returned", "raised"}, job : Jobs \cup {None}, attempt : Nat]
Idle == [at |-> "idle", job |-> None, attempt |-> 0]

TypeOK ==
  /\ clock \in Nat
  /\ jobs \in [Jobs -> Job]
  /\ log \in [Jobs -> Seq(Event)]
  /\ run \in [Threads -> Run]
  /\ \A t \in Threads : run[t].at # "idle" => run[t].job \in Jobs

Present(j) == jobs[j].status # "absent"
Readings == {c \in 0..clock : clock <= c + LockWait}

\* _event
Logged(l, type, from, to, attempt, worker, now) ==
  Append(l, [type |-> type, from |-> from, to |-> to, attempt |-> attempt,
             worker |-> worker, at |-> now])

Init ==
  /\ clock = 0
  /\ jobs = [j \in Jobs |-> NoRow]
  /\ log = [j \in Jobs |-> <<>>]
  /\ run = [t \in Threads |-> Idle]

Tick ==
  /\ clock < MaxClock
  /\ clock' = clock + 1
  /\ UNCHANGED <<jobs, log, run>>

-----------------------------------------------------------------------------
KeyTaken(k) == k # None /\ \E i \in Jobs : Present(i) /\ jobs[i].key = k

\* When the key is taken the call returns the job of that key, or raises
\* ProcessingIdempotencyConflict: it changes nothing.
Enqueue(j, k) ==
  /\ ~Present(j)
  /\ ~KeyTaken(k)
  /\ \E now \in Readings, n \in Limits, d \in Delays :
       /\ jobs' = [jobs EXCEPT ![j] = [NoRow EXCEPT !.status = "pending", !.key = k, !.limit = n,
                                                    !.next = now + d, !.created = now]]
       /\ log' = [log EXCEPT ![j] = Logged(@, "enqueued", "absent", "pending", 0, None, now)]
  /\ UNCHANGED <<clock, run>>

Expired(j, now) == jobs[j].status = "processing" /\ jobs[j].until <= now

\* _recover
Recovered_KeepsTurn(j, now) ==
  IF Expired(j, now)
    THEN [jobs[j] EXCEPT !.status = "pending", !.worker = None, !.until = None]
    ELSE jobs[j]
Recovered(j, now) ==
  IF Expired(j, now)
    THEN [jobs[j] EXCEPT !.status = "pending", !.worker = None, !.until = None, !.next = now]
    ELSE jobs[j]
RecoveredLog_Silent(j, now) == log[j]
RecoveredLog(j, now) ==
  IF Expired(j, now)
    THEN Logged(log[j], "lease_expired", "processing", "pending", jobs[j].attempt,
                jobs[j].worker, now)
    ELSE log[j]

RecoverExpiredLeases ==
  /\ \E j \in Jobs : Expired(j, clock)
  /\ jobs' = [j \in Jobs |-> Recovered(j, clock)]
  /\ log' = [j \in Jobs |-> RecoveredLog(j, clock)]
  /\ UNCHANGED <<clock, run>>

\* What claim selects from, once it has recovered the expired leases.
Ready(now) == {j \in Jobs : Recovered(j, now).status = "pending" /\ Recovered(j, now).next <= now}

\* ORDER BY next_attempt_at, created_at
Before(r, s) == \/ r.next < s.next
                \/ r.next = s.next /\ r.created < s.created

Claim(t) ==
  /\ run[t].at = "idle"
  /\ \E now \in Readings : \E j \in Ready(now) :
       LET row == Recovered(j, now)
       IN /\ \A i \in Ready(now) : ~Before(Recovered(i, now), row)
          /\ jobs' = [i \in Jobs |->
               IF i = j THEN [row EXCEPT !.status = "processing", !.attempt = @ + 1,
                                         !.worker = WorkerOf[t], !.until = now + LeaseSeconds]
               ELSE Recovered(i, now)]
          /\ log' = [i \in Jobs |->
               IF i = j THEN Logged(RecoveredLog(j, now), "claimed", "pending", "processing",
                                    row.attempt + 1, WorkerOf[t], now)
               ELSE RecoveredLog(i, now)]
          /\ run' = [run EXCEPT ![t] = [at |-> "handling", job |-> j, attempt |-> row.attempt + 1]]
  /\ UNCHANGED clock

\* (A claim that finds nothing ready has recovered nothing either, since a row
\* it recovers is ready at once: it changes nothing.)

\* The handler returns, or raises; a kind without a handler fails at once.
HandlerEnds(t) ==
  /\ run[t].at = "handling"
  /\ \E outcome \in {"returned", "raised"} : run' = [run EXCEPT ![t].at = outcome]
  /\ UNCHANGED <<clock, jobs, log>>

\* _owned
Owned(j, w) == jobs[j].status = "processing" /\ jobs[j].worker = w

Exhausted_OneEarly(j) == jobs[j].attempt + 1 >= jobs[j].limit
Exhausted(j) == jobs[j].attempt >= jobs[j].limit

\* What complete and fail write: the row gives its lease up, and an event.
Settle(t, status, type, next) ==
  LET j == run[t].job
  IN /\ jobs' = [jobs EXCEPT ![j] = [@ EXCEPT !.status = status, !.worker = None, !.until = None,
                                              !.next = next]]
     /\ log' = [log EXCEPT ![j] = Logged(@, type, "processing", status, jobs[j].attempt,
                                         WorkerOf[t], clock)]
     /\ run' = [run EXCEPT ![t] = Idle]
     /\ UNCHANGED clock

Complete(t) ==
  /\ run[t].at = "returned"
  /\ Owned(run[t].job, WorkerOf[t])
  /\ Settle(t, "completed", "completed", jobs[run[t].job].next)

Fail(t) ==
  LET j == run[t].job
  IN /\ run[t].at = "raised"
     /\ Owned(j, WorkerOf[t])
     /\ \/ Exhausted(j) /\ Settle(t, "failed", "failed", clock)
        \/ ~Exhausted(j) /\ \E d \in Delays : Settle(t, "pending", "retry_scheduled", clock + d)

Refused(t) ==
  /\ run[t].at \in {"returned", "raised"}
  /\ ~Owned(run[t].job, WorkerOf[t])
  /\ run' = [run EXCEPT ![t] = Idle]
  /\ UNCHANGED <<clock, jobs, log>>

\* The thread dies within run_once; whoever calls it next begins afresh.
Crash(t) ==
  /\ run[t].at # "idle"
  /\ run' = [run EXCEPT ![t] = Idle]
  /\ UNCHANGED <<clock, jobs, log>>

Next ==
  \/ Tick
  \/ RecoverExpiredLeases
  \/ \E j \in Jobs, k \in Keys \cup {None} : Enqueue(j, k)
  \/ \E t \in Threads : Claim(t) \/ HandlerEnds(t) \/ Complete(t) \/ Fail(t) \/ Refused(t) \/ Crash(t)

Spec == Init /\ [][Next]_vars

-----------------------------------------------------------------------------
(* Properties. *)

\* The trail of a job tells its row: it chains from event to event, ends in
\* the row's status, and counts its attempts.  A recovery without its event,
\* be it inside claim, would break it.
TellsRow(j) == /\ Chained(log[j])
               /\ LastStatus(log[j]) = jobs[j].status
               /\ Attempts(log[j]) = jobs[j].attempt

\* And it is true of what happened: whatever ends a lease, a result, a failure
\* or its expiry, the event names the worker that held it and the attempt it
\* was; and it never runs backwards, although claim and enqueue use an instant
\* read before they waited for the lock: a job is taken only at an instant at
\* which it was already due.
TrailIsFaithful ==
  TypeOK /\ \A j \in Jobs : TellsRow(j) /\ LeasesNamed(log[j]) /\ InTimeOrder(log[j])

\* A job that is due is never overtaken by one that was behind it or was not
\* due yet: a job that keeps losing its lease cannot hold up the others.  (An
\* operation that waited for the lock may still insert or recover a row at the
\* instant it read before, so only a job due for longer than that is safe.)
AheadOf(j) == {i \in Jobs \ {j} : jobs[i].status = "pending" /\ ~Before(jobs[j], jobs[i])}
NoOvertaking ==
  [][\A j \in Jobs :
       /\ jobs[j].status = "pending" /\ jobs'[j].status = "pending"
       /\ jobs[j].next + LockWait <= clock
       => (AheadOf(j))' \subseteq AheadOf(j) \cup {i \in Jobs : jobs'[i].next = jobs[j].next}]_vars

PhaseOf(j) == CASE jobs[j].status = "absent" -> "absent"
                [] jobs[j].status = "pending" -> "waiting"
                [] jobs[j].status = "processing" -> "leased"
                [] jobs[j].status = "completed" -> "done"
                [] jobs[j].status = "failed" -> "dead"

Life == INSTANCE JobLifecycle WITH
  phase <- [j \in Jobs |-> PhaseOf(j)],
  tries <- [j \in Jobs |-> jobs[j].attempt],
  allowance <- [j \in Jobs |-> jobs[j].limit]

LifecycleSpec == Life!Spec
=============================================================================
