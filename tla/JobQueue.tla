------------------------------ MODULE JobQueue ------------------------------
(***************************************************************************)
(* The durable job queue and the worker of src/background_jobs.py.         *)
(*                                                                         *)
(* A row of table "jobs" is jobs[j]; a call of JobWorker.run_once is       *)
(* run[t], one per thread t that makes it.  Queue operations hold the      *)
(* queue's lock and commit before they release it, so each is one step;    *)
(* the handler runs outside the lock, so claim, the handler's outcome and  *)
(* succeed/fail are three steps, between which anything may happen:        *)
(* another claim, the lease running out, the thread or the process dying.  *)
(*                                                                         *)
(* Time is kept as what the queue compares it with: "due" stands for       *)
(* run_after <= now and "lapsed" for leased_until <= now.  A lease may run *)
(* out at any moment, since no handler is bound to finish within it.       *)
(* created_at is the rank of the insertion.  The wait for the lock,        *)
(* between reading the clock and using it, is not modelled.                *)
(***************************************************************************)
EXTENDS Naturals, FiniteSets

CONSTANTS
  Jobs,         \* the row identifiers
  Orgs, Keys, Payloads,
  Priorities,
  Limits,       \* the values of max_attempts callers pass
  Threads,      \* those who call JobWorker.run_once
  WorkerOf,     \* the worker_id each of them passes
  None,         \* SQL's NULL
  MaxExpiries   \* bound: how many leases of one job may run out

Workers == {WorkerOf[t] : t \in Threads}

ASSUME LimitsAssumption == Limits \subseteq Nat \ {0}
ASSUME PrioritiesAssumption == Priorities \subseteq Nat
ASSUME MaxExpiriesAssumption == MaxExpiries \in Nat
ASSUME NoneAssumption == None \notin Orgs \cup Keys \cup Payloads \cup Workers \cup Jobs

VARIABLES
  jobs,      \* table jobs
  run,       \* where each thread is in run_once, and the Job claim returned to it
  expiries   \* history: how many leases of each job ran out

vars == <<jobs, run, expiries>>

JobState == {"QUEUED", "RUNNING", "SUCCEEDED", "RETRY_SCHEDULED", "DEAD_LETTER", "CANCELLED"}
Waiting == {"QUEUED", "RETRY_SCHEDULED"}
Settled == {"SUCCEEDED", "DEAD_LETTER", "CANCELLED"}

Job == [state : JobState \cup {"absent"}, org : Orgs \cup {None}, key : Keys \cup {None},
        payload : Payloads \cup {None}, priority : Nat, created : Nat, attempts : Nat,
        limit : Nat, due : BOOLEAN, owner : Workers \cup {None}, lapsed : BOOLEAN]

NoRow == [state |-> "absent", org |-> None, key |-> None, payload |-> None, priority |-> 0,
          created |-> 0, attempts |-> 0, limit |-> 0, due |-> FALSE, owner |-> None,
          lapsed |-> FALSE]

Run == [at : {"idle", "handling", "returned", "raised"}, job : Jobs \cup {None}, attempt : Nat]
Idle == [at |-> "idle", job |-> None, attempt |-> 0]

TypeOK ==
  /\ jobs \in [Jobs -> Job]
  /\ run \in [Threads -> Run]
  /\ \A t \in Threads : run[t].at # "idle" => run[t].job \in Jobs
  /\ expiries \in [Jobs -> Nat]

Present(j) == jobs[j].state # "absent"

\* The columns the statements write: a lease taken, and one given up.
Leased(row, w) == [row EXCEPT !.state = "RUNNING", !.attempts = @ + 1, !.owner = w,
                              !.lapsed = FALSE]
Released(row, state, due) == [row EXCEPT !.state = state, !.owner = None, !.lapsed = FALSE,
                                         !.due = due]

Init ==
  /\ jobs = [j \in Jobs |-> NoRow]
  /\ run = [t \in Threads |-> Idle]
  /\ expiries = [j \in Jobs |-> 0]

-----------------------------------------------------------------------------
(* Producers. *)

\* The row an idempotency key already names; a job without a key matches nothing.
SameKey_OnlyUnsettled(o, k, j) ==
  k # None /\ jobs[j].org = o /\ jobs[j].key = k /\ jobs[j].state \in Waiting
SameKey(o, k, j) == k # None /\ Present(j) /\ jobs[j].org = o /\ jobs[j].key = k

NewRow(o, k, p, pr, n, d) ==
  [NoRow EXCEPT !.state = "QUEUED", !.org = o, !.key = k, !.payload = p, !.priority = pr,
                !.limit = n, !.due = d, !.created = Cardinality({i \in Jobs : Present(i)})]

\* enqueue inserts a row unless the key is taken.  When it is taken the call
\* returns the existing job, or raises JobIdempotencyConflict if the payload
\* differs: neither changes anything.
Enqueue(j, o, k, p) ==
  /\ ~Present(j)
  /\ \A i \in Jobs : ~SameKey(o, k, i)
  /\ \E pr \in Priorities, n \in Limits, d \in BOOLEAN :
       jobs' = [jobs EXCEPT ![j] = NewRow(o, k, p, pr, n, d)]
  /\ UNCHANGED <<run, expiries>>

\* cancel refuses a foreign tenant and a RUNNING job, and nothing else.
Cancel(j, o) ==
  /\ Present(j) /\ jobs[j].org = o
  /\ jobs[j].state # "RUNNING"
  /\ jobs' = [jobs EXCEPT ![j] = [@ EXCEPT !.state = "CANCELLED"]]
  /\ UNCHANGED <<run, expiries>>

-----------------------------------------------------------------------------
(* Time. *)

BecomesDue(j) ==
  /\ jobs[j].state \in Waiting /\ ~jobs[j].due
  /\ jobs' = [jobs EXCEPT ![j] = [@ EXCEPT !.due = TRUE]]
  /\ UNCHANGED <<run, expiries>>

LeaseRunsOut(j) ==
  /\ jobs[j].state = "RUNNING" /\ ~jobs[j].lapsed
  /\ expiries[j] < MaxExpiries
  /\ jobs' = [jobs EXCEPT ![j] = [@ EXCEPT !.lapsed = TRUE]]
  /\ expiries' = [expiries EXCEPT ![j] = @ + 1]
  /\ UNCHANGED run

-----------------------------------------------------------------------------
(* Workers. *)

Expired_UnlessExhausted(j) ==
  jobs[j].state = "RUNNING" /\ jobs[j].lapsed /\ jobs[j].attempts < jobs[j].limit
Expired(j) == jobs[j].state = "RUNNING" /\ jobs[j].lapsed

\* The table after recover_expired_leases.  The allowance is not consulted.
Recovered ==
  [j \in Jobs |-> IF Expired(j) THEN Released(jobs[j], "RETRY_SCHEDULED", TRUE) ELSE jobs[j]]

RecoverExpiredLeases ==
  /\ \E j \in Jobs : Expired(j)
  /\ jobs' = Recovered
  /\ UNCHANGED <<run, expiries>>

\* The rows claim may take.  A row recovered by this very call has the clock
\* reading of the recovery as its run_after, which is not before claim's own:
\* it is ready only if both readings are the same.
Ready(sameInstant) ==
  {j \in Jobs : \/ jobs[j].state \in Waiting /\ jobs[j].due
                \/ sameInstant /\ Expired(j)}

\* ORDER BY priority DESC, created_at ASC
Before(i, j) ==
  \/ jobs[i].priority > jobs[j].priority
  \/ jobs[i].priority = jobs[j].priority /\ jobs[i].created < jobs[j].created

Claim(t) ==
  /\ run[t].at = "idle"
  /\ \E sameInstant \in BOOLEAN : \E j \in Ready(sameInstant) :
       /\ \A i \in Ready(sameInstant) : ~Before(i, j)
       /\ jobs' = [Recovered EXCEPT ![j] = Leased(@, WorkerOf[t])]
       /\ run' = [run EXCEPT ![t] = [at |-> "handling", job |-> j,
                                     attempt |-> jobs[j].attempts + 1]]
  /\ UNCHANGED expiries

\* The handler returns, or raises; a kind without a handler fails at once.
HandlerEnds(t) ==
  /\ run[t].at = "handling"
  /\ \E outcome \in {"returned", "raised"} : run' = [run EXCEPT ![t].at = outcome]
  /\ UNCHANGED <<jobs, expiries>>

\* _assert_owner
OwnedBy_AnyWorker(j, w) == jobs[j].state = "RUNNING"
OwnedBy(j, w) == jobs[j].state = "RUNNING" /\ jobs[j].owner = w

Succeed(t) ==
  /\ run[t].at = "returned"
  /\ OwnedBy(run[t].job, WorkerOf[t])
  /\ jobs' = [jobs EXCEPT ![run[t].job] = Released(@, "SUCCEEDED", @.due)]
  /\ run' = [run EXCEPT ![t] = Idle]
  /\ UNCHANGED expiries

Exhausted_OffByOne(j) == jobs[j].attempts > jobs[j].limit
Exhausted_OneEarly(j) == jobs[j].attempts + 1 >= jobs[j].limit
Exhausted(j) == jobs[j].attempts >= jobs[j].limit

Fail(t) ==
  LET j == run[t].job
      state == IF Exhausted(j) THEN "DEAD_LETTER" ELSE "RETRY_SCHEDULED"
  IN /\ run[t].at = "raised"
     /\ OwnedBy(j, WorkerOf[t])
     /\ \E d \in BOOLEAN :
          /\ Exhausted(j) => d
          /\ jobs' = [jobs EXCEPT ![j] = Released(@, state, d)]
     /\ run' = [run EXCEPT ![t] = Idle]
     /\ UNCHANGED expiries

\* succeed and fail raise when the lease belongs to another worker by now.
Refused(t) ==
  /\ run[t].at \in {"returned", "raised"}
  /\ ~OwnedBy(run[t].job, WorkerOf[t])
  /\ run' = [run EXCEPT ![t] = Idle]
  /\ UNCHANGED <<jobs, expiries>>

\* The thread dies anywhere in run_once and is started again; when the process
\* dies, all of them do.  (A bound: not when the lease left behind could no
\* longer run out.)
Crash(t) ==
  /\ run[t].at # "idle"
  /\ expiries[run[t].job] < MaxExpiries \/ Expired(run[t].job)
  /\ run' = [run EXCEPT ![t] = Idle]
  /\ UNCHANGED <<jobs, expiries>>

-----------------------------------------------------------------------------
ProducerStep(j) ==
  \/ \E o \in Orgs, k \in Keys \cup {None}, p \in Payloads : Enqueue(j, o, k, p)
  \/ \E o \in Orgs : Cancel(j, o)

WorkerStep(t) == Claim(t) \/ HandlerEnds(t) \/ Succeed(t) \/ Fail(t) \/ Refused(t)

Next ==
  \/ \E j \in Jobs : ProducerStep(j) \/ BecomesDue(j) \/ LeaseRunsOut(j)
  \/ RecoverExpiredLeases
  \/ \E t \in Threads : WorkerStep(t) \/ Crash(t)

Spec == Init /\ [][Next]_vars

\* Time passes, run_once is called again and again, handlers end.
FairSpec ==
  /\ Spec
  /\ \A j \in Jobs : WF_vars(BecomesDue(j)) /\ WF_vars(LeaseRunsOut(j))
  /\ \A t \in Threads : WF_vars(WorkerStep(t))

-----------------------------------------------------------------------------
(* Properties. *)

\* Whoever _assert_owner lets settle a job is the run of its latest claim.
\* It takes worker identifiers that no two concurrent runs share.
OwnerIsLatestClaim ==
  \A t \in Threads :
    run[t].at # "idle" /\ OwnedBy(run[t].job, WorkerOf[t])
      => run[t].attempt = jobs[run[t].job].attempts

\* A run that ends and changes its job's row is the run of the latest claim:
\* the outcome of an execution whose lease was given away is never recorded.
StaleRunsAreRefused ==
  [][\A t \in Threads :
       run[t].at # "idle" /\ run'[t].at = "idle" /\ jobs'[run[t].job] # jobs[run[t].job]
         => run[t].attempt = jobs[run[t].job].attempts]_vars

\* A lease is held exactly while a job is RUNNING, and never outlives it:
\* succeed, fail, recovery and cancel all leave an unleased row behind.
LeaseMatchesState ==
  \A j \in Jobs : /\ (jobs[j].state = "RUNNING") <=> (jobs[j].owner # None)
                  /\ jobs[j].lapsed => jobs[j].state = "RUNNING"

\* A job is executed at most max_attempts times plus once for every lease that
\* ran out, and is given up only after max_attempts executions.
RetryBudget ==
  \A j \in Jobs :
    /\ Present(j) => jobs[j].attempts <= jobs[j].limit + expiries[j]
    /\ jobs[j].state = "DEAD_LETTER" => jobs[j].attempts >= jobs[j].limit

\* One row per tenant and idempotency key, however often enqueue is called.
OneJobPerKey ==
  \A i, j \in Jobs :
    Present(i) /\ Present(j) /\ jobs[i].key # None
      /\ jobs[i].key = jobs[j].key /\ jobs[i].org = jobs[j].org => i = j

\* A settled job is never leased again and keeps its number of attempts; only
\* cancel may still relabel it.
SettledStays ==
  [][\A j \in Jobs :
       jobs[j].state \in Settled
         => /\ jobs'[j].state \in {jobs[j].state, "CANCELLED"}
            /\ jobs'[j].attempts = jobs[j].attempts]_vars

\* Every job is settled in the end, whichever runs die, provided only finitely
\* many leases run out.
EveryJobSettles == \A j \in Jobs : Present(j) ~> jobs[j].state \in Settled

\* What the queue promises about a job's life, without leases' owners or time.
PhaseOf(j) == CASE jobs[j].state = "absent" -> "absent"
                [] jobs[j].state \in Waiting -> "waiting"
                [] jobs[j].state = "RUNNING" -> "leased"
                [] jobs[j].state = "SUCCEEDED" -> "done"
                [] jobs[j].state = "DEAD_LETTER" -> "dead"
                [] jobs[j].state = "CANCELLED" -> "withdrawn"

Life == INSTANCE JobLifecycle WITH
  phase <- [j \in Jobs |-> PhaseOf(j)],
  tries <- [j \in Jobs |-> jobs[j].attempts],
  allowance <- [j \in Jobs |-> jobs[j].limit]

LifecycleSpec == Life!Spec
=============================================================================
