----------------------- MODULE JobsAndServicesProofs ------------------------
(***************************************************************************)
(* Theorems about JobQueue, for any sets of jobs, tenants, keys and        *)
(* threads, any limits and any number of leases that run out; and about    *)
(* Services, for any processes, clients, values and bounds.  The two share *)
(* nothing: the services come second, one part after the other, and in the *)
(* end together.                                                           *)
(***************************************************************************)
EXTENDS JobQueue, Services, FiniteSetTheorems, WellFoundedInduction, TLAPS

(* The rows are finitely many, so that created_at, their number, is one. *)
FiniteJobs == IsFiniteSet(Jobs)

(* No two threads pass the same worker_id. *)
DistinctWorkerIds == \A t, u \in Threads : WorkerOf[t] = WorkerOf[u] => t = u

LEMMA NoRowType == NoRow \in Job
  BY DEF NoRow, Job, JobState

LEMMA NewRowType ==
  ASSUME FiniteJobs, NEW o \in Orgs, NEW k \in Keys \cup {None}, NEW p \in Payloads,
         NEW pr \in Priorities, NEW n \in Limits, NEW d \in BOOLEAN
  PROVE  NewRow(o, k, p, pr, n, d) \in Job
  <1>1. IsFiniteSet({i \in Jobs : Present(i)})
    BY FS_Subset DEF FiniteJobs
  <1>2. Cardinality({i \in Jobs : Present(i)}) \in Nat
    BY <1>1, FS_CardinalityType
  <1>3. pr \in Nat /\ n \in Nat
    BY LimitsAssumption, PrioritiesAssumption
  <1> QED
    BY <1>2, <1>3 DEF NewRow, NoRow, Job, JobState

LEMMA LeasedType == ASSUME NEW r \in Job, NEW w \in Workers PROVE Leased(r, w) \in Job
  <1>1. r.attempts + 1 \in Nat
    BY DEF Job
  <1>2. [r EXCEPT !.state = "RUNNING", !.owner = w, !.lapsed = FALSE] \in Job
    BY DEF Job, JobState
  <1>3. Leased(r, w) = [[r EXCEPT !.state = "RUNNING", !.owner = w, !.lapsed = FALSE]
                           EXCEPT !.attempts = r.attempts + 1]
    BY DEF Leased, Job
  <1> QED
    BY <1>1, <1>2, <1>3 DEF Job

LEMMA ReleasedType ==
  ASSUME NEW r \in Job, NEW s \in JobState, NEW d \in BOOLEAN
  PROVE  Released(r, s, d) \in Job
  BY DEF Released, Job, JobState

LEMMA RecoveredType == ASSUME TypeOK PROVE Recovered \in [Jobs -> Job]
  <1>1. \A j \in Jobs : Released(jobs[j], "RETRY_SCHEDULED", TRUE) \in Job
    BY ReleasedType DEF TypeOK, JobState
  <1>2. \A j \in Jobs : jobs[j] \in Job
    BY DEF TypeOK
  <1> QED
    BY <1>1, <1>2 DEF Recovered

(* Writing one row with a row keeps the table a table. *)
LEMMA WriteType ==
  ASSUME NEW f \in [Jobs -> Job], NEW j \in Jobs, NEW r \in Job
  PROVE  [f EXCEPT ![j] = r] \in [Jobs -> Job]
  OBVIOUS

(* A run that goes back to idle, and one that moves on, keep their type. *)
LEMMA IdleType ==
  ASSUME TypeOK, NEW t \in Threads, run' = [run EXCEPT ![t] = Idle]
  PROVE  /\ run' \in [Threads -> Run]
         /\ \A u \in Threads : run'[u].at # "idle" => run'[u].job \in Jobs
  BY DEF TypeOK, Run, Idle

LEMMA InitType == Init => TypeOK
  BY NoRowType DEF Init, TypeOK, Idle, Run

LEMMA NextType == ASSUME FiniteJobs, TypeOK, [Next]_vars PROVE TypeOK'
  <1>0. jobs \in [Jobs -> Job] /\ \A j \in Jobs : jobs[j] \in Job
    BY DEF TypeOK
  <1>1. ASSUME NEW j \in Jobs, NEW o \in Orgs, NEW k \in Keys \cup {None}, NEW p \in Payloads,
               Enqueue(j, o, k, p)
        PROVE  TypeOK'
    <2>1. jobs' \in [Jobs -> Job]
      BY <1>0, <1>1, NewRowType, WriteType DEF Enqueue
    <2> QED
      BY <1>1, <2>1 DEF Enqueue, TypeOK
  <1>2. ASSUME NEW j \in Jobs, NEW o \in Orgs, Cancel(j, o) PROVE TypeOK'
    <2>1. [jobs[j] EXCEPT !.state = "CANCELLED"] \in Job
      BY <1>0 DEF Job, JobState
    <2> QED
      BY <1>0, <1>2, <2>1 DEF Cancel, TypeOK
  <1>3. ASSUME NEW j \in Jobs, BecomesDue(j) PROVE TypeOK'
    <2>1. [jobs[j] EXCEPT !.due = TRUE] \in Job
      BY <1>0 DEF Job
    <2> QED
      BY <1>0, <1>3, <2>1 DEF BecomesDue, TypeOK
  <1>4. ASSUME NEW j \in Jobs, LeaseRunsOut(j) PROVE TypeOK'
    <2>1. [jobs[j] EXCEPT !.lapsed = TRUE] \in Job
      BY <1>0 DEF Job
    <2> QED
      BY <1>0, <1>4, <2>1 DEF LeaseRunsOut, TypeOK
  <1>5. CASE RecoverExpiredLeases
    BY <1>5, RecoveredType DEF RecoverExpiredLeases, TypeOK
  <1>6. ASSUME NEW t \in Threads, Claim(t) PROVE TypeOK'
    <2>1. PICK j \in Jobs : /\ jobs' = [Recovered EXCEPT ![j] = Leased(@, WorkerOf[t])]
                            /\ run' = [run EXCEPT ![t] = [at |-> "handling", job |-> j,
                                                          attempt |-> jobs[j].attempts + 1]]
      BY <1>6 DEF Claim, Ready
    <2>2. Leased(Recovered[j], WorkerOf[t]) \in Job
      BY RecoveredType, LeasedType DEF Workers
    <2>3. jobs' \in [Jobs -> Job]
      BY <2>1, <2>2, RecoveredType, WriteType
    <2>4. jobs[j].attempts + 1 \in Nat
      BY <1>0 DEF Job
    <2>5. run' \in [Threads -> Run] /\ \A u \in Threads : run'[u].at # "idle" => run'[u].job \in Jobs
      BY <2>1, <2>4 DEF Run, TypeOK
    <2> QED
      BY <1>6, <2>3, <2>5 DEF Claim, TypeOK
  <1>7. ASSUME NEW t \in Threads, HandlerEnds(t) PROVE TypeOK'
    BY <1>7 DEF HandlerEnds, Run, TypeOK
  <1>8. ASSUME NEW t \in Threads, Succeed(t) PROVE TypeOK'
    <2>1. run[t].job \in Jobs
      BY <1>8 DEF Succeed, TypeOK
    <2>2. jobs[run[t].job].due \in BOOLEAN
      BY <1>0, <2>1 DEF Job
    <2>3. Released(jobs[run[t].job], "SUCCEEDED", jobs[run[t].job].due) \in Job
      BY <1>0, <2>1, <2>2, ReleasedType DEF JobState
    <2> QED
      BY <1>0, <1>8, <2>1, <2>3, WriteType, IdleType DEF Succeed, TypeOK
  <1>9. ASSUME NEW t \in Threads, Fail(t) PROVE TypeOK'
    <2>1. run[t].job \in Jobs
      BY <1>9 DEF Fail, TypeOK
    <2>2. \A d \in BOOLEAN, s \in {"DEAD_LETTER", "RETRY_SCHEDULED"} :
            Released(jobs[run[t].job], s, d) \in Job
      BY <1>0, <2>1, ReleasedType DEF JobState
    <2>3. jobs' \in [Jobs -> Job]
      BY <1>0, <1>9, <2>1, <2>2, WriteType DEF Fail
    <2> QED
      BY <1>9, <2>3, IdleType DEF Fail, TypeOK
  <1>10. ASSUME NEW t \in Threads, Refused(t) \/ Crash(t) PROVE TypeOK'
    BY <1>10, IdleType DEF Refused, Crash, TypeOK
  <1>11. CASE UNCHANGED vars
    BY <1>11 DEF vars, TypeOK
  <1> QED
    BY <1>1, <1>2, <1>3, <1>4, <1>5, <1>6, <1>7, <1>8, <1>9, <1>10, <1>11
       DEF Next, ProducerStep, WorkerStep

(* Every reachable state has its type. *)
THEOREM TypeCorrect == ASSUME FiniteJobs PROVE Spec => []TypeOK
  <1>1. TypeOK /\ [Next]_vars => TypeOK'
    BY NextType
  <1> QED
    BY <1>1, InitType, PTL DEF Spec
-----------------------------------------------------------------------------
(***************************************************************************)
(* What a step may do to one row, whatever operation the step is of.       *)
(***************************************************************************)

SameCounts(j) ==
  /\ jobs'[j].attempts = jobs[j].attempts
  /\ jobs'[j].limit = jobs[j].limit

SameTenant(j) == jobs'[j].org = jobs[j].org /\ jobs'[j].key = jobs[j].key

RowKept(j) ==
  /\ jobs'[j].state = jobs[j].state /\ jobs'[j].owner = jobs[j].owner
  /\ jobs'[j].lapsed = jobs[j].lapsed
  /\ SameCounts(j) /\ SameTenant(j) /\ expiries'[j] = expiries[j]

RowInserted(j) ==
  /\ jobs[j].state = "absent" /\ jobs'[j].state = "QUEUED"
  /\ jobs'[j].owner = None /\ ~jobs'[j].lapsed
  /\ jobs'[j].attempts = 0 /\ jobs'[j].limit \in Nat \ {0}
  /\ expiries'[j] = expiries[j]

RowCancelled(j) ==
  /\ jobs[j].state \notin {"absent", "RUNNING"} /\ jobs'[j].state = "CANCELLED"
  /\ jobs'[j].owner = jobs[j].owner /\ jobs'[j].lapsed = jobs[j].lapsed
  /\ SameCounts(j) /\ SameTenant(j) /\ expiries'[j] = expiries[j]

RowLapsed(j) ==
  /\ jobs[j].state = "RUNNING" /\ ~jobs[j].lapsed
  /\ jobs'[j].state = "RUNNING" /\ jobs'[j].lapsed
  /\ jobs'[j].owner = jobs[j].owner
  /\ SameCounts(j) /\ SameTenant(j) /\ expiries'[j] = expiries[j] + 1

RowRecovered(j) ==
  /\ Expired(j) /\ jobs'[j].state = "RETRY_SCHEDULED"
  /\ jobs'[j].owner = None /\ ~jobs'[j].lapsed
  /\ SameCounts(j) /\ SameTenant(j) /\ expiries'[j] = expiries[j]

RowClaimed(j) ==
  /\ jobs[j].state \in Waiting \/ Expired(j)
  /\ jobs'[j].state = "RUNNING" /\ jobs'[j].owner \in Workers /\ ~jobs'[j].lapsed
  /\ jobs'[j].attempts = jobs[j].attempts + 1 /\ jobs'[j].limit = jobs[j].limit
  /\ SameTenant(j) /\ expiries'[j] = expiries[j]

RowSettled(j) ==
  /\ jobs[j].state = "RUNNING"
  /\ \/ jobs'[j].state = "SUCCEEDED"
     \/ jobs'[j].state = "DEAD_LETTER" /\ Exhausted(j)
     \/ jobs'[j].state = "RETRY_SCHEDULED" /\ ~Exhausted(j)
  /\ jobs'[j].owner = None /\ ~jobs'[j].lapsed
  /\ SameCounts(j) /\ SameTenant(j) /\ expiries'[j] = expiries[j]

RowStep(j) ==
  \/ RowKept(j) \/ RowInserted(j) \/ RowCancelled(j) \/ RowLapsed(j)
  \/ RowRecovered(j) \/ RowClaimed(j) \/ RowSettled(j)

(* recover_expired_leases keeps a row or recovers it. *)
LEMMA RecoveredRow ==
  ASSUME TypeOK, NEW i \in Jobs
  PROVE  /\ ~Expired(i) => Recovered[i] = jobs[i]
         /\ Expired(i) => /\ Recovered[i].state = "RETRY_SCHEDULED"
                          /\ Recovered[i].owner = None /\ ~Recovered[i].lapsed
         /\ Recovered[i].attempts = jobs[i].attempts /\ Recovered[i].limit = jobs[i].limit
         /\ Recovered[i].org = jobs[i].org /\ Recovered[i].key = jobs[i].key
  <1>1. jobs[i] \in Job
    BY DEF TypeOK
  <1>2. CASE Expired(i)
    BY <1>1, <1>2 DEF Recovered, Released, Job
  <1>3. CASE ~Expired(i)
    BY <1>3 DEF Recovered
  <1> QED
    BY <1>2, <1>3

LEMMA NextRowStep == ASSUME TypeOK, [Next]_vars, NEW i \in Jobs PROVE RowStep(i)
  <1>0. /\ jobs \in [Jobs -> Job] /\ \A j \in Jobs : jobs[j] \in Job
        /\ expiries \in [Jobs -> Nat]
    BY DEF TypeOK
  <1>a. ASSUME jobs'[i] = jobs[i], expiries'[i] = expiries[i] PROVE RowStep(i)
    BY <1>a DEF RowStep, RowKept, SameCounts, SameTenant
  <1>1. ASSUME NEW j \in Jobs, NEW o \in Orgs, NEW k \in Keys \cup {None}, NEW p \in Payloads,
               Enqueue(j, o, k, p)
        PROVE  RowStep(i)
    <2>1. PICK pr \in Priorities, n \in Limits, d \in BOOLEAN :
            jobs' = [jobs EXCEPT ![j] = NewRow(o, k, p, pr, n, d)]
      BY <1>1 DEF Enqueue
    <2>2. CASE i = j
      <3>1. jobs'[i] = NewRow(o, k, p, pr, n, d)
        BY <1>0, <2>1, <2>2
      <3>2. /\ jobs'[i].state = "QUEUED" /\ jobs'[i].owner = None /\ jobs'[i].lapsed = FALSE
            /\ jobs'[i].attempts = 0 /\ jobs'[i].limit = n
        BY <3>1 DEF NewRow, NoRow
      <3> QED
        BY <1>1, <2>2, <3>2, LimitsAssumption DEF Enqueue, Present, RowStep, RowInserted
    <2>3. CASE i # j
      BY <1>0, <1>1, <2>1, <2>3, <1>a DEF Enqueue
    <2> QED
      BY <2>2, <2>3
  <1>2. ASSUME NEW j \in Jobs, NEW o \in Orgs, Cancel(j, o) PROVE RowStep(i)
    <2>1. CASE i = j
      BY <1>0, <1>2, <2>1
         DEF Cancel, Present, Job, RowStep, RowCancelled, SameCounts, SameTenant
    <2>2. CASE i # j
      BY <1>0, <1>2, <2>2, <1>a DEF Cancel
    <2> QED
      BY <2>1, <2>2
  <1>3. ASSUME NEW j \in Jobs, BecomesDue(j) PROVE RowStep(i)
    <2>1. CASE i = j
      BY <1>0, <1>3, <2>1 DEF BecomesDue, Job, RowStep, RowKept, SameCounts, SameTenant
    <2>2. CASE i # j
      BY <1>0, <1>3, <2>2, <1>a DEF BecomesDue
    <2> QED
      BY <2>1, <2>2
  <1>4. ASSUME NEW j \in Jobs, LeaseRunsOut(j) PROVE RowStep(i)
    <2>1. CASE i = j
      BY <1>0, <1>4, <2>1 DEF LeaseRunsOut, Job, RowStep, RowLapsed, SameCounts, SameTenant
    <2>2. CASE i # j
      BY <1>0, <1>4, <2>2, <1>a DEF LeaseRunsOut
    <2> QED
      BY <2>1, <2>2
  <1>5. CASE RecoverExpiredLeases
    <2>1. jobs'[i] = Recovered[i] /\ expiries'[i] = expiries[i]
      BY <1>5 DEF RecoverExpiredLeases
    <2>2. CASE Expired(i)
      BY <2>1, <2>2, RecoveredRow DEF RowStep, RowRecovered, SameCounts, SameTenant
    <2>3. CASE ~Expired(i)
      BY <2>1, <2>3, RecoveredRow, <1>a
    <2> QED
      BY <2>2, <2>3
  <1>6. ASSUME NEW t \in Threads, Claim(t) PROVE RowStep(i)
    <2>1. PICK j \in Jobs : /\ jobs' = [Recovered EXCEPT ![j] = Leased(@, WorkerOf[t])]
                            /\ jobs[j].state \in Waiting \/ Expired(j)
      BY <1>6 DEF Claim, Ready
    <2>2. expiries'[i] = expiries[i] /\ Recovered \in [Jobs -> Job] /\ Recovered[i] \in Job
      BY <1>6, RecoveredType DEF Claim
    <2>3. CASE i = j
      <3>1. jobs'[i] = Leased(Recovered[i], WorkerOf[t])
        BY <2>1, <2>2, <2>3
      <3>2. /\ jobs'[i].state = "RUNNING" /\ jobs'[i].owner = WorkerOf[t]
            /\ jobs'[i].lapsed = FALSE
            /\ jobs'[i].attempts = Recovered[i].attempts + 1
            /\ jobs'[i].limit = Recovered[i].limit
            /\ jobs'[i].org = Recovered[i].org /\ jobs'[i].key = Recovered[i].key
        BY <2>2, <3>1 DEF Leased, Job
      <3> QED
        BY <2>1, <2>2, <2>3, <3>2, RecoveredRow DEF RowStep, RowClaimed, SameTenant, Workers
    <2>4. CASE i # j
      <3>1. jobs'[i] = Recovered[i]
        BY <2>1, <2>2, <2>4
      <3>2. CASE Expired(i)
        BY <2>2, <3>1, <3>2, RecoveredRow DEF RowStep, RowRecovered, SameCounts, SameTenant
      <3>3. CASE ~Expired(i)
        BY <2>2, <3>1, <3>3, RecoveredRow, <1>a
      <3> QED
        BY <3>2, <3>3
    <2> QED
      BY <2>3, <2>4
  <1>7. ASSUME NEW t \in Threads, HandlerEnds(t) PROVE RowStep(i)
    BY <1>7, <1>a DEF HandlerEnds
  <1>8. ASSUME NEW t \in Threads, Succeed(t) PROVE RowStep(i)
    <2>1. run[t].job \in Jobs
      BY <1>8 DEF Succeed, TypeOK
    <2>2. CASE i = run[t].job
      <3>1. jobs'[i] = Released(jobs[i], "SUCCEEDED", jobs[i].due) /\ jobs[i].due \in BOOLEAN
        BY <1>0, <1>8, <2>2 DEF Succeed, Job
      <3>2. /\ jobs'[i].state = "SUCCEEDED" /\ jobs'[i].owner = None /\ jobs'[i].lapsed = FALSE
            /\ SameCounts(i) /\ SameTenant(i)
        BY <1>0, <3>1 DEF Released, Job, SameCounts, SameTenant
      <3> QED
        BY <1>8, <2>2, <3>2 DEF Succeed, OwnedBy, RowStep, RowSettled
    <2>3. CASE i # run[t].job
      BY <1>0, <1>8, <2>3, <1>a DEF Succeed
    <2> QED
      BY <2>2, <2>3
  <1>9. ASSUME NEW t \in Threads, Fail(t) PROVE RowStep(i)
    <2>1. run[t].job \in Jobs
      BY <1>9 DEF Fail, TypeOK
    <2>2. CASE i = run[t].job
      <3>1. PICK d \in BOOLEAN :
              jobs'[i] = Released(jobs[i],
                                  IF Exhausted(i) THEN "DEAD_LETTER" ELSE "RETRY_SCHEDULED", d)
        BY <1>0, <1>9, <2>2 DEF Fail
      <3>2. /\ jobs'[i].state = IF Exhausted(i) THEN "DEAD_LETTER" ELSE "RETRY_SCHEDULED"
            /\ jobs'[i].owner = None /\ jobs'[i].lapsed = FALSE
            /\ SameCounts(i) /\ SameTenant(i)
        BY <1>0, <3>1 DEF Released, Job, SameCounts, SameTenant
      <3> QED
        BY <1>9, <2>2, <3>2 DEF Fail, OwnedBy, RowStep, RowSettled
    <2>3. CASE i # run[t].job
      BY <1>0, <1>9, <2>3, <1>a DEF Fail
    <2> QED
      BY <2>2, <2>3
  <1>10. ASSUME NEW t \in Threads, Refused(t) \/ Crash(t) PROVE RowStep(i)
    BY <1>10, <1>a DEF Refused, Crash
  <1>11. CASE UNCHANGED vars
    BY <1>11, <1>a DEF vars
  <1> QED
    BY <1>1, <1>2, <1>3, <1>4, <1>5, <1>6, <1>7, <1>8, <1>9, <1>10, <1>11
       DEF Next, ProducerStep, WorkerStep

-----------------------------------------------------------------------------
(***************************************************************************)
(* RetryBudget is not inductive: a claim adds an attempt, so a row that    *)
(* may be claimed must have one left.  A lease that ran out has paid for   *)
(* the attempt that will follow it.                                        *)
(***************************************************************************)
RowInv(j) ==
  /\ (jobs[j].state = "RUNNING") <=> (jobs[j].owner # None)
  /\ jobs[j].lapsed => jobs[j].state = "RUNNING"
  /\ jobs[j].attempts <= jobs[j].limit + expiries[j]
  /\ jobs[j].state \in Waiting \/ jobs[j].lapsed
       => jobs[j].attempts < jobs[j].limit + expiries[j]
  /\ jobs[j].state = "DEAD_LETTER" => jobs[j].attempts >= jobs[j].limit
  /\ jobs[j].state = "absent" => jobs[j].attempts = 0

RowsInv == \A j \in Jobs : RowInv(j)

LEMMA RowInvStep ==
  ASSUME TypeOK, TypeOK', NEW j \in Jobs, RowInv(j), RowStep(j)
  PROVE  RowInv(j)'
  <1>0. /\ jobs[j].attempts \in Nat /\ jobs[j].limit \in Nat /\ expiries[j] \in Nat
        /\ jobs'[j].attempts \in Nat /\ jobs'[j].limit \in Nat /\ expiries'[j] \in Nat
    BY DEF TypeOK, Job
  <1> USE DEF RowInv, SameCounts, Waiting
  <1>1. CASE RowKept(j)
    BY <1>0, <1>1 DEF RowKept
  <1>2. CASE RowInserted(j)
    BY <1>0, <1>2 DEF RowInserted
  <1>3. CASE RowCancelled(j)
    BY <1>0, <1>3 DEF RowCancelled
  <1>4. CASE RowLapsed(j)
    BY <1>0, <1>4 DEF RowLapsed
  <1>5. CASE RowRecovered(j)
    BY <1>0, <1>5 DEF RowRecovered, Expired
  <1>6. CASE RowClaimed(j)
    BY <1>0, <1>6, NoneAssumption DEF RowClaimed, Expired
  <1>7. CASE RowSettled(j)
    BY <1>0, <1>7 DEF RowSettled, Exhausted
  <1> QED
    BY <1>1, <1>2, <1>3, <1>4, <1>5, <1>6, <1>7 DEF RowStep

LEMMA RowsInvariant == ASSUME FiniteJobs PROVE Spec => [](TypeOK /\ RowsInv)
  <1>1. Init => TypeOK /\ RowsInv
    BY InitType DEF Init, RowsInv, RowInv, NoRow, Waiting
  <1>2. TypeOK /\ RowsInv /\ [Next]_vars => TypeOK' /\ RowsInv'
    BY NextType, NextRowStep, RowInvStep DEF RowsInv
  <1> QED
    BY <1>1, <1>2, PTL DEF Spec

(* A lease is held exactly while its job is RUNNING, and never outlives it. *)
THEOREM LeaseMatches == ASSUME FiniteJobs PROVE Spec => []LeaseMatchesState
  <1>1. RowsInv => LeaseMatchesState
    BY DEF RowsInv, RowInv, LeaseMatchesState
  <1> QED
    BY <1>1, RowsInvariant, PTL

(* However runs crash and leases expire, a job is executed at most            *)
(* max_attempts times plus once for each lease that ran out.                  *)
THEOREM RetriesBoundedByExpiries == ASSUME FiniteJobs PROVE Spec => []RetryBudget
  <1>1. RowsInv => RetryBudget
    BY DEF RowsInv, RowInv, RetryBudget
  <1> QED
    BY <1>1, RowsInvariant, PTL

(* A settled job is never leased again: only cancel may relabel it. *)
THEOREM SettledIsFinal == ASSUME FiniteJobs PROVE Spec => SettledStays
  <1>1. ASSUME TypeOK, [Next]_vars, NEW j \in Jobs, jobs[j].state \in Settled
        PROVE  /\ jobs'[j].state \in {jobs[j].state, "CANCELLED"}
               /\ jobs'[j].attempts = jobs[j].attempts
    BY <1>1, NextRowStep
       DEF RowStep, RowKept, RowInserted, RowCancelled, RowLapsed, RowRecovered, RowClaimed,
           RowSettled, SameCounts, Settled, Waiting, Expired
  <1>2. TypeOK /\ [Next]_vars
          => [\A j \in Jobs :
                jobs[j].state \in Settled
                  => /\ jobs'[j].state \in {jobs[j].state, "CANCELLED"}
                     /\ jobs'[j].attempts = jobs[j].attempts]_vars
    BY <1>1
  <1> QED
    BY <1>2, TypeCorrect, PTL DEF Spec, SettledStays

-----------------------------------------------------------------------------
(***************************************************************************)
(* One row per idempotency key.                                            *)
(***************************************************************************)
LEMMA OneJobPerKeyStep ==
  ASSUME TypeOK, TypeOK', OneJobPerKey, [Next]_vars
  PROVE  OneJobPerKey'
  <1>0. \A i \in Jobs : RowStep(i)
    BY NextRowStep
  <1>1. ASSUME NEW j \in Jobs, NEW o \in Orgs, NEW k \in Keys \cup {None}, NEW p \in Payloads,
               Enqueue(j, o, k, p)
        PROVE  OneJobPerKey'
    <2>1. PICK pr \in Priorities, n \in Limits, d \in BOOLEAN :
            jobs' = [jobs EXCEPT ![j] = NewRow(o, k, p, pr, n, d)]
      BY <1>1 DEF Enqueue
    <2>2. jobs'[j].org = o /\ jobs'[j].key = k
      BY <2>1 DEF NewRow, NoRow, TypeOK
    <2>3. \A i \in Jobs : i # j => jobs'[i] = jobs[i]
      BY <2>1 DEF TypeOK
    <2>4. \A i \in Jobs : i # j /\ jobs'[i].state # "absent" /\ k # None
                            => ~(jobs'[i].org = o /\ jobs'[i].key = k)
      BY <1>1, <2>3 DEF Enqueue, SameKey, Present
    <2>5. ASSUME NEW i \in Jobs, NEW m \in Jobs, i # m,
                 jobs'[i].state # "absent", jobs'[m].state # "absent", jobs'[i].key # None,
                 jobs'[i].key = jobs'[m].key, jobs'[i].org = jobs'[m].org
          PROVE  FALSE
      <3>1. CASE i = j
        BY <2>2, <2>4, <2>5, <3>1
      <3>2. CASE m = j
        BY <2>2, <2>4, <2>5, <3>2
      <3>3. CASE i # j /\ m # j
        <4>1. jobs'[i] = jobs[i] /\ jobs'[m] = jobs[m]
          BY <2>3, <3>3
        <4> QED
          BY <2>5, <4>1 DEF OneJobPerKey, Present
      <3> QED
        BY <3>1, <3>2, <3>3
    <2> QED
      BY <2>5 DEF OneJobPerKey, Present
  <1>2. ASSUME \A j \in Jobs : SameTenant(j) /\ (jobs'[j].state # "absent" => jobs[j].state # "absent")
        PROVE  OneJobPerKey'
    <2>1. ASSUME NEW i \in Jobs, NEW m \in Jobs, i # m,
                 jobs'[i].state # "absent", jobs'[m].state # "absent", jobs'[i].key # None,
                 jobs'[i].key = jobs'[m].key, jobs'[i].org = jobs'[m].org
          PROVE  FALSE
      <3>1. SameTenant(i) /\ SameTenant(m) /\ Present(i) /\ Present(m)
        BY <1>2, <2>1 DEF Present
      <3> QED
        BY <2>1, <3>1 DEF SameTenant, OneJobPerKey
    <2> QED
      BY <2>1 DEF OneJobPerKey, Present
  <1>3. ASSUME \A j \in Jobs : ~RowInserted(j) PROVE OneJobPerKey'
    <2>1. \A j \in Jobs : SameTenant(j) /\ (jobs'[j].state # "absent" => jobs[j].state # "absent")
      BY <1>0, <1>3
         DEF RowStep, RowKept, RowCancelled, RowLapsed, RowRecovered, RowClaimed, RowSettled,
             Waiting, Expired
    <2> QED
      BY <2>1, <1>2
  <1>4. ASSUME NEW j \in Jobs, RowInserted(j)
        PROVE  \E i \in Jobs, o \in Orgs, k \in Keys \cup {None}, p \in Payloads : Enqueue(i, o, k, p)
    <2> USE <1>4 DEF RowInserted, TypeOK
    <2>1. ~ \E i \in Jobs, o \in Orgs : Cancel(i, o)
      BY DEF Cancel, Present
    <2>2. ~ \E i \in Jobs : BecomesDue(i) \/ LeaseRunsOut(i)
      BY DEF BecomesDue, LeaseRunsOut, Waiting
    <2>3. ~RecoverExpiredLeases
      BY DEF RecoverExpiredLeases, Recovered, Released, Expired
    <2>4. ~ \E t \in Threads : Claim(t)
      <3> SUFFICES ASSUME NEW t \in Threads, Claim(t) PROVE FALSE
        OBVIOUS
      <3>1. PICK i \in Jobs : jobs' = [Recovered EXCEPT ![i] = Leased(@, WorkerOf[t])]
        BY DEF Claim, Ready
      <3>2. Recovered \in [Jobs -> Job] /\ Recovered[j] = jobs[j]
        BY RecoveredType, RecoveredRow DEF Expired
      <3>3. CASE i = j
        <4>1. jobs'[j].state = "RUNNING"
          BY <3>1, <3>2, <3>3 DEF Leased, Job
        <4> QED
          BY <4>1
      <3>4. CASE i # j
        BY <3>1, <3>2, <3>4
      <3> QED
        BY <3>3, <3>4
    <2>5. ~ \E t \in Threads : Succeed(t) \/ Fail(t)
      BY DEF Succeed, Fail, OwnedBy
    <2>6. ~ \E t \in Threads : HandlerEnds(t) \/ Refused(t) \/ Crash(t)
      BY DEF HandlerEnds, Refused, Crash
    <2>7. ~UNCHANGED vars
      BY DEF vars
    <2> QED
      BY <2>1, <2>2, <2>3, <2>4, <2>5, <2>6, <2>7 DEF Next, ProducerStep, WorkerStep
  <1> QED
    BY <1>1, <1>3, <1>4

(* enqueue never gives a tenant two rows for the same idempotency key. *)
THEOREM IdempotentEnqueue == ASSUME FiniteJobs PROVE Spec => []OneJobPerKey
  <1>1. Init => OneJobPerKey
    BY DEF Init, OneJobPerKey, Present, NoRow
  <1>2. TypeOK /\ TypeOK' /\ OneJobPerKey /\ [Next]_vars => OneJobPerKey'
    BY OneJobPerKeyStep
  <1> QED
    BY <1>1, <1>2, TypeCorrect, PTL DEF Spec

-----------------------------------------------------------------------------
(***************************************************************************)
(* The lease as a fence.  _assert_owner compares worker identifiers only;  *)
(* it singles out the run of the latest claim because a thread makes one   *)
(* claim at a time and no other thread passes its identifier.              *)
(***************************************************************************)
LEMMA OwnerStep ==
  ASSUME DistinctWorkerIds, TypeOK, OwnerIsLatestClaim, [Next]_vars
  PROVE  OwnerIsLatestClaim'
  <1> SUFFICES ASSUME NEW u \in Threads, run'[u].at # "idle", OwnedBy(run[u].job, WorkerOf[u])'
               PROVE  run'[u].attempt = jobs'[run'[u].job].attempts
    BY DEF OwnerIsLatestClaim
  <1>0. /\ jobs \in [Jobs -> Job] /\ \A j \in Jobs : jobs[j] \in Job
        /\ run \in [Threads -> Run]
        /\ \A t \in Threads : WorkerOf[t] # None
        /\ \A t \in Threads : run[t].at # "idle" => run[t].job \in Jobs
    BY NoneAssumption DEF TypeOK, Workers
  <1>a. ASSUME run'[u].at # "idle" => run[u].at # "idle", run'[u].job = run[u].job,
               run'[u].attempt = run[u].attempt,
               jobs'[run[u].job].state = "RUNNING" => jobs[run[u].job].state = "RUNNING",
               jobs'[run[u].job].owner = jobs[run[u].job].owner,
               jobs'[run[u].job].attempts = jobs[run[u].job].attempts
        PROVE  run'[u].attempt = jobs'[run'[u].job].attempts
    BY <1>a DEF OwnerIsLatestClaim, OwnedBy
  <1>1. ASSUME NEW j \in Jobs, NEW o \in Orgs, NEW k \in Keys \cup {None}, NEW p \in Payloads,
               Enqueue(j, o, k, p)
        PROVE  run'[u].attempt = jobs'[run'[u].job].attempts
    <2>1. run' = run /\ jobs'[j].owner = None /\ \A i \in Jobs : i # j => jobs'[i] = jobs[i]
      BY <1>0, <1>1 DEF Enqueue, NewRow, NoRow
    <2>2. run[u].job \in Jobs /\ run[u].job # j
      BY <1>0, <2>1 DEF OwnedBy
    <2> QED
      BY <1>a, <2>1, <2>2
  <1>2. ASSUME NEW j \in Jobs, NEW o \in Orgs, Cancel(j, o)
        PROVE  run'[u].attempt = jobs'[run'[u].job].attempts
    <2>1. /\ run' = run /\ run[u].job \in Jobs
          /\ \A i \in Jobs : /\ jobs'[i].state = "RUNNING" => jobs[i].state = "RUNNING"
                             /\ jobs'[i].owner = jobs[i].owner
                             /\ jobs'[i].attempts = jobs[i].attempts
      BY <1>0, <1>2 DEF Cancel, Job
    <2> QED
      BY <1>a, <2>1
  <1>3. ASSUME NEW j \in Jobs, BecomesDue(j) \/ LeaseRunsOut(j)
        PROVE  run'[u].attempt = jobs'[run'[u].job].attempts
    <2>1. /\ run' = run /\ run[u].job \in Jobs
          /\ \A i \in Jobs : /\ jobs'[i].state = jobs[i].state
                             /\ jobs'[i].owner = jobs[i].owner
                             /\ jobs'[i].attempts = jobs[i].attempts
      BY <1>0, <1>3 DEF BecomesDue, LeaseRunsOut, Job
    <2> QED
      BY <1>a, <2>1
  <1>4. CASE RecoverExpiredLeases
    <2>1. run' = run /\ run[u].job \in Jobs /\ jobs'[run[u].job] = Recovered[run[u].job]
      BY <1>0, <1>4 DEF RecoverExpiredLeases
    <2>2. ~Expired(run[u].job)
      BY <1>0, <2>1, RecoveredRow DEF OwnedBy
    <2> QED
      BY <1>a, <2>1, <2>2, RecoveredRow
  <1>5. ASSUME NEW t \in Threads, Claim(t)
        PROVE  run'[u].attempt = jobs'[run'[u].job].attempts
    <2>1. PICK j \in Jobs :
            /\ jobs' = [Recovered EXCEPT ![j] = Leased(@, WorkerOf[t])]
            /\ run' = [run EXCEPT ![t] = [at |-> "handling", job |-> j,
                                          attempt |-> jobs[j].attempts + 1]]
      BY <1>5 DEF Claim, Ready
    <2>2. Recovered \in [Jobs -> Job] /\ Recovered[j] \in Job
          /\ Recovered[j].attempts = jobs[j].attempts
      BY RecoveredType, RecoveredRow
    <2>3. /\ jobs'[j].attempts = jobs[j].attempts + 1 /\ jobs'[j].owner = WorkerOf[t]
          /\ \A i \in Jobs : i # j => jobs'[i] = Recovered[i]
      BY <2>1, <2>2 DEF Leased, Job
    <2>4. CASE u = t
      <3>1. run'[u].job = j /\ run'[u].attempt = jobs[j].attempts + 1
        BY <1>0, <2>1, <2>4
      <3> QED
        BY <2>3, <3>1
    <2>5. CASE u # t
      <3>1. run'[u] = run[u] /\ run[u].job \in Jobs
        BY <1>0, <2>1, <2>5
      <3>2. run[u].job # j
        BY <2>3, <2>5, <3>1 DEF OwnedBy, DistinctWorkerIds
      <3>3. jobs'[run[u].job] = Recovered[run[u].job]
        BY <2>3, <3>1, <3>2
      <3>4. ~Expired(run[u].job)
        BY <1>0, <3>1, <3>3, RecoveredRow DEF OwnedBy
      <3> QED
        BY <1>a, <3>1, <3>3, <3>4, RecoveredRow
    <2> QED
      BY <2>4, <2>5
  <1>6. ASSUME NEW t \in Threads, HandlerEnds(t)
        PROVE  run'[u].attempt = jobs'[run'[u].job].attempts
    <2>1. /\ jobs' = jobs /\ run'[u].job = run[u].job /\ run'[u].attempt = run[u].attempt
          /\ run[u].at # "idle"
      BY <1>0, <1>6 DEF HandlerEnds, Run
    <2> QED
      BY <1>a, <2>1
  <1>7. ASSUME NEW t \in Threads, NEW j \in Jobs, run' = [run EXCEPT ![t] = Idle],
               jobs'[j].owner = None, \A i \in Jobs : i # j => jobs'[i] = jobs[i]
        PROVE  run'[u].attempt = jobs'[run'[u].job].attempts
    <2>1. u # t
      BY <1>0, <1>7 DEF Idle
    <2>2. run'[u] = run[u] /\ run[u].job \in Jobs
      BY <1>0, <1>7, <2>1
    <2>3. run[u].job # j
      BY <1>0, <1>7, <2>2 DEF OwnedBy
    <2> QED
      BY <1>a, <1>7, <2>2, <2>3
  <1>8. ASSUME NEW t \in Threads, Succeed(t) \/ Fail(t)
        PROVE  run'[u].attempt = jobs'[run'[u].job].attempts
    <2>1. run[t].job \in Jobs /\ run' = [run EXCEPT ![t] = Idle]
      BY <1>0, <1>8 DEF Succeed, Fail
    <2>2. PICK st, d : jobs' = [jobs EXCEPT ![run[t].job] = Released(@, st, d)]
      BY <1>8 DEF Succeed, Fail
    <2>3. jobs'[run[t].job].owner = None /\ \A i \in Jobs : i # run[t].job => jobs'[i] = jobs[i]
      BY <1>0, <2>1, <2>2 DEF Released, Job
    <2> QED
      BY <1>7, <2>1, <2>3
  <1>9. ASSUME NEW t \in Threads, Refused(t) \/ Crash(t)
        PROVE  run'[u].attempt = jobs'[run'[u].job].attempts
    <2>1. u # t
      BY <1>0, <1>9 DEF Refused, Crash, Idle
    <2>2. run'[u] = run[u] /\ jobs' = jobs
      BY <1>0, <1>9, <2>1 DEF Refused, Crash
    <2> QED
      BY <1>a, <2>2
  <1>10. CASE UNCHANGED vars
    BY <1>a, <1>10 DEF vars
  <1> QED
    BY <1>1, <1>2, <1>3, <1>4, <1>5, <1>6, <1>8, <1>9, <1>10 DEF Next, ProducerStep, WorkerStep

LEMMA OwnerInvariant ==
  ASSUME FiniteJobs, DistinctWorkerIds
  PROVE  Spec => [](TypeOK /\ OwnerIsLatestClaim)
  <1>1. Init => TypeOK /\ OwnerIsLatestClaim
    BY InitType DEF Init, OwnerIsLatestClaim, Idle
  <1>2. TypeOK /\ OwnerIsLatestClaim /\ [Next]_vars => TypeOK' /\ OwnerIsLatestClaim'
    BY NextType, OwnerStep
  <1> QED
    BY <1>1, <1>2, PTL DEF Spec

(* With distinct worker identifiers, the worker _assert_owner accepts is the *)
(* one that made the latest claim of the job.                                *)
THEOREM LeaseIsAFence ==
  ASSUME FiniteJobs, DistinctWorkerIds
  PROVE  Spec => []OwnerIsLatestClaim
  BY OwnerInvariant, PTL

(* With distinct worker identifiers, the outcome of an execution whose job was *)
(* claimed again in the meantime is never recorded.                            *)
THEOREM StaleOutcomesAreRefused ==
  ASSUME FiniteJobs, DistinctWorkerIds
  PROVE  Spec => StaleRunsAreRefused
  <1>1. ASSUME TypeOK, OwnerIsLatestClaim, [Next]_vars, NEW t \in Threads,
               run[t].at # "idle", run'[t].at = "idle", jobs'[run[t].job] # jobs[run[t].job]
        PROVE  run[t].attempt = jobs[run[t].job].attempts
    <2>0. run \in [Threads -> Run] /\ jobs' # jobs /\ run' # run
      BY <1>1 DEF TypeOK
    <2>1. ASSUME NEW u \in Threads, Claim(u) PROVE FALSE
      <3>1. PICK j \in Jobs : run' = [run EXCEPT ![u] = [at |-> "handling", job |-> j,
                                                          attempt |-> jobs[j].attempts + 1]]
        BY <2>1 DEF Claim, Ready
      <3> QED
        BY <1>1, <2>0, <3>1
    <2>2. ASSUME NEW u \in Threads, Succeed(u) \/ Fail(u)
          PROVE  u = t /\ OwnedBy(run[t].job, WorkerOf[t])
      BY <1>1, <2>0, <2>2 DEF Succeed, Fail
    <2>3. \E u \in Threads : Succeed(u) \/ Fail(u)
      BY <1>1, <2>0, <2>1
         DEF Next, ProducerStep, WorkerStep, vars, Enqueue, Cancel, BecomesDue, LeaseRunsOut,
             RecoverExpiredLeases, HandlerEnds, Refused, Crash
    <2> QED
      BY <1>1, <2>2, <2>3 DEF OwnerIsLatestClaim
  <1>2. TypeOK /\ OwnerIsLatestClaim /\ [Next]_vars
          => [\A t \in Threads :
                run[t].at # "idle" /\ run'[t].at = "idle" /\ jobs'[run[t].job] # jobs[run[t].job]
                  => run[t].attempt = jobs[run[t].job].attempts]_vars
    BY <1>1
  <1> QED
    BY <1>2, OwnerInvariant, PTL DEF Spec, StaleRunsAreRefused

-----------------------------------------------------------------------------
(***************************************************************************)
(* The queue implements JobLifecycle.                                      *)
(***************************************************************************)
Phase == [j \in Jobs |-> PhaseOf(j)]
Tries == [j \in Jobs |-> jobs[j].attempts]
Allowance == [j \in Jobs |-> jobs[j].limit]

(* The phase a row's state stands for. *)
LEMMA PhaseFacts ==
  ASSUME TypeOK, NEW j \in Jobs
  PROVE  /\ jobs[j].state = "absent" <=> PhaseOf(j) = "absent"
         /\ jobs[j].state \in Waiting <=> PhaseOf(j) = "waiting"
         /\ jobs[j].state = "RUNNING" <=> PhaseOf(j) = "leased"
         /\ jobs[j].state = "SUCCEEDED" <=> PhaseOf(j) = "done"
         /\ jobs[j].state = "DEAD_LETTER" <=> PhaseOf(j) = "dead"
         /\ jobs[j].state = "CANCELLED" <=> PhaseOf(j) = "withdrawn"
  <1>1. jobs[j].state \in JobState \cup {"absent"}
    BY DEF TypeOK, Job
  <1> QED
    BY <1>1 DEF PhaseOf, Waiting, JobState

LEMMA NextPhaseFacts ==
  ASSUME TypeOK', NEW j \in Jobs
  PROVE  /\ jobs'[j].state = "absent" <=> PhaseOf(j)' = "absent"
         /\ jobs'[j].state \in Waiting <=> PhaseOf(j)' = "waiting"
         /\ jobs'[j].state = "RUNNING" <=> PhaseOf(j)' = "leased"
         /\ jobs'[j].state = "SUCCEEDED" <=> PhaseOf(j)' = "done"
         /\ jobs'[j].state = "DEAD_LETTER" <=> PhaseOf(j)' = "dead"
         /\ jobs'[j].state = "CANCELLED" <=> PhaseOf(j)' = "withdrawn"
  <1>1. jobs'[j].state \in JobState \cup {"absent"}
    BY DEF TypeOK, Job
  <1> QED
    BY <1>1 DEF PhaseOf, Waiting, JobState

LEMMA SamePhase ==
  ASSUME NEW j \in Jobs, jobs'[j].state = jobs[j].state
  PROVE  PhaseOf(j)' = PhaseOf(j)
  BY DEF PhaseOf

(* The row of a step that writes one row, seen as a phase. *)
LEMMA OneRowWritten ==
  ASSUME TypeOK, TypeOK', NEW j \in Jobs, \A i \in Jobs : i # j => jobs'[i] = jobs[i]
  PROVE  /\ Phase' = [Phase EXCEPT ![j] = PhaseOf(j)']
         /\ Tries' = [Tries EXCEPT ![j] = jobs'[j].attempts]
         /\ Allowance' = [Allowance EXCEPT ![j] = jobs'[j].limit]
  <1>1. \A i \in Jobs : i # j => PhaseOf(i)' = PhaseOf(i)
    BY SamePhase
  <1> QED
    BY <1>1 DEF Phase, Tries, Allowance

LEMMA StepRefines ==
  ASSUME TypeOK, TypeOK', RowsInv, [Next]_vars
  PROVE  [Life!Next]_(Life!vars)
  <1> SUFFICES \/ \E S \in SUBSET Jobs : Life!Lapse(S)
               \/ \E j \in Jobs : \/ Life!Submit(j)
                                  \/ \E S \in SUBSET Jobs : Life!Lease(S, j)
                                  \/ Life!Complete(j)
                                  \/ Life!Reject(j)
                                  \/ Life!Withdraw(j)
               \/ Phase' = Phase /\ Tries' = Tries /\ Allowance' = Allowance
    BY DEF Life!Next, Life!vars, Phase, Tries, Allowance
  <1> USE DEF Phase, Tries, Allowance
  <1>0. jobs \in [Jobs -> Job] /\ \A j \in Jobs : jobs[j] \in Job
    BY DEF TypeOK
  <1>1. ASSUME NEW j \in Jobs, NEW o \in Orgs, NEW k \in Keys \cup {None}, NEW p \in Payloads,
               Enqueue(j, o, k, p)
        PROVE  Life!Submit(j)
    <2>1. PICK pr \in Priorities, n \in Limits, d \in BOOLEAN :
            jobs' = [jobs EXCEPT ![j] = NewRow(o, k, p, pr, n, d)]
      BY <1>1 DEF Enqueue
    <2>2. /\ jobs'[j].state = "QUEUED" /\ jobs'[j].attempts = 0 /\ jobs'[j].limit = n
          /\ \A i \in Jobs : i # j => jobs'[i] = jobs[i]
      BY <1>0, <2>1 DEF NewRow, NoRow
    <2>3. PhaseOf(j) = "absent" /\ PhaseOf(j)' = "waiting"
      BY <1>1, <2>2, PhaseFacts, NextPhaseFacts DEF Enqueue, Present, Waiting
    <2>4. jobs[j].attempts = 0
      BY <1>1 DEF Enqueue, Present, RowsInv, RowInv
    <2>5. n \in Nat \ {0} /\ Allowance'[j] = n
      BY <2>2, LimitsAssumption
    <2>6. /\ Phase' = [Phase EXCEPT ![j] = "waiting"]
          /\ Tries' = [Tries EXCEPT ![j] = 0]
          /\ Allowance' = [Allowance EXCEPT ![j] = n]
      BY <2>2, <2>3, OneRowWritten
    <2>7. Tries' = Tries
      BY <2>4, <2>6
    <2> QED
      BY <2>3, <2>5, <2>6, <2>7 DEF Life!Submit
  <1>2. ASSUME NEW j \in Jobs, NEW o \in Orgs, Cancel(j, o) PROVE Life!Withdraw(j)
    <2>1. /\ jobs'[j].state = "CANCELLED" /\ SameCounts(j)
          /\ \A i \in Jobs : i # j => jobs'[i] = jobs[i]
      BY <1>0, <1>2 DEF Cancel, Job, SameCounts
    <2>2. PhaseOf(j) \notin {"absent", "leased"} /\ PhaseOf(j)' = "withdrawn"
      BY <1>2, <2>1, PhaseFacts, NextPhaseFacts DEF Cancel, Present
    <2> QED
      BY <2>1, <2>2, OneRowWritten DEF Life!Withdraw, SameCounts
  <1>3. ASSUME NEW j \in Jobs, BecomesDue(j) \/ LeaseRunsOut(j)
        PROVE  Phase' = Phase /\ Tries' = Tries /\ Allowance' = Allowance
    <2>1. /\ jobs'[j].state = jobs[j].state /\ SameCounts(j)
          /\ \A i \in Jobs : i # j => jobs'[i] = jobs[i]
      BY <1>0, <1>3 DEF BecomesDue, LeaseRunsOut, Job, SameCounts
    <2>2. PhaseOf(j)' = PhaseOf(j)
      BY <2>1 DEF PhaseOf
    <2> QED
      BY <2>1, <2>2, OneRowWritten DEF SameCounts
  <1>4. CASE RecoverExpiredLeases
    <2> DEFINE S == {i \in Jobs : Expired(i)}
    <2>1. \A i \in S : PhaseOf(i) = "leased"
      BY PhaseFacts DEF Expired
    <2>2. \A i \in Jobs : /\ i \in S => PhaseOf(i)' = "waiting"
                          /\ i \notin S => PhaseOf(i)' = PhaseOf(i)
                          /\ SameCounts(i)
      BY <1>4, RecoveredRow, NextPhaseFacts, SamePhase
         DEF RecoverExpiredLeases, Waiting, SameCounts
    <2>3. Life!Lapse(S)
      BY <2>1, <2>2 DEF Life!Lapse, SameCounts
    <2> QED
      BY <2>3
  <1>5. ASSUME NEW t \in Threads, Claim(t)
        PROVE  \E j \in Jobs, S \in SUBSET Jobs : Life!Lease(S, j)
    <2> DEFINE S == {i \in Jobs : Expired(i)}
    <2>1. PICK j \in Jobs : /\ jobs' = [Recovered EXCEPT ![j] = Leased(@, WorkerOf[t])]
                            /\ jobs[j].state \in Waiting \/ Expired(j)
      BY <1>5 DEF Claim, Ready
    <2>2. Recovered \in [Jobs -> Job] /\ Recovered[j] \in Job
      BY RecoveredType
    <2>3. \A i \in S : PhaseOf(i) = "leased"
      BY PhaseFacts DEF Expired
    <2>4. PhaseOf(j) = "waiting" \/ j \in S
      BY <2>1, PhaseFacts
    <2>5. /\ jobs'[j].state = "RUNNING" /\ jobs'[j].attempts = Recovered[j].attempts + 1
          /\ jobs'[j].limit = Recovered[j].limit
          /\ \A i \in Jobs : i # j => jobs'[i] = Recovered[i]
      BY <2>1, <2>2 DEF Leased, Job
    <2>6. PhaseOf(j)' = "leased" /\ jobs'[j].attempts = jobs[j].attempts + 1
          /\ jobs'[j].limit = jobs[j].limit
      BY <2>5, NextPhaseFacts, RecoveredRow
    <2>7. \A i \in Jobs : i # j => /\ i \in S => PhaseOf(i)' = "waiting"
                                   /\ i \notin S => PhaseOf(i)' = PhaseOf(i)
                                   /\ SameCounts(i)
      BY <2>5, RecoveredRow, NextPhaseFacts, SamePhase DEF Waiting, SameCounts
    <2>8. Life!Lease(S, j)
      BY <2>3, <2>4, <2>6, <2>7 DEF Life!Lease, SameCounts
    <2> QED
      BY <2>8
  <1>6. ASSUME NEW t \in Threads, Succeed(t) PROVE \E j \in Jobs : Life!Complete(j)
    <2>1. PICK j \in Jobs : j = run[t].job
      BY <1>6 DEF Succeed, TypeOK
    <2>2. /\ jobs[j].state = "RUNNING" /\ jobs'[j].state = "SUCCEEDED" /\ SameCounts(j)
          /\ \A i \in Jobs : i # j => jobs'[i] = jobs[i]
      BY <1>0, <1>6, <2>1 DEF Succeed, OwnedBy, Released, Job, SameCounts
    <2>3. PhaseOf(j) = "leased" /\ PhaseOf(j)' = "done"
      BY <2>1, <2>2, PhaseFacts, NextPhaseFacts
    <2>4. Life!Complete(j)
      BY <2>1, <2>2, <2>3, OneRowWritten DEF Life!Complete, SameCounts
    <2> QED
      BY <2>1, <2>4
  <1>7. ASSUME NEW t \in Threads, Fail(t) PROVE \E j \in Jobs : Life!Reject(j)
    <2>1. PICK j \in Jobs : j = run[t].job
      BY <1>7 DEF Fail, TypeOK
    <2>2. PICK d : jobs' = [jobs EXCEPT ![j] =
                      Released(@, IF Exhausted(j) THEN "DEAD_LETTER" ELSE "RETRY_SCHEDULED", d)]
      BY <1>7, <2>1 DEF Fail
    <2>3. /\ jobs[j].state = "RUNNING" /\ SameCounts(j)
          /\ jobs'[j].state = IF Exhausted(j) THEN "DEAD_LETTER" ELSE "RETRY_SCHEDULED"
          /\ \A i \in Jobs : i # j => jobs'[i] = jobs[i]
      BY <1>0, <1>7, <2>1, <2>2 DEF Fail, OwnedBy, Released, Job, SameCounts
    <2>4. PhaseOf(j) = "leased" /\ PhaseOf(j)' = IF Exhausted(j) THEN "dead" ELSE "waiting"
      BY <2>1, <2>3, PhaseFacts, NextPhaseFacts DEF Waiting
    <2>5. Life!Reject(j)
      <3>1. Tries[j] >= Allowance[j] <=> Exhausted(j)
        BY DEF Exhausted
      <3>2. Phase' = [Phase EXCEPT ![j] = IF Exhausted(j) THEN "dead" ELSE "waiting"]
        BY <2>3, <2>4, OneRowWritten
      <3>3. Tries' = Tries /\ Allowance' = Allowance
        BY <2>3, OneRowWritten DEF SameCounts
      <3> QED
        BY <2>4, <3>1, <3>2, <3>3 DEF Life!Reject
    <2> QED
      BY <2>1, <2>5
  <1>8. ASSUME NEW t \in Threads, HandlerEnds(t) \/ Refused(t) \/ Crash(t)
        PROVE  Phase' = Phase /\ Tries' = Tries /\ Allowance' = Allowance
    BY <1>8, SamePhase DEF HandlerEnds, Refused, Crash
  <1>9. CASE UNCHANGED vars
    BY <1>9, SamePhase DEF vars
  <1> QED
    BY <1>1, <1>2, <1>3, <1>4, <1>5, <1>6, <1>7, <1>8, <1>9 DEF Next, ProducerStep, WorkerStep

(* Every behaviour of the queue is a behaviour of JobLifecycle. *)
THEOREM ImplementsLifecycle == ASSUME FiniteJobs PROVE Spec => LifecycleSpec
  <1>1. Init => Life!Init
    <2> SUFFICES ASSUME Init PROVE Life!Init
      OBVIOUS
    <2>1. \A j \in Jobs : jobs[j].state = "absent" /\ jobs[j].attempts = 0 /\ jobs[j].limit = 0
      BY DEF Init, NoRow
    <2>2. \A j \in Jobs : PhaseOf(j) = "absent"
      BY <2>1 DEF PhaseOf, Waiting
    <2>3. /\ Phase = [j \in Jobs |-> "absent"] /\ Tries = [j \in Jobs |-> 0]
          /\ Allowance = [j \in Jobs |-> 0]
      BY <2>1, <2>2 DEF Phase, Tries, Allowance
    <2> QED
      BY <2>3 DEF Life!Init, Phase, Tries, Allowance
  <1>2. TypeOK /\ TypeOK' /\ RowsInv /\ [Next]_vars => [Life!Next]_(Life!vars)
    BY StepRefines
  <1> QED
    BY <1>1, <1>2, RowsInvariant, PTL DEF Spec, LifecycleSpec, Life!Spec

-----------------------------------------------------------------------------
(* CaseDesk: the assignee of every copy is the one of the table, until two *)
(* assignments cross; an escalation is resolved in a copy only after it was*)
(* in the table.                                                           *)

DeskRow == [assigned : Users \cup {NoValue}, escalations : [EscalationLevels -> Desk!Statuses]]
DeskCopy == [hasCase : BOOLEAN, assigned : Users \cup {NoValue},
             escalations : [EscalationLevels -> Desk!Statuses]]
DeskAct == [at : {"idle", "assign_case", "upsert_escalation"}, user : Users \cup {NoValue},
            level : EscalationLevels \cup {"DUE"}, status : Desk!Statuses]

DeskTyped ==
  /\ db \in DeskRow
  /\ store \in [Servers -> DeskCopy]
  /\ act \in [Callers -> DeskAct]
  /\ early \in [EscalationLevels -> SUBSET Servers]
  /\ crossed \in BOOLEAN

\* A user is being written, by a process which has claimed or released.
Assigning == {t \in Callers : Desk!At(t, "assign_case")}

AssigneesFollow == ~crossed =>
  /\ \A t \in Assigning : ServerOfCaller[t] \in claimers
  /\ \A t, u \in Assigning : t = u
  /\ \A s \in Servers : claimers = {s} =>
       /\ \A t \in Assigning : act[t].user = store[s].assigned
       /\ Assigning = {} => db.assigned = store[s].assigned

\* Who may still write an escalation as open, once it is resolved, is one of `early`.
CopiesAreEarly == \A l \in EscalationLevels :
  /\ \A t \in Callers : Desk!At(t, "upsert_escalation") /\ act[t].level = l =>
       /\ store[ServerOfCaller[t]].escalations[l] # "absent"
       /\ db.escalations[l] = "RESOLVED" /\ act[t].status # "RESOLVED" => ServerOfCaller[t] \in early[l]
  /\ db.escalations[l] = "RESOLVED" =>
       \A s \in Servers : store[s].escalations[l] \notin {"absent", "RESOLVED"} => s \in early[l]

DeskInvariant == DeskTyped /\ AssigneesFollow /\ CopiesAreEarly

LEMMA DeskIdle == Desk!Idle \in DeskAct /\ Desk!Idle.at = "idle"
  BY DEF Desk!Idle, DeskAct, Desk!Statuses, Desk!Absent

LEMMA DeskEmpty ==
  /\ Desk!EmptyStore \in DeskCopy /\ Desk!EmptyStore.assigned = NoValue
  /\ \A l \in EscalationLevels : Desk!EmptyStore.escalations[l] = "absent"
  BY DEF Desk!EmptyStore, DeskCopy, Desk!Statuses, Desk!Absent

LEMMA DeskInitially == ASSUME Desk!Init PROVE DeskInvariant
  <1> USE DEF Desk!Init, Desk!At
  <1>1. db \in DeskRow /\ db.assigned = NoValue /\ \A l \in EscalationLevels : db.escalations[l] = "absent"
    BY DEF DeskRow, Desk!Statuses, Desk!Absent
  <1>2. Assigning = {}
    BY DeskIdle DEF Assigning
  <1>3. DeskTyped
    BY <1>1, DeskIdle, DeskEmpty DEF DeskTyped
  <1>4. AssigneesFollow
    BY <1>1, <1>2, DeskEmpty DEF AssigneesFollow
  <1>5. CopiesAreEarly
    BY <1>1, DeskIdle DEF CopiesAreEarly
  <1> QED
    BY <1>3, <1>4, <1>5 DEF DeskInvariant

\* A process reads the case, or an escalation as the table has it or as new.
LEMMA DeskReads ==
  ASSUME DeskInvariant, NEW s \in Servers, NEW x \in DeskCopy, store' = [store EXCEPT ![s] = x],
         x.assigned = store[s].assigned,
         \A l \in EscalationLevels :
           \/ x.escalations[l] = store[s].escalations[l]
           \/ x.escalations[l] # "absent" /\ (db.escalations[l] = "RESOLVED" => x.escalations[l] = "RESOLVED"),
         UNCHANGED <<db, act, early, claimers, crossed>>
  PROVE  DeskInvariant'
  <1>1. store'[s] = x /\ \A z \in Servers : z # s => store'[z] = store[z]
    BY DEF DeskInvariant, DeskTyped
  <1>2. DeskTyped'
    BY DEF DeskInvariant, DeskTyped
  <1>3. Assigning' = Assigning
    BY DEF Assigning, Desk!At
  <1>4. \A z \in Servers : store'[z].assigned = store[z].assigned
    BY <1>1
  <1>5. AssigneesFollow'
    BY <1>3, <1>4 DEF DeskInvariant, AssigneesFollow
  <1>6. CopiesAreEarly'
    <2>1. ASSUME NEW l \in EscalationLevels, NEW t \in Callers, Desk!At(t, "upsert_escalation"), act[t].level = l
          PROVE  /\ store'[ServerOfCaller[t]].escalations[l] # "absent"
                 /\ db.escalations[l] = "RESOLVED" /\ act[t].status # "RESOLVED" => ServerOfCaller[t] \in early[l]
      <3>1. /\ store[ServerOfCaller[t]].escalations[l] # "absent"
            /\ db.escalations[l] = "RESOLVED" /\ act[t].status # "RESOLVED" => ServerOfCaller[t] \in early[l]
        BY <2>1 DEF DeskInvariant, CopiesAreEarly
      <3>2. CASE ServerOfCaller[t] = s
        BY <1>1, <3>1, <3>2
      <3>3. CASE ServerOfCaller[t] # s
        BY <3>1, <3>3 DEF DeskInvariant, DeskTyped
      <3> QED
        BY <3>2, <3>3
    <2>2. ASSUME NEW l \in EscalationLevels, db.escalations[l] = "RESOLVED", NEW z \in Servers,
                 store'[z].escalations[l] \notin {"absent", "RESOLVED"}
          PROVE  z \in early[l]
      BY <1>1, <2>2 DEF DeskInvariant, CopiesAreEarly
    <2> QED
      BY <2>1, <2>2 DEF CopiesAreEarly, Desk!At
  <1> QED
    BY <1>2, <1>5, <1>6 DEF DeskInvariant

LEMMA DeskOpensFile ==
  ASSUME DeskInvariant, NEW t \in Callers, Desk!ReadCase(t) PROVE DeskInvariant'
  <1>1. PICK s \in Servers : s = ServerOfCaller[t]
    BY DeskAssumption
  <1>2. PICK x : x = [store[s] EXCEPT !.hasCase = TRUE]
    OBVIOUS
  <1>3. store[s] \in DeskCopy
    BY DEF DeskInvariant, DeskTyped
  <1>4. x \in DeskCopy /\ x.assigned = store[s].assigned /\ x.escalations = store[s].escalations
    BY <1>2, <1>3 DEF DeskCopy
  <1>5. store' = [store EXCEPT ![s] = x] /\ UNCHANGED <<db, act, early, claimers, crossed>>
    BY <1>1, <1>2 DEF Desk!ReadCase, Desk!Keep, Desk!Mine
  <1> QED
    BY <1>4, <1>5, DeskReads

\* An escalation is copied with a status the process may take it to have.
LEMMA DeskCopies ==
  ASSUME DeskInvariant, NEW t \in Callers, NEW l \in EscalationLevels, NEW status \in Desk!Statuses,
         Desk!Keep(t, [Desk!Mine(t) EXCEPT !.escalations[l] = status]),
         \/ status = Desk!Mine(t).escalations[l]
         \/ status # "absent" /\ (db.escalations[l] = "RESOLVED" => status = "RESOLVED"),
         UNCHANGED <<db, act, early, claimers, crossed>>
  PROVE  DeskInvariant'
  <1>1. PICK s \in Servers : s = ServerOfCaller[t]
    BY DeskAssumption
  <1>2. PICK x : x = [store[s] EXCEPT !.escalations[l] = status]
    OBVIOUS
  <1>3. store[s] \in DeskCopy
    BY DEF DeskInvariant, DeskTyped
  <1>4. /\ x \in DeskCopy /\ x.assigned = store[s].assigned
        /\ x.escalations[l] = status /\ \A m \in EscalationLevels : m # l => x.escalations[m] = store[s].escalations[m]
    BY <1>2, <1>3 DEF DeskCopy
  <1>5. store' = [store EXCEPT ![s] = x]
    BY <1>1, <1>2 DEF Desk!Keep, Desk!Mine
  <1>6. \A m \in EscalationLevels :
           \/ x.escalations[m] = store[s].escalations[m]
           \/ x.escalations[m] # "absent" /\ (db.escalations[m] = "RESOLVED" => x.escalations[m] = "RESOLVED")
    BY <1>1, <1>4 DEF Desk!Mine
  <1> QED
    BY <1>4, <1>5, <1>6, DeskReads

LEMMA DeskLists ==
  ASSUME DeskInvariant, NEW t \in Callers, NEW l \in EscalationLevels, Desk!ListEscalations(t, l)
  PROVE  DeskInvariant'
  <1>1. PICK status : status = Desk!Signalled(t, l)
    OBVIOUS
  <1>2. /\ Desk!Mine(t).escalations[l] \in Desk!Statuses /\ db.escalations[l] \in Desk!Statuses
        /\ "OPEN" \in Desk!Statuses /\ Desk!Absent = "absent"
    BY DeskAssumption DEF DeskInvariant, DeskTyped, DeskRow, DeskCopy, Desk!Mine, Desk!Statuses, Desk!Absent
  <1>3. status \in Desk!Statuses
    BY <1>1, <1>2 DEF Desk!Signalled
  <1>4. \/ status = Desk!Mine(t).escalations[l]
        \/ status # "absent" /\ (db.escalations[l] = "RESOLVED" => status = "RESOLVED")
    BY <1>1, <1>2 DEF Desk!Signalled
  <1>5. Desk!Keep(t, [Desk!Mine(t) EXCEPT !.escalations[l] = status]) /\ UNCHANGED <<db, act, early, claimers, crossed>>
    BY <1>1 DEF Desk!ListEscalations
  <1> QED
    BY <1>3, <1>4, <1>5, DeskCopies

LEMMA DeskNotifies ==
  ASSUME DeskInvariant, NEW t \in Callers, NEW l \in EscalationLevels, Desk!Notify(t, l)
  PROVE  DeskInvariant'
  <1>1. PICK status \in Desk!Statuses : status = db.escalations[l]
    BY DEF DeskInvariant, DeskTyped, DeskRow
  <1>2. /\ Desk!Keep(t, [Desk!Mine(t) EXCEPT !.escalations[l] = status]) /\ UNCHANGED <<db, act, early, claimers, crossed>>
        /\ status # "absent"
    BY <1>1 DEF Desk!Notify, Desk!Absent
  <1> QED
    BY <1>1, <1>2, DeskCopies

\* The process and its request agree on the user; a second request, or process, ends the history.
LEMMA DeskAssigns ==
  ASSUME DeskInvariant, NEW t \in Callers, NEW u \in Users \cup {NoValue},
         Desk!At(t, "idle"), Desk!Assign(t, u)
  PROVE  DeskInvariant'
  <1>1. PICK s \in Servers : s = ServerOfCaller[t]
    BY DeskAssumption
  <1>2. PICK x : x = [store[s] EXCEPT !.assigned = u]
    OBVIOUS
  <1>3. PICK a : a = [Desk!Idle EXCEPT !.at = "assign_case", !.user = u]
    OBVIOUS
  <1>4. store[s] \in DeskCopy
    BY DEF DeskInvariant, DeskTyped
  <1>5. x \in DeskCopy /\ x.assigned = u /\ x.escalations = store[s].escalations
    BY <1>2, <1>4 DEF DeskCopy
  <1>6. a \in DeskAct /\ a.at = "assign_case" /\ a.user = u
    BY <1>3, DeskIdle DEF DeskAct
  <1>7. /\ store' = [store EXCEPT ![s] = x] /\ act' = [act EXCEPT ![t] = a]
        /\ claimers' = claimers \cup {s}
        /\ crossed' = (crossed \/ \E o \in Callers : Desk!At(o, "assign_case"))
        /\ UNCHANGED <<db, early>>
    BY <1>1, <1>2, <1>3, Zenon DEF Desk!Assign, Desk!Keep, Desk!Mine, Desk!Go
  <1>8. act'[t] = a /\ \A o \in Callers : o # t => act'[o] = act[o]
    BY <1>7 DEF DeskInvariant, DeskTyped
  <1>9. store'[s] = x /\ \A z \in Servers : z # s => store'[z] = store[z]
    BY <1>7 DEF DeskInvariant, DeskTyped
  <1>10. DeskTyped'
    <2>1. crossed' \in BOOLEAN
      BY <1>7, Zenon
    <2> QED
      BY <1>5, <1>6, <1>7, <2>1 DEF DeskInvariant, DeskTyped
  <1>11. AssigneesFollow'
    <2> SUFFICES ASSUME ~crossed' PROVE AssigneesFollow'
      BY DEF AssigneesFollow
    <2>1. ~crossed /\ Assigning = {}
      BY <1>7 DEF Assigning
    <2>2. Assigning' = {t}
      BY <1>6, <1>8, <2>1 DEF Assigning, Desk!At
    <2> QED
      BY <1>1, <1>5, <1>6, <1>7, <1>8, <1>9, <2>1, <2>2 DEF AssigneesFollow
  <1>12. CopiesAreEarly'
    <2>1. \A z \in Servers : store'[z].escalations = store[z].escalations
      BY <1>5, <1>9
    <2>2. \A o \in Callers : Desk!At(o, "upsert_escalation")' => o # t
      BY <1>6, <1>8 DEF Desk!At
    <2> QED
      BY <1>7, <1>8, <2>1, <2>2, DeskAssumption DEF DeskInvariant, CopiesAreEarly, Desk!At
  <1> QED
    BY <1>10, <1>11, <1>12 DEF DeskInvariant

LEMMA DeskWritesAssignee ==
  ASSUME DeskInvariant, NEW t \in Callers, Desk!WriteAssignee(t) PROVE DeskInvariant'
  <1>1. PICK u : u = act[t].user
    OBVIOUS
  <1>2. PICK a : a = Desk!Idle
    OBVIOUS
  <1>3. /\ db' = [db EXCEPT !.assigned = u] /\ act' = [act EXCEPT ![t] = a] /\ t \in Assigning
        /\ UNCHANGED <<store, early, claimers, crossed>>
    BY <1>1, <1>2 DEF Desk!WriteAssignee, Desk!AssignCase, Desk!Go, Assigning
  <1>4. act'[t] = a /\ \A o \in Callers : o # t => act'[o] = act[o]
    BY <1>3 DEF DeskInvariant, DeskTyped
  <1>5. u \in Users \cup {NoValue}
    BY <1>1 DEF DeskInvariant, DeskTyped, DeskAct
  <1>6. db' \in DeskRow /\ db'.assigned = u /\ db'.escalations = db.escalations
    BY <1>3, <1>5 DEF DeskInvariant, DeskTyped, DeskRow
  <1>7. a \in DeskAct /\ a.at = "idle"
    BY <1>2, DeskIdle
  <1>8. DeskTyped'
    BY <1>3, <1>6, <1>7 DEF DeskInvariant, DeskTyped
  <1>9. AssigneesFollow'
    <2> SUFFICES ASSUME ~crossed' PROVE AssigneesFollow'
      BY DEF AssigneesFollow
    <2>1. ~crossed /\ Assigning = {t}
      BY <1>3 DEF DeskInvariant, AssigneesFollow
    <2>2. Assigning' = {}
      BY <1>4, <1>7, <2>1 DEF Assigning, Desk!At
    <2> QED
      BY <1>1, <1>3, <1>6, <2>1, <2>2 DEF DeskInvariant, AssigneesFollow
  <1>10. CopiesAreEarly'
    <2>1. \A o \in Callers : Desk!At(o, "upsert_escalation")' => Desk!At(o, "upsert_escalation") /\ act'[o] = act[o]
      BY <1>4, <1>7 DEF Desk!At
    <2> QED
      BY <1>3, <1>6, <2>1 DEF DeskInvariant, CopiesAreEarly
  <1> QED
    BY <1>8, <1>9, <1>10 DEF DeskInvariant

LEMMA DeskDecides ==
  ASSUME DeskInvariant, NEW t \in Callers, NEW l \in EscalationLevels,
         NEW status \in {"ACKNOWLEDGED", "RESOLVED"}, Desk!Decide(t, l, status)
  PROVE  DeskInvariant'
  <1>1. PICK s \in Servers : s = ServerOfCaller[t]
    BY DeskAssumption
  <1>2. PICK x : x = [store[s] EXCEPT !.escalations[l] = status]
    OBVIOUS
  <1>3. PICK a : a = [Desk!Idle EXCEPT !.at = "upsert_escalation", !.level = l, !.status = status]
    OBVIOUS
  <1>4. store[s] \in DeskCopy /\ status \in Desk!Statuses
    BY DEF DeskInvariant, DeskTyped, Desk!Statuses
  <1>5. /\ x \in DeskCopy /\ x.assigned = store[s].assigned
        /\ x.escalations[l] = status /\ \A m \in EscalationLevels : m # l => x.escalations[m] = store[s].escalations[m]
    BY <1>2, <1>4 DEF DeskCopy
  <1>6. a \in DeskAct /\ a.at = "upsert_escalation" /\ a.level = l /\ a.status = status
    BY <1>3, <1>4, DeskIdle DEF DeskAct
  <1>7. /\ store' = [store EXCEPT ![s] = x] /\ act' = [act EXCEPT ![t] = a] /\ act[t].at = "idle"
        /\ store[s].escalations[l] \notin {"absent", "RESOLVED"}
        /\ UNCHANGED <<db, early, claimers, crossed>>
    BY <1>1, <1>2, <1>3 DEF Desk!Decide, Desk!Keep, Desk!Mine, Desk!Go, Desk!At, Desk!Absent
  <1>8. act'[t] = a /\ \A o \in Callers : o # t => act'[o] = act[o]
    BY <1>7 DEF DeskInvariant, DeskTyped
  <1>9. store'[s] = x /\ \A z \in Servers : z # s => store'[z] = store[z]
    BY <1>7 DEF DeskInvariant, DeskTyped
  <1>10. DeskTyped'
    BY <1>5, <1>6, <1>7 DEF DeskInvariant, DeskTyped
  <1>11. Assigning' = Assigning /\ t \notin Assigning /\ \A z \in Servers : store'[z].assigned = store[z].assigned
    BY <1>5, <1>6, <1>7, <1>8, <1>9 DEF Assigning, Desk!At
  <1>12. AssigneesFollow'
    BY <1>7, <1>8, <1>11 DEF DeskInvariant, AssigneesFollow, Assigning
  <1>13. db.escalations[l] = "RESOLVED" => s \in early[l]
    BY <1>7 DEF DeskInvariant, CopiesAreEarly
  <1>14. CopiesAreEarly'
    <2>1. ASSUME NEW m \in EscalationLevels, NEW o \in Callers, act'[o].at = "upsert_escalation", act'[o].level = m
          PROVE  /\ store'[ServerOfCaller[o]].escalations[m] # "absent"
                 /\ db.escalations[m] = "RESOLVED" /\ act'[o].status # "RESOLVED" => ServerOfCaller[o] \in early[m]
      <3>1. CASE o = t
        BY <1>1, <1>5, <1>6, <1>8, <1>9, <1>13, <2>1, <3>1
      <3>2. CASE o # t
        <4>1. PICK z \in Servers : z = ServerOfCaller[o]
          BY DeskAssumption
        <4>2. /\ store[z].escalations[m] # "absent"
              /\ db.escalations[m] = "RESOLVED" /\ act'[o].status # "RESOLVED" => z \in early[m]
          BY <1>8, <2>1, <3>2, <4>1 DEF DeskInvariant, CopiesAreEarly, Desk!At
        <4> QED
          BY <1>5, <1>9, <4>1, <4>2
      <3> QED
        BY <3>1, <3>2
    <2>2. ASSUME NEW m \in EscalationLevels, db.escalations[m] = "RESOLVED", NEW z \in Servers,
                 store'[z].escalations[m] \notin {"absent", "RESOLVED"}
          PROVE  z \in early[m]
      <3>1. CASE z = s /\ m = l
        BY <1>13, <2>2, <3>1
      <3>2. CASE ~(z = s /\ m = l)
        BY <1>5, <1>9, <2>2, <3>2 DEF DeskInvariant, CopiesAreEarly
      <3> QED
        BY <3>1, <3>2
    <2> QED
      BY <1>7, <2>1, <2>2 DEF CopiesAreEarly, Desk!At
  <1> QED
    BY <1>10, <1>12, <1>14 DEF DeskInvariant

LEMMA DeskUpserts ==
  ASSUME DeskInvariant, NEW t \in Callers, Desk!UpsertEscalation(t) PROVE DeskInvariant'
  <1>1. PICK l, status : l = act[t].level /\ status = act[t].status
    OBVIOUS
  <1>2. PICK a : a = Desk!Idle
    OBVIOUS
  <1>3. PICK copied : copied = {s \in Servers : store[s].escalations[l] # "absent"}
    OBVIOUS
  <1>4. /\ act[t].at = "upsert_escalation" /\ db' = [db EXCEPT !.escalations[l] = status]
        /\ early' = IF status = "RESOLVED" /\ db.escalations[l] # "RESOLVED"
                      THEN [early EXCEPT ![l] = copied] ELSE early
        /\ act' = [act EXCEPT ![t] = a] /\ UNCHANGED <<store, claimers, crossed>>
    BY <1>1, <1>2, <1>3 DEF Desk!UpsertEscalation, Desk!Go, Desk!At, Desk!Absent
  <1>5. a \in DeskAct /\ a.at = "idle"
    BY <1>2, DeskIdle
  <1>6. act'[t] = a /\ \A o \in Callers : o # t => act'[o] = act[o]
    BY <1>4 DEF DeskInvariant, DeskTyped
  <1>7. status \in Desk!Statuses
    BY <1>1 DEF DeskInvariant, DeskTyped, DeskAct
  <1>8. /\ db' \in DeskRow /\ db'.assigned = db.assigned
        /\ \A m \in EscalationLevels : db'.escalations[m] = IF m = l THEN status ELSE db.escalations[m]
    BY <1>4, <1>7 DEF DeskInvariant, DeskTyped, DeskRow
  <1>9. \A m \in EscalationLevels : early'[m] \subseteq Servers /\ (m # l => early'[m] = early[m])
    BY <1>3, <1>4 DEF DeskInvariant, DeskTyped
  <1>10. DeskTyped'
    BY <1>3, <1>4, <1>5, <1>8 DEF DeskInvariant, DeskTyped
  <1>11. Assigning' = Assigning /\ t \notin Assigning
    BY <1>4, <1>5, <1>6 DEF Assigning, Desk!At
  <1>12. AssigneesFollow'
    BY <1>4, <1>6, <1>8, <1>11 DEF DeskInvariant, AssigneesFollow, Assigning
  <1>13. ASSUME NEW z \in Servers, l \in EscalationLevels, status = "RESOLVED", store[z].escalations[l] # "absent",
                db.escalations[l] # "RESOLVED"
         PROVE  z \in early'[l]
    BY <1>3, <1>4, <1>13 DEF DeskInvariant, DeskTyped
  <1>14. CopiesAreEarly'
    <2>1. ASSUME NEW m \in EscalationLevels, NEW o \in Callers, act'[o].at = "upsert_escalation", act'[o].level = m
          PROVE  /\ store[ServerOfCaller[o]].escalations[m] # "absent"
                 /\ db'.escalations[m] = "RESOLVED" /\ act'[o].status # "RESOLVED" => ServerOfCaller[o] \in early'[m]
      <3>1. o # t /\ act'[o] = act[o]
        BY <1>5, <1>6, <2>1
      <3>2. PICK z \in Servers : z = ServerOfCaller[o]
        BY DeskAssumption
      <3>3. /\ store[z].escalations[m] # "absent"
            /\ db.escalations[m] = "RESOLVED" /\ act[o].status # "RESOLVED" => z \in early[m]
        BY <2>1, <3>1, <3>2 DEF DeskInvariant, CopiesAreEarly, Desk!At
      <3>4. CASE m = l /\ status = "RESOLVED" /\ db.escalations[l] # "RESOLVED"
        BY <1>13, <3>2, <3>3, <3>4
      <3>5. CASE m = l /\ ~(status = "RESOLVED" /\ db.escalations[l] # "RESOLVED")
        BY <1>4, <1>8, <3>1, <3>2, <3>3, <3>5
      <3>6. CASE m # l
        BY <1>8, <1>9, <3>1, <3>2, <3>3, <3>6
      <3> QED
        BY <3>4, <3>5, <3>6
    <2>2. ASSUME NEW m \in EscalationLevels, db'.escalations[m] = "RESOLVED", NEW z \in Servers,
                 store[z].escalations[m] \notin {"absent", "RESOLVED"}
          PROVE  z \in early'[m]
      <3>1. db.escalations[m] = "RESOLVED" => z \in early[m]
        BY <2>2 DEF DeskInvariant, CopiesAreEarly
      <3>2. CASE m = l /\ status = "RESOLVED" /\ db.escalations[l] # "RESOLVED"
        BY <1>13, <2>2, <3>2
      <3>3. CASE m = l /\ ~(status = "RESOLVED" /\ db.escalations[l] # "RESOLVED")
        BY <1>4, <1>8, <2>2, <3>1, <3>3
      <3>4. CASE m # l
        BY <1>8, <1>9, <2>2, <3>1, <3>4
      <3> QED
        BY <3>2, <3>3, <3>4
    <2> QED
      BY <1>4, <2>1, <2>2 DEF CopiesAreEarly, Desk!At
  <1> QED
    BY <1>10, <1>12, <1>14 DEF DeskInvariant

LEMMA DeskRestarts ==
  ASSUME DeskInvariant, NEW s \in Servers, Desk!Restart(s) PROVE DeskInvariant'
  <1>1. PICK idle, empty : idle = Desk!Idle /\ empty = Desk!EmptyStore
    OBVIOUS
  <1>2. /\ store' = [store EXCEPT ![s] = empty]
        /\ act' = [t \in Callers |-> IF ServerOfCaller[t] = s THEN idle ELSE act[t]]
        /\ early' = [l \in EscalationLevels |-> early[l] \ {s}]
        /\ crossed' = (crossed \/ s \in claimers)
        /\ UNCHANGED <<db, claimers>>
    <2>1. \A t \in Callers : t \in {u \in Callers : ServerOfCaller[u] = s} <=> ServerOfCaller[t] = s
      OBVIOUS
    <2> QED
      BY <1>1, <2>1 DEF Desk!Restart
  <1>3. /\ idle \in DeskAct /\ idle.at = "idle" /\ empty \in DeskCopy
        /\ \A l \in EscalationLevels : empty.escalations[l] = "absent"
    BY <1>1, DeskIdle, DeskEmpty
  <1>4. \A t \in Callers : IF ServerOfCaller[t] = s THEN act'[t] = idle ELSE act'[t] = act[t]
    BY <1>2
  <1>5. store'[s] = empty /\ \A z \in Servers : z # s => store'[z] = store[z]
    BY <1>2 DEF DeskInvariant, DeskTyped
  <1>6. DeskTyped'
    <2>1. crossed' \in BOOLEAN
      BY <1>2, Zenon
    <2>2. act' \in [Callers -> DeskAct] /\ early' \in [EscalationLevels -> SUBSET Servers]
      BY <1>2, <1>3 DEF DeskInvariant, DeskTyped
    <2> QED
      BY <1>2, <1>3, <2>1, <2>2 DEF DeskInvariant, DeskTyped
  <1>7. AssigneesFollow'
    <2> SUFFICES ASSUME ~crossed' PROVE AssigneesFollow'
      BY DEF AssigneesFollow
    <2>1. ~crossed /\ s \notin claimers
      BY <1>2
    <2>2. \A t \in Assigning : ServerOfCaller[t] # s
      BY <2>1 DEF DeskInvariant, AssigneesFollow
    <2>3. Assigning' = Assigning /\ \A t \in Assigning : act'[t] = act[t]
      BY <1>3, <1>4, <2>2 DEF Assigning, Desk!At
    <2>4. ASSUME NEW z \in Servers, claimers = {z}
          PROVE  /\ \A t \in Assigning : act[t].user = store'[z].assigned
                 /\ Assigning = {} => db.assigned = store'[z].assigned
      <3>1. store'[z] = store[z]
        BY <1>5, <2>1, <2>4
      <3> QED
        BY <2>1, <2>4, <3>1 DEF DeskInvariant, AssigneesFollow
    <2> QED
      BY <1>2, <2>1, <2>3, <2>4 DEF DeskInvariant, AssigneesFollow
  <1>8. CopiesAreEarly'
    <2>1. \A l \in EscalationLevels, z \in Servers : z # s /\ z \in early[l] => z \in early'[l]
      BY <1>2
    <2>2. ASSUME NEW m \in EscalationLevels, NEW o \in Callers, act'[o].at = "upsert_escalation", act'[o].level = m
          PROVE  /\ store'[ServerOfCaller[o]].escalations[m] # "absent"
                 /\ db.escalations[m] = "RESOLVED" /\ act'[o].status # "RESOLVED" => ServerOfCaller[o] \in early'[m]
      <3>1. ServerOfCaller[o] # s /\ act'[o] = act[o] /\ ServerOfCaller[o] \in Servers
        BY <1>3, <1>4, <2>2, DeskAssumption
      <3> QED
        BY <1>5, <2>1, <2>2, <3>1 DEF DeskInvariant, CopiesAreEarly, Desk!At
    <2>3. ASSUME NEW m \in EscalationLevels, db.escalations[m] = "RESOLVED", NEW z \in Servers,
                 store'[z].escalations[m] \notin {"absent", "RESOLVED"}
          PROVE  z \in early'[m]
      <3>1. z # s
        BY <1>3, <1>5, <2>3
      <3> QED
        BY <1>5, <2>1, <2>3, <3>1 DEF DeskInvariant, CopiesAreEarly
    <2> QED
      BY <1>2, <2>2, <2>3 DEF CopiesAreEarly, Desk!At
  <1> QED
    BY <1>6, <1>7, <1>8 DEF DeskInvariant

LEMMA DeskStep ==
  ASSUME DeskInvariant, [Desk!Next]_(Desk!vars) PROVE DeskInvariant'
  <1>1. CASE UNCHANGED <<db, store, act, early, claimers, crossed>>
    BY <1>1 DEF DeskInvariant, DeskTyped, AssigneesFollow, CopiesAreEarly, Assigning, Desk!At
  <1>2. CASE UNCHANGED Desk!vars
    BY <1>1, <1>2 DEF Desk!vars
  <1>3. ASSUME NEW l \in EscalationLevels, Desk!FallDue(l) PROVE DeskInvariant'
    BY <1>1, <1>3 DEF Desk!FallDue
  <1>4. ASSUME NEW t \in Callers, NEW u \in Users, Desk!Claim(t, u) PROVE DeskInvariant'
    BY <1>4, DeskAssigns DEF Desk!Claim
  <1>5. ASSUME NEW t \in Callers, NEW u \in Users, NEW manager \in BOOLEAN, Desk!Unclaim(t, u, manager)
        PROVE  DeskInvariant'
    BY <1>5, DeskAssigns DEF Desk!Unclaim
  <1> QED
    BY <1>2, <1>3, <1>4, <1>5, DeskOpensFile, DeskLists, DeskNotifies, DeskWritesAssignee, DeskDecides,
       DeskUpserts, DeskRestarts DEF Desk!Next

LEMMA DeskSafety == ASSUME DeskInvariant PROVE Desk!AssigneeIsKept
  BY DEF DeskInvariant, AssigneesFollow, Assigning, Desk!AssigneeIsKept

\* Only the write of an escalation changes one in the table, and its status is the copy's.
LEMMA DeskReopens ==
  ASSUME DeskInvariant, [Desk!Next]_(Desk!vars) PROVE Desk!OpenedFromCopy
  <1> SUFFICES ASSUME NEW t \in Callers, NEW l \in EscalationLevels, act'[t] # act[t],
                      db.escalations[l] = "RESOLVED", db'.escalations[l] # "RESOLVED"
               PROVE  ServerOfCaller[t] \in early[l]
    BY DEF Desk!OpenedFromCopy
  <1>1. db' # db /\ db'.escalations # db.escalations
    OBVIOUS
  <1>2. ASSUME NEW o \in Callers PROVE ~Desk!WriteAssignee(o)
    <2>1. Desk!WriteAssignee(o) => db'.escalations = db.escalations
      BY DEF Desk!WriteAssignee, Desk!AssignCase, DeskInvariant, DeskTyped, DeskRow
    <2> QED
      BY <1>1, <2>1
  <1>3. PICK o \in Callers : Desk!UpsertEscalation(o)
    BY <1>1, <1>2 DEF Desk!Next, Desk!vars, Desk!ReadCase, Desk!Claim, Desk!Unclaim, Desk!Assign,
       Desk!ListEscalations, Desk!Notify, Desk!Decide, Desk!FallDue, Desk!Restart
  <1>4. o = t
    BY <1>3 DEF Desk!UpsertEscalation, Desk!Go, DeskInvariant, DeskTyped
  <1>5. act[t].level = l /\ act[t].status # "RESOLVED"
    BY <1>3, <1>4 DEF Desk!UpsertEscalation, DeskInvariant, DeskTyped, DeskRow
  <1> QED
    BY <1>3, <1>4, <1>5 DEF Desk!UpsertEscalation, DeskInvariant, CopiesAreEarly

-----------------------------------------------------------------------------
(* CircuitBreaker: its types, and at most one probe.                       *)

BreakerInvariant ==
  /\ Breaker!TypeOK
  /\ probe => state = "HALF_OPEN"
  /\ state = "OPEN" \/ (state = "HALF_OPEN" /\ ~probe) => Breaker!InFlight \subseteq stale
  /\ state = "CLOSED" => Breaker!Probing \subseteq stale
  /\ probe => \E p \in Breaker!Probing : Breaker!InFlight \subseteq stale \cup {p}

LEMMA BreakerCardinality == \A set : Breaker!Cardinality(set) = Cardinality(set)
  BY Zenon DEF Breaker!Cardinality, Cardinality

LEMMA BreakerInitially == ASSUME Breaker!Init PROVE BreakerInvariant
  <1>1. Breaker!InFlight = {} /\ Breaker!Probing = {}
    BY DEF Breaker!Init, Breaker!InFlight, Breaker!Probing
  <1>2. Breaker!TypeOK
    <2>1. state = "CLOSED" /\ failures = 0 /\ openedAt = 0 /\ clock = 0 /\ stale = {}
      BY DEF Breaker!Init
    <2>2. probe \in BOOLEAN
      BY Zenon DEF Breaker!Init
    <2>3. call \in [Callers -> {"idle", "call", "probe"}]
      BY DEF Breaker!Init
    <2> QED
      BY <2>1, <2>2, <2>3, BreakerAssumption DEF Breaker!TypeOK
  <1> QED
    BY <1>1, <1>2 DEF Breaker!Init, BreakerInvariant

LEMMA BreakerStep ==
  ASSUME BreakerInvariant, [Breaker!Next]_(Breaker!vars)
  PROVE  BreakerInvariant'
  <1> USE BreakerAssumption DEF BreakerInvariant, Breaker!TypeOK, Breaker!InFlight, Breaker!Probing
  <1>1. CASE Breaker!ReadState
    BY <1>1 DEF Breaker!ReadState, Breaker!Recovers
  <1>2. CASE Breaker!Tick
    BY <1>2 DEF Breaker!Tick, Breaker!breaker
  <1>3. ASSUME NEW t \in Callers, Breaker!Admit(t) PROVE BreakerInvariant'
    <2>1. Breaker!Refreshed \in {"CLOSED", "HALF_OPEN"}
      BY <1>3 DEF Breaker!Admit, Breaker!Refreshed
    <2>2. CASE Breaker!Refreshed = "CLOSED"
      <3>1. state = "CLOSED" /\ state' = "CLOSED" /\ ~probe'
        BY <1>3, <2>2 DEF Breaker!Admit, Breaker!Refreshed
      <3> QED
        BY <1>3, <2>2, <3>1 DEF Breaker!Admit
    <2>3. CASE Breaker!Refreshed = "HALF_OPEN"
      <3>1. Breaker!InFlight \subseteq stale
        BY <1>3, <2>3 DEF Breaker!Admit, Breaker!Refreshed, Breaker!ProbeNow, Breaker!Recovers
      <3>2. /\ state' = "HALF_OPEN" /\ probe' /\ call' = [call EXCEPT ![t] = "probe"]
            /\ UNCHANGED <<failures, openedAt, clock, stale>>
        BY <1>3, <2>3 DEF Breaker!Admit
      <3> QED
        BY <3>1, <3>2
    <2> QED
      BY <2>1, <2>2, <2>3
  <1>4. ASSUME NEW t \in Callers, Breaker!Success(t) PROVE BreakerInvariant'
    <2>1. /\ failures' \in 0..FailureThreshold /\ openedAt' \in 0..BreakerTime /\ clock' = clock
          /\ state' = "CLOSED" /\ probe' = FALSE
      BY <1>4 DEF Breaker!Success
    <2>2. call[t] # "idle" /\ call' = [call EXCEPT ![t] = "idle"]
      BY <1>4 DEF Breaker!Success
    <2>3. CASE state = "CLOSED"
      <3>1. stale' = stale \ {t}
        BY <1>4, <2>3 DEF Breaker!Success
      <3> QED
        BY <2>1, <2>2, <2>3, <3>1
    <2>4. CASE state # "CLOSED"
      <3>1. stale' = Breaker!InFlight \ {t}
        BY <1>4, <2>4 DEF Breaker!Success
      <3> QED
        BY <2>1, <2>2, <3>1
    <2> QED
      BY <2>3, <2>4
  <1>5. ASSUME NEW t \in Callers, Breaker!Failure(t) PROVE BreakerInvariant'
    <2>1. failures' \in 0..FailureThreshold /\ openedAt' \in 0..BreakerTime /\ clock' = clock
      BY <1>5 DEF Breaker!Failure
    <2>2. call[t] # "idle" /\ call' = [call EXCEPT ![t] = "idle"] /\ probe' = FALSE
      BY <1>5 DEF Breaker!Failure
    <2>3. CASE Breaker!Opens
      <3>1. state' = "OPEN" /\ stale' = Breaker!InFlight \ {t}
        BY <1>5, <2>3 DEF Breaker!Failure
      <3> QED
        BY <2>1, <2>2, <3>1
    <2>4. CASE ~Breaker!Opens
      <3>1. state' = state /\ state # "HALF_OPEN" /\ stale' = stale \ {t}
        BY <1>5, <2>4 DEF Breaker!Failure, Breaker!Opens
      <3> QED
        BY <2>1, <2>2, <3>1
    <2> QED
      BY <2>3, <2>4
  <1>6. CASE UNCHANGED Breaker!vars
    BY <1>6 DEF Breaker!vars
  <1> QED
    BY <1>1, <1>2, <1>3, <1>4, <1>5, <1>6 DEF Breaker!Next

LEMMA BreakerSafety == ASSUME BreakerInvariant PROVE Breaker!OneProbe
  <1>1. probe => Breaker!Probing # {}
    BY DEF BreakerInvariant
  <1>2. ASSUME stale = {} PROVE Breaker!Cardinality(Breaker!Probing) <= 1
    <2>1. \E p : Breaker!Probing \subseteq {p}
      BY <1>2 DEF BreakerInvariant, Breaker!TypeOK, Breaker!InFlight, Breaker!Probing
    <2>2. PICK p : Breaker!Probing \subseteq {p}
      BY <2>1
    <2>3. IsFiniteSet({p}) /\ Cardinality({p}) = 1
      BY FS_Singleton
    <2>4. Cardinality(Breaker!Probing) <= 1
      BY <2>2, <2>3, FS_Subset
    <2> QED
      BY <2>4, BreakerCardinality
  <1> QED
    BY <1>1, <1>2, Zenon DEF BreakerInvariant, Breaker!OneProbe

-----------------------------------------------------------------------------
(* IdempotencyBarrier: a key has one owner or its outcome, and its runs are*)
(* within one budget.                                                      *)

BarrierOutcome == {"result", "fatal", "exhausted"}
BarrierEntry == [fingerprint : Fingerprints \cup {NoValue}, done : BOOLEAN,
                 outcome : BarrierOutcome \cup {"unknown"}]
BarrierCaller == [at : {"idle", "run", "wait", "publish"}, key : CallKeys \cup {Barrier!Idle.key},
                  attempt : Nat, outcome : BarrierOutcome \cup {"unknown"}]

BarrierTyped ==
  /\ entries \in [CallKeys -> BarrierEntry]
  /\ caller \in [Callers -> BarrierCaller]
  /\ \A t \in Callers : caller[t].at # "idle" => caller[t].key \in CallKeys
  /\ runs \in [CallKeys -> Nat]
  /\ returned \in [CallKeys -> SUBSET BarrierOutcome]

Owns(t, k) == caller[t].key = k /\ caller[t].at \in {"run", "publish"}
Waits(t, k) == caller[t].key = k /\ caller[t].at = "wait"

\* Nobody has asked for the key.
KeyIsNew(k) ==
  /\ entries[k].fingerprint = NoValue /\ ~entries[k].done
  /\ runs[k] = 0 /\ returned[k] = {}
  /\ \A t \in Callers : ~Owns(t, k) /\ ~Waits(t, k)

\* Its only owner is at work.
OwnerAtWork(t, k) ==
  /\ Owns(t, k)
  /\ \A u \in Callers : Owns(u, k) => u = t
  /\ caller[t].at = "run" => runs[k] = caller[t].attempt /\ caller[t].attempt < MaxTries
  /\ caller[t].at = "publish" => caller[t].outcome \in BarrierOutcome
KeyIsOwned(k) ==
  /\ entries[k].fingerprint # NoValue /\ ~entries[k].done
  /\ runs[k] <= MaxTries /\ returned[k] = {}
  /\ \E t \in Callers : OwnerAtWork(t, k)

\* It has its answer.
KeyIsDone(k) ==
  /\ entries[k].fingerprint # NoValue /\ entries[k].done /\ entries[k].outcome \in BarrierOutcome
  /\ runs[k] <= MaxTries /\ returned[k] \subseteq {entries[k].outcome}
  /\ \A t \in Callers : ~Owns(t, k)

KeyHolds(k) == KeyIsNew(k) \/ KeyIsOwned(k) \/ KeyIsDone(k)
BarrierInvariant == BarrierTyped /\ \A k \in CallKeys : KeyHolds(k)

LEMMA BarrierCardinality == \A set : Barrier!Cardinality(set) = Cardinality(set)
  BY Zenon DEF Barrier!Cardinality, Cardinality

LEMMA BarrierInitially == ASSUME Barrier!Init PROVE BarrierInvariant
  <1> USE DEF Barrier!Init, Barrier!Idle, Barrier!Unknown
  <1>1. BarrierTyped
    BY DEF BarrierTyped, BarrierEntry, BarrierCaller
  <1>2. \A k \in CallKeys : KeyIsNew(k)
    BY DEF KeyIsNew, Owns, Waits
  <1> QED
    BY <1>1, <1>2 DEF BarrierInvariant, KeyHolds

\* A thread that neither owns a key nor comes to own it, nor to wait for a new one,
\* leaves the key as it is.
LEMMA OtherKey ==
  ASSUME NEW t \in Callers, NEW k \in CallKeys, KeyHolds(k),
         entries'[k] = entries[k], runs'[k] = runs[k], returned'[k] = returned[k],
         \A u \in Callers \ {t} : caller'[u] = caller[u],
         ~Owns(t, k), ~Owns(t, k)', Waits(t, k)' => ~KeyIsNew(k)
  PROVE  KeyHolds(k)'
  <1>1. CASE KeyIsNew(k)
    BY <1>1 DEF KeyHolds, KeyIsNew, Owns, Waits
  <1>2. CASE KeyIsDone(k)
    <2>1. \A u \in Callers : ~Owns(u, k)'
      BY <1>2 DEF KeyIsDone, Owns
    <2> QED
      BY <1>2, <2>1 DEF KeyHolds, KeyIsDone
  <1>3. CASE KeyIsOwned(k)
    <2>1. PICK o \in Callers : OwnerAtWork(o, k)
      BY <1>3 DEF KeyIsOwned
    <2>2. o # t /\ caller'[o] = caller[o]
      BY <2>1 DEF OwnerAtWork
    <2>3. OwnerAtWork(o, k)'
      BY <2>1, <2>2 DEF OwnerAtWork, Owns
    <2> QED
      BY <1>3, <2>3 DEF KeyHolds, KeyIsOwned
  <1> QED
    BY <1>1, <1>2, <1>3 DEF KeyHolds

LEMMA OwnersKey ==
  ASSUME BarrierInvariant, NEW t \in Callers, caller[t].at \in {"run", "publish"}
  PROVE  caller[t].key \in CallKeys /\ KeyIsOwned(caller[t].key) /\ OwnerAtWork(t, caller[t].key)
  <1>1. caller[t].key \in CallKeys
    BY DEF BarrierInvariant, BarrierTyped
  <1>2. Owns(t, caller[t].key) /\ KeyHolds(caller[t].key)
    BY <1>1 DEF BarrierInvariant, Owns
  <1>3. KeyIsOwned(caller[t].key)
    BY <1>2 DEF KeyHolds, KeyIsNew, KeyIsDone
  <1>4. PICK o \in Callers : OwnerAtWork(o, caller[t].key)
    BY <1>3 DEF KeyIsOwned
  <1>5. o = t
    BY <1>2, <1>4 DEF OwnerAtWork
  <1> QED
    BY <1>1, <1>3, <1>4, <1>5

Fresh(a, k) == [Barrier!Idle EXCEPT !.at = a, !.key = k]

LEMMA FreshCaller ==
  ASSUME NEW a \in {"run", "wait"}, NEW k \in CallKeys
  PROVE  /\ Fresh(a, k) \in BarrierCaller
         /\ Fresh(a, k).at = a /\ Fresh(a, k).key = k /\ Fresh(a, k).attempt = 0
  <1>1. Barrier!Idle \in BarrierCaller /\ Barrier!Idle.attempt = 0
    BY DEF Barrier!Idle, Barrier!Unknown, BarrierCaller
  <1> QED
    BY <1>1 DEF BarrierCaller, Fresh

LEMMA ExecuteKeepsBarrier ==
  ASSUME BarrierInvariant, NEW t \in Callers, NEW k \in CallKeys,
         NEW fp \in Fingerprints, Barrier!Execute(t, k, fp)
  PROVE  BarrierInvariant'
  <1> USE DEF BarrierInvariant
  <1>1. caller[t].at = "idle" /\ UNCHANGED <<runs, returned>>
    BY DEF Barrier!Execute
  <1>2. Barrier!Idle.key \in CallKeys
    BY DEF Barrier!Idle
  <1>3. CASE ~Barrier!Joins(k)
    <2>1. /\ entries' = [entries EXCEPT ![k] = [fingerprint |-> fp, done |-> FALSE, outcome |-> "unknown"]]
          /\ caller' = [caller EXCEPT ![t] = Fresh("run", k)]
      BY <1>3 DEF Barrier!Execute, Barrier!Go, Barrier!Unknown, Fresh
    <2> DEFINE c == Fresh("run", k)
    <2>2. c \in BarrierCaller /\ c.at = "run" /\ c.key = k /\ c.attempt = 0
      BY FreshCaller, Zenon
    <2> HIDE DEF c
    <2>3. caller' = [caller EXCEPT ![t] = c] /\ caller'[t] = c /\ \A u \in Callers \ {t} : caller'[u] = caller[u]
      BY <2>1 DEF BarrierTyped, c
    <2>4. BarrierTyped'
      <3>1. caller' \in [Callers -> BarrierCaller]
        BY <2>2, <2>3 DEF BarrierTyped
      <3>2. \A u \in Callers : caller'[u].at # "idle" => caller'[u].key \in CallKeys
        BY <2>2, <2>3 DEF BarrierTyped
      <3>3. entries' \in [CallKeys -> BarrierEntry]
        BY <2>1 DEF BarrierTyped, BarrierEntry
      <3> QED
        BY <1>1, <3>1, <3>2, <3>3 DEF BarrierTyped
    <2>5. KeyIsNew(k)
      BY <1>3 DEF Barrier!Joins, KeyHolds, KeyIsOwned, KeyIsDone
    <2>6. OwnerAtWork(t, k)'
      <3>1. Owns(t, k)' /\ caller'[t].at = "run" /\ caller'[t].attempt = 0
        BY <2>2, <2>3 DEF Owns
      <3>2. ASSUME NEW u \in Callers, u # t PROVE ~Owns(u, k)'
        BY <2>3, <2>5, <3>2 DEF Owns, KeyIsNew, BarrierTyped
      <3>3. runs'[k] = 0 /\ 0 < MaxTries
        BY <1>1, <2>5, BarrierAssumption DEF KeyIsNew
      <3> QED
        BY <3>1, <3>2, <3>3 DEF OwnerAtWork
    <2>7. KeyIsOwned(k)'
      BY <1>1, <2>1, <2>5, <2>6, BarrierAssumption DEF KeyIsOwned, KeyIsNew, BarrierTyped
    <2>8. ASSUME NEW j \in CallKeys, j # k PROVE KeyHolds(j)'
      BY <1>1, <2>1, <2>2, <2>3, <2>8, OtherKey DEF Owns, Waits, BarrierTyped
    <2> QED
      BY <2>4, <2>7, <2>8 DEF KeyHolds
  <1>4. CASE Barrier!Joins(k) /\ entries[k].fingerprint = fp
    <2>1. caller' = [caller EXCEPT ![t] = Fresh("wait", k)] /\ UNCHANGED entries
      BY <1>4 DEF Barrier!Execute, Barrier!Go, Fresh
    <2> DEFINE c == Fresh("wait", k)
    <2>2. c \in BarrierCaller /\ c.at = "wait" /\ c.key = k /\ c.attempt = 0
      BY FreshCaller, Zenon
    <2> HIDE DEF c
    <2>3. caller' = [caller EXCEPT ![t] = c] /\ caller'[t] = c /\ \A u \in Callers \ {t} : caller'[u] = caller[u]
      BY <2>1 DEF BarrierTyped, c
    <2>4. BarrierTyped'
      <3>1. caller' \in [Callers -> BarrierCaller]
        BY <2>2, <2>3 DEF BarrierTyped
      <3>2. \A u \in Callers : caller'[u].at # "idle" => caller'[u].key \in CallKeys
        BY <2>2, <2>3 DEF BarrierTyped
      <3>3. entries' \in [CallKeys -> BarrierEntry]
        BY <2>1 DEF BarrierTyped, BarrierEntry
      <3> QED
        BY <1>1, <3>1, <3>2, <3>3 DEF BarrierTyped
    <2>5. ~KeyIsNew(k)
      BY <1>4 DEF Barrier!Joins, KeyIsNew
    <2>6. ASSUME NEW j \in CallKeys PROVE KeyHolds(j)'
      BY <1>1, <2>1, <2>2, <2>3, <2>5, OtherKey DEF Owns, Waits, BarrierTyped
    <2> QED
      BY <2>4, <2>6
  <1>5. CASE Barrier!Joins(k) /\ entries[k].fingerprint # fp
    <2>1. UNCHANGED <<caller, entries>>
      BY <1>5 DEF Barrier!Execute
    <2> QED
      BY <1>1, <2>1 DEF BarrierTyped, KeyHolds, KeyIsNew, KeyIsOwned, KeyIsDone, OwnerAtWork, Owns, Waits
  <1> QED
    BY <1>3, <1>4, <1>5

LEMMA AttemptKeepsBarrier ==
  ASSUME BarrierInvariant, NEW t \in Callers,
         NEW outcome \in {"result", "retryable", "fatal"}, Barrier!Attempt(t, outcome)
  PROVE  BarrierInvariant'
  <1> USE DEF BarrierInvariant
  <1>0. PICK k : k = caller[t].key
    OBVIOUS
  <1>1. caller[t].at = "run" /\ runs' = [runs EXCEPT ![k] = @ + 1] /\ UNCHANGED <<entries, returned>>
    BY <1>0 DEF Barrier!Attempt
  <1>2. k \in CallKeys /\ KeyIsOwned(k) /\ OwnerAtWork(t, k)
    BY <1>0, <1>1, OwnersKey
  <1>3. runs[k] = caller[t].attempt /\ caller[t].attempt < MaxTries /\ caller[t].attempt \in Nat
    BY <1>1, <1>2 DEF OwnerAtWork, BarrierTyped, BarrierCaller
  <1>4. \E c : /\ caller' = [caller EXCEPT ![t] = c]
               /\ c \in BarrierCaller /\ c.key = k
               /\ \/ c.at = "run" /\ c.attempt = caller[t].attempt + 1 /\ c.attempt < MaxTries
                  \/ c.at = "publish" /\ c.outcome \in BarrierOutcome
    <2> DEFINE on == [caller[t] EXCEPT !.attempt = caller[t].attempt + 1]
               over(o) == [caller[t] EXCEPT !.at = "publish", !.outcome = o]
    <2>1. caller[t] \in BarrierCaller
      BY DEF BarrierTyped
    <2>2. on \in BarrierCaller /\ on.key = k /\ on.at = "run" /\ on.attempt = caller[t].attempt + 1
      BY <1>0, <1>1, <1>3, <2>1 DEF BarrierCaller
    <2>3. ASSUME NEW o \in BarrierOutcome
          PROVE  over(o) \in BarrierCaller /\ over(o).key = k /\ over(o).at = "publish" /\ over(o).outcome = o
      BY <1>0, <2>1 DEF BarrierCaller
    <2> HIDE DEF on, over
    <2>4. \/ caller' = [caller EXCEPT ![t] = on] /\ caller[t].attempt + 1 < MaxTries
          \/ \E o \in BarrierOutcome : caller' = [caller EXCEPT ![t] = over(o)]
      BY DEF Barrier!Attempt, Barrier!Go, Barrier!Result, Barrier!Retryable, Barrier!Fatal,
             Barrier!Exhausted, BarrierOutcome, on, over
    <2> QED
      BY <2>2, <2>3, <2>4
  <1>5. PICK c : /\ caller' = [caller EXCEPT ![t] = c]
                 /\ c \in BarrierCaller /\ c.key = k
                 /\ \/ c.at = "run" /\ c.attempt = caller[t].attempt + 1 /\ c.attempt < MaxTries
                    \/ c.at = "publish" /\ c.outcome \in BarrierOutcome
    BY <1>4
  <1>6. caller'[t] = c /\ \A u \in Callers \ {t} : caller'[u] = caller[u]
    BY <1>5 DEF BarrierTyped
  <1>7. BarrierTyped'
    BY <1>1, <1>2, <1>5 DEF BarrierTyped
  <1>8. runs'[k] = caller[t].attempt + 1 /\ runs'[k] <= MaxTries
    BY <1>1, <1>2, <1>3, BarrierAssumption DEF BarrierTyped
  <1>9. OwnerAtWork(t, k)'
    BY <1>2, <1>5, <1>6, <1>8 DEF OwnerAtWork, Owns
  <1>10. KeyIsOwned(k)'
    BY <1>1, <1>2, <1>8, <1>9 DEF KeyIsOwned
  <1>11. ASSUME NEW j \in CallKeys, j # k PROVE KeyHolds(j)'
    <2>1. ~Owns(t, j) /\ ~Owns(t, j)' /\ ~Waits(t, j)'
      BY <1>0, <1>5, <1>6, <1>11 DEF Owns, Waits
    <2>2. runs'[j] = runs[j] /\ entries'[j] = entries[j] /\ returned'[j] = returned[j]
      BY <1>1, <1>11 DEF BarrierTyped
    <2> QED
      BY <1>6, <2>1, <2>2, OtherKey
  <1> QED
    BY <1>7, <1>10, <1>11 DEF KeyHolds

LEMMA PublishKeepsBarrier ==
  ASSUME BarrierInvariant, NEW t \in Callers, Barrier!Publish(t)
  PROVE  BarrierInvariant'
  <1> USE DEF BarrierInvariant
  <1>0. PICK k, o : k = caller[t].key /\ o = caller[t].outcome
    OBVIOUS
  <1>1. /\ caller[t].at = "publish"
        /\ entries' = [entries EXCEPT ![k].done = TRUE, ![k].outcome = o]
        /\ returned' = [returned EXCEPT ![k] = @ \cup {o}]
        /\ caller' = [caller EXCEPT ![t] = Barrier!Idle]
        /\ UNCHANGED runs
    BY <1>0 DEF Barrier!Publish, Barrier!Go
  <1>2. k \in CallKeys /\ KeyIsOwned(k) /\ OwnerAtWork(t, k)
    BY <1>0, <1>1, OwnersKey
  <1>3. o \in BarrierOutcome
    BY <1>0, <1>1, <1>2 DEF OwnerAtWork
  <1>4. Barrier!Idle \in BarrierCaller /\ Barrier!Idle.at = "idle"
    BY DEF Barrier!Idle, Barrier!Unknown, BarrierCaller
  <1>5. /\ caller'[t] = Barrier!Idle /\ \A u \in Callers \ {t} : caller'[u] = caller[u]
        /\ entries'[k] = [entries[k] EXCEPT !.done = TRUE, !.outcome = o]
        /\ returned'[k] = {o}
    BY <1>1, <1>2 DEF BarrierTyped, KeyIsOwned
  <1>6. entries'[k].fingerprint # NoValue /\ entries'[k].done /\ entries'[k].outcome = o
    BY <1>2, <1>5 DEF BarrierTyped, BarrierEntry, KeyIsOwned
  <1>7. BarrierTyped'
    BY <1>1, <1>2, <1>3, <1>4 DEF BarrierTyped, BarrierEntry
  <1>8. \A u \in Callers : ~Owns(u, k)'
    BY <1>2, <1>4, <1>5 DEF OwnerAtWork, Owns
  <1>9. KeyIsDone(k)'
    BY <1>1, <1>2, <1>3, <1>5, <1>6, <1>8 DEF KeyIsDone, KeyIsOwned
  <1>10. ASSUME NEW j \in CallKeys, j # k PROVE KeyHolds(j)'
    <2>1. ~Owns(t, j) /\ ~Owns(t, j)' /\ ~Waits(t, j)'
      BY <1>0, <1>4, <1>5, <1>10 DEF Owns, Waits
    <2>2. runs'[j] = runs[j] /\ entries'[j] = entries[j] /\ returned'[j] = returned[j]
      BY <1>1, <1>10 DEF BarrierTyped
    <2> QED
      BY <1>5, <2>1, <2>2, OtherKey
  <1> QED
    BY <1>7, <1>9, <1>10 DEF KeyHolds

LEMMA AnswerKeepsBarrier ==
  ASSUME BarrierInvariant, NEW t \in Callers, Barrier!Answer(t)
  PROVE  BarrierInvariant'
  <1> USE DEF BarrierInvariant
  <1>0. PICK k : k = caller[t].key
    OBVIOUS
  <1>1. /\ caller[t].at = "wait" /\ entries[k].done
        /\ returned' = [returned EXCEPT ![k] = @ \cup {entries[k].outcome}]
        /\ caller' = [caller EXCEPT ![t] = Barrier!Idle]
        /\ UNCHANGED <<entries, runs>>
    BY <1>0 DEF Barrier!Answer, Barrier!Go
  <1>2. k \in CallKeys
    BY <1>0, <1>1 DEF BarrierTyped
  <1>3. KeyIsDone(k)
    BY <1>1, <1>2 DEF KeyHolds, KeyIsNew, KeyIsOwned
  <1>4. Barrier!Idle \in BarrierCaller /\ Barrier!Idle.at = "idle"
    BY DEF Barrier!Idle, Barrier!Unknown, BarrierCaller
  <1>5. caller'[t] = Barrier!Idle /\ \A u \in Callers \ {t} : caller'[u] = caller[u]
    BY <1>1 DEF BarrierTyped
  <1>6. BarrierTyped'
    BY <1>1, <1>2, <1>3, <1>4 DEF BarrierTyped, KeyIsDone
  <1>7. returned'[k] \subseteq {entries[k].outcome}
    BY <1>1, <1>2, <1>3 DEF BarrierTyped, KeyIsDone
  <1>8. \A j \in CallKeys : ~Owns(t, j) /\ ~Owns(t, j)' /\ ~Waits(t, j)'
    BY <1>1, <1>4, <1>5 DEF Owns, Waits
  <1>9. KeyIsDone(k)'
    BY <1>1, <1>2, <1>3, <1>5, <1>7, <1>8 DEF KeyIsDone, Owns
  <1>10. ASSUME NEW j \in CallKeys, j # k PROVE KeyHolds(j)'
    <2>1. runs'[j] = runs[j] /\ entries'[j] = entries[j] /\ returned'[j] = returned[j]
      BY <1>1, <1>10 DEF BarrierTyped
    <2> QED
      BY <1>5, <1>8, <2>1, OtherKey
  <1> QED
    BY <1>6, <1>9, <1>10 DEF KeyHolds

LEMMA BarrierStep ==
  ASSUME BarrierInvariant, [Barrier!Next]_(Barrier!vars)
  PROVE  BarrierInvariant'
  <1>1. CASE UNCHANGED Barrier!vars
    BY <1>1 DEF Barrier!vars, BarrierInvariant, BarrierTyped, KeyHolds, KeyIsNew, KeyIsOwned,
                KeyIsDone, OwnerAtWork, Owns, Waits
  <1>2. CASE Barrier!Next
    BY <1>2, ExecuteKeepsBarrier, AttemptKeepsBarrier, PublishKeepsBarrier, AnswerKeepsBarrier
    DEF Barrier!Next, Barrier!Result, Barrier!Retryable, Barrier!Fatal
  <1> QED
    BY <1>1, <1>2

LEMMA BarrierSafety == ASSUME BarrierInvariant PROVE Barrier!OneExecution
  <1> SUFFICES ASSUME NEW k \in CallKeys
               PROVE  /\ runs[k] <= MaxTries
                      /\ Barrier!Cardinality(returned[k]) <= 1
                      /\ returned[k] \subseteq Barrier!Outcomes
                      /\ (\E t \in Callers : caller[t].at = "wait" /\ caller[t].key = k) =>
                           \/ entries[k].done
                           \/ \E o \in Callers : caller[o].key = k /\ caller[o].at \in {"run", "publish"}
    BY Zenon DEF Barrier!OneExecution
  <1>1. KeyHolds(k) /\ returned[k] \subseteq BarrierOutcome
    BY DEF BarrierInvariant, BarrierTyped
  <1>2. runs[k] <= MaxTries
    BY <1>1, BarrierAssumption DEF KeyHolds, KeyIsNew, KeyIsOwned, KeyIsDone
  <1>3. \E o : returned[k] \subseteq {o}
    BY <1>1 DEF KeyHolds, KeyIsNew, KeyIsOwned, KeyIsDone
  <1>4. Barrier!Cardinality(returned[k]) <= 1
    <2>1. PICK o : returned[k] \subseteq {o}
      BY <1>3
    <2>2. IsFiniteSet({o}) /\ Cardinality({o}) = 1
      BY FS_Singleton
    <2>3. Cardinality(returned[k]) <= 1
      BY <2>1, <2>2, FS_Subset
    <2> QED
      BY <2>3, BarrierCardinality
  <1>5. returned[k] \subseteq Barrier!Outcomes
    BY <1>1 DEF BarrierOutcome, Barrier!Outcomes, Barrier!Result, Barrier!Fatal, Barrier!Exhausted
  <1>6. ASSUME NEW t \in Callers, caller[t].at = "wait", caller[t].key = k
        PROVE  \/ entries[k].done
               \/ \E o \in Callers : caller[o].key = k /\ caller[o].at \in {"run", "publish"}
    <2>1. KeyIsOwned(k) \/ KeyIsDone(k)
      BY <1>1, <1>6 DEF KeyHolds, KeyIsNew, Waits
    <2> QED
      BY <2>1 DEF KeyIsOwned, KeyIsDone, OwnerAtWork, Owns
  <1> QED
    BY <1>2, <1>4, <1>5, <1>6

-----------------------------------------------------------------------------
(* ConcurrencyGate: the permits left and the threads which hold one are    *)
(* the limit together.                                                     *)
GateThreads == {t \in GateCallers : at[t] # "out"}
Inside == {t \in GateCallers : at[t] = "in"}

GateInvariant ==
  /\ at \in [GateCallers -> {"out", "acquired", "in", "leaving"}]
  /\ permits \in Nat /\ active \in Nat /\ peak \in Nat
  /\ IsFiniteSet(GateThreads)
  /\ permits + Cardinality(GateThreads) = GateLimit
  /\ active = Cardinality(Inside)
  /\ active <= peak /\ peak <= GateLimit

LEMMA GateInitially == ASSUME Gate!Init PROVE GateInvariant
  <1>1. GateThreads = {} /\ Inside = {}
    BY DEF Gate!Init, GateThreads, Inside
  <1> QED
    BY <1>1, FS_EmptySet, GateAssumption DEF GateInvariant, Gate!Init

LEMMA GateStep == ASSUME GateInvariant, [Gate!Next]_(Gate!vars) PROVE GateInvariant'
  <1> USE GateAssumption DEF GateInvariant
  <1>1. IsFiniteSet(Inside)
    BY FS_Subset DEF Inside, GateThreads
  <1>2. Cardinality(GateThreads) \in Nat /\ Cardinality(Inside) \in Nat
    BY <1>1, FS_CardinalityType
  <1>3. ASSUME NEW t \in GateCallers, Gate!Acquire(t) PROVE GateInvariant'
    <2>1. t \notin GateThreads /\ GateThreads' = GateThreads \cup {t} /\ Inside' = Inside
      BY <1>3 DEF Gate!Acquire, Gate!Move, GateThreads, Inside
    <2>2. IsFiniteSet(GateThreads') /\ Cardinality(GateThreads') = Cardinality(GateThreads) + 1
      BY <2>1, FS_AddElement
    <2> QED
      BY <1>2, <1>3, <2>1, <2>2 DEF Gate!Acquire, Gate!Move
  <1>4. ASSUME NEW t \in GateCallers, Gate!Enter(t) PROVE GateInvariant'
    <2>1. /\ t \notin Inside /\ Inside' = Inside \cup {t}
          /\ GateThreads' = GateThreads /\ Inside' \subseteq GateThreads
      BY <1>4 DEF Gate!Enter, Gate!Move, GateThreads, Inside
    <2>2. Cardinality(Inside') = Cardinality(Inside) + 1
      BY <1>1, <2>1, FS_AddElement
    <2>3. Cardinality(Inside') <= Cardinality(GateThreads)
      BY <2>1, FS_Subset
    <2> QED
      BY <1>2, <1>4, <2>1, <2>2, <2>3 DEF Gate!Enter, Gate!Move
  <1>5. ASSUME NEW t \in GateCallers, Gate!Release(t) PROVE GateInvariant'
    <2>1. CASE Gate!Move(t, "in", "leaving") /\ Gate!FirstOfRelease
      <3>1. t \in Inside /\ Inside' = Inside \ {t} /\ GateThreads' = GateThreads
        BY <2>1 DEF Gate!Move, GateThreads, Inside
      <3>2. Cardinality(Inside') = Cardinality(Inside) - 1 /\ Cardinality(Inside') \in Nat
        BY <1>1, <3>1, FS_RemoveElement, FS_CardinalityType
      <3> QED
        BY <1>2, <1>5, <2>1, <3>1, <3>2 DEF Gate!Release, Gate!Move, Gate!FirstOfRelease
    <2>2. CASE Gate!Move(t, "leaving", "out") /\ Gate!LastOfRelease
      <3>1. t \in GateThreads /\ GateThreads' = GateThreads \ {t} /\ Inside' = Inside
        BY <2>2 DEF Gate!Move, GateThreads, Inside
      <3>2. /\ Cardinality(GateThreads') = Cardinality(GateThreads) - 1
            /\ IsFiniteSet(GateThreads')
        BY <3>1, FS_RemoveElement
      <3> QED
        BY <1>2, <1>5, <2>2, <3>1, <3>2 DEF Gate!Release, Gate!Move, Gate!LastOfRelease
    <2> QED
      BY <1>5, <2>1, <2>2 DEF Gate!Release
  <1>6. CASE UNCHANGED Gate!vars
    BY <1>6 DEF Gate!vars, GateThreads, Inside
  <1> QED
    BY <1>3, <1>4, <1>5, <1>6 DEF Gate!Next

LEMMA GateSafety == ASSUME GateInvariant PROVE Gate!GateHolds
  <1>1. \A set : Gate!Cardinality(set) = Cardinality(set)
    BY Zenon DEF Gate!Cardinality, Cardinality
  <1> QED
    BY <1>1, GateAssumption DEF GateInvariant, GateThreads, Inside, Gate!GateHolds

-----------------------------------------------------------------------------
(* RateLimiter: what it notes of a client are the last of the requests it  *)
(* served, until it forgets the client.                                    *)

\* A client's requests as served: in order, and no window holds more than the limit.
Spaced(s) ==
  /\ s \in Seq(0..rateClock)
  /\ \A i, j \in DOMAIN s : i <= j => s[i] <= s[j]
  /\ \A i \in DOMAIN s : i + RateLimit \in DOMAIN s => s[i] + Window <= s[i + RateLimit]

\* What the limiter notes of a client: the last of its requests, and each that is still
\* in the window.
NotedAsServed(c) ==
  IF c \in DOMAIN hits
    THEN /\ DOMAIN hits[c] \subseteq DOMAIN served[c] /\ Len(served[c]) \in DOMAIN hits[c]
         /\ hits[c] = [n \in DOMAIN hits[c] |-> served[c][n]]
         /\ \A i \in DOMAIN served[c] \ DOMAIN hits[c] : served[c][i] + Window <= rateClock
    ELSE served[c] = <<>>

RateInvariant ==
  /\ rateClock \in 0..RateTime
  /\ asking \in [Requests -> [client : RateClients, now : 0..rateClock] \cup {NoValue}]
  /\ served = [c \in RateClients |-> served[c]]
  /\ \A c \in RateClients \ late : Spaced(served[c]) /\ NotedAsServed(c)

LEMMA RateCardinality == \A set : Rate!Cardinality(set) = Cardinality(set)
  BY Zenon DEF Rate!Cardinality, Cardinality

LEMMA LeastNatural ==
  ASSUME NEW S \in SUBSET Nat, S # {}
  PROVE  \E n \in S : \A m \in S : n <= m
  <1> DEFINE R == OpToRel(<, Nat)
  <1>1. IsWellFoundedOn(R, Nat)
    BY NatLessThanWellFounded
  <1>2. PICK n \in S : \A m \in S : ~(<<m, n>> \in R)
    <2> HIDE DEF R
    <2> QED
      BY <1>1, WFMin
  <1>3. \A m \in S : ~(m < n)
    BY <1>2 DEF OpToRel
  <1> QED
    BY <1>3

LEMMA RateInitially == ASSUME Rate!Init PROVE RateInvariant
  <1>1. \A c \in RateClients : served[c] = <<>> /\ c \notin DOMAIN hits
    BY DEF Rate!Init
  <1>2. rateClock = 0 /\ late = {} /\ asking = [t \in Requests |-> NoValue] /\ served = [c \in RateClients |-> <<>>]
    BY DEF Rate!Init
  <1>3. Spaced(<<>>)
    BY DEF Spaced
  <1> QED
    BY <1>1, <1>2, <1>3, RateAssumption DEF RateInvariant, NotedAsServed

\* Time passes.
LEMMA TickKeepsRate == ASSUME RateInvariant, Rate!Tick PROVE RateInvariant'
  <1> USE DEF RateInvariant
  <1>1. /\ rateClock' = rateClock + 1 /\ rateClock < RateTime
        /\ UNCHANGED <<hits, asking, served, late>>
    BY DEF Rate!Tick
  <1>2. rateClock' \in 0..RateTime /\ 0..rateClock \subseteq 0..rateClock'
    BY <1>1, RateAssumption
  <1>3. asking' \in [Requests -> [client : RateClients, now : 0..rateClock'] \cup {NoValue}]
    BY <1>1, <1>2
  <1>4. ASSUME NEW c \in RateClients \ late PROVE Spaced(served[c])' /\ NotedAsServed(c)'
    <2>1. Spaced(served[c])'
      BY <1>1, <1>2 DEF Spaced
    <2>2. NotedAsServed(c)'
      <3>1. CASE c \notin DOMAIN hits
        BY <1>1, <3>1 DEF NotedAsServed
      <3>2. CASE c \in DOMAIN hits
        <4>1. \A i \in DOMAIN served[c] : served[c][i] \in Int
          BY DEF Spaced
        <4>2. \A i \in DOMAIN served[c] \ DOMAIN hits[c] : served[c][i] + Window <= rateClock'
          BY <1>1, <3>2, <4>1, RateAssumption DEF NotedAsServed
        <4> QED
          BY <1>1, <3>2, <4>2 DEF NotedAsServed
      <3> QED
        BY <3>1, <3>2
    <2> QED
      BY <2>1, <2>2
  <1> QED
    BY <1>1, <1>2, <1>3, <1>4

LEMMA AskKeepsRate ==
  ASSUME RateInvariant, NEW t \in Requests, NEW c \in RateClients, Rate!Ask(t, c)
  PROVE  RateInvariant'
  <1>1. /\ asking' = [asking EXCEPT ![t] = [client |-> c, now |-> rateClock]]
        /\ UNCHANGED <<hits, rateClock, served, late>>
    BY DEF Rate!Ask
  <1>2. [client |-> c, now |-> rateClock] \in [client : RateClients, now : 0..rateClock]
    BY DEF RateInvariant
  <1>3. asking' \in [Requests -> [client : RateClients, now : 0..rateClock] \cup {NoValue}]
    BY <1>1, <1>2 DEF RateInvariant
  <1>4. \A d \in RateClients \ late : Spaced(served[d])' /\ NotedAsServed(d)'
    BY <1>1 DEF RateInvariant, Spaced, NotedAsServed
  <1> QED
    BY <1>1, <1>3, <1>4 DEF RateInvariant

\* A client's requests within the window, of those noted when the clock was at `now`.
Within(c, now) == {n \in DOMAIN hits[c] : now < served[c][n] + Window}

\* What is noted of a client which is not late has its last request, and with it the next number.
LEMMA FollowingIsNext ==
  ASSUME RateInvariant, NEW c \in RateClients \ late
  PROVE  Rate!Following(Rate!Noted(c)) = Len(served[c]) + 1
  <1>1. NotedAsServed(c) /\ Spaced(served[c])
    BY DEF RateInvariant
  <1>2. CASE c \notin DOMAIN hits
    <2>1. DOMAIN Rate!Noted(c) = {} /\ Len(served[c]) = 0
      BY <1>1, <1>2 DEF Rate!Noted, Rate!Never, NotedAsServed
    <2> QED
      BY <2>1 DEF Rate!Following
  <1>3. CASE c \in DOMAIN hits
    <2> DEFINE last == Len(served[c])
    <2>1. Rate!Noted(c) = hits[c] /\ last \in DOMAIN hits[c] /\ DOMAIN hits[c] \subseteq 1..last /\ last \in Nat
      BY <1>1, <1>3 DEF Rate!Noted, NotedAsServed, Spaced
    <2>2. \A m \in DOMAIN hits[c] : m <= last
      BY <2>1
    <2>3. \A n \in DOMAIN hits[c] : (\A m \in DOMAIN hits[c] : m <= n) => n = last
      BY <2>1
    <2>4. Rate!Latest(hits[c]) = last
      BY <2>1, <2>2, <2>3 DEF Rate!Latest
    <2> QED
      BY <2>1, <2>4 DEF Rate!Following
  <1> QED
    BY <1>2, <1>3

\* A refusal forgets only what has left the window; the last request is still in it.
LEMMA RefusalKeepsNotes ==
  ASSUME RateInvariant, NEW c \in RateClients \ late, NEW now \in 0..rateClock,
         Rate!Cardinality(DOMAIN Rate!Recent(c, now)) >= RateLimit,
         c \in DOMAIN hits', hits'[c] = Rate!Recent(c, now), UNCHANGED <<rateClock, served>>
  PROVE  NotedAsServed(c)'
  <1>1. NotedAsServed(c) /\ Spaced(served[c])
    BY DEF RateInvariant
  <1>2. c \in DOMAIN hits /\ DOMAIN Rate!Recent(c, now) # {}
    <2>1. Cardinality(DOMAIN Rate!Recent(c, now)) # 0
      BY RateCardinality, FS_EmptySet, RateAssumption
    <2>2. DOMAIN Rate!Recent(c, now) # {}
      BY <2>1, FS_EmptySet
    <2> QED
      BY <2>2 DEF Rate!Recent, Rate!Noted, Rate!Never, Rate!Restrict
  <1>3. PICK last \in Nat : last = Len(served[c])
    BY <1>1 DEF Spaced
  <1>4. /\ DOMAIN served[c] = 1..last /\ \A i \in 1..last : served[c][i] \in Int
        /\ \A i \in 1..last : served[c][i] <= served[c][last]
    <2>0. served[c] \in Seq(0..rateClock) /\ rateClock \in Nat
      BY <1>1 DEF Spaced, RateInvariant
    <2>1. DOMAIN served[c] = 1..last /\ \A i \in 1..last : served[c][i] \in Int
      BY <2>0, <1>3
    <2>2. \A i \in 1..last : last \in 1..last /\ i <= last
      BY <1>3
    <2> QED
      BY <1>1, <2>1, <2>2 DEF Spaced
  <1>5. /\ DOMAIN hits[c] \subseteq 1..last /\ last \in DOMAIN hits[c]
        /\ hits[c] = [n \in DOMAIN hits[c] |-> served[c][n]]
        /\ \A i \in (1..last) \ DOMAIN hits[c] : served[c][i] + Window <= rateClock
    BY <1>1, <1>2, <1>3, <1>4 DEF NotedAsServed
  <1>6. PICK kept : kept = Within(c, now)
    OBVIOUS
  <1>7. Rate!Recent(c, now) = [n \in kept |-> served[c][n]]
    BY <1>2, <1>5, <1>6 DEF Rate!Recent, Rate!Noted, Rate!Restrict, Within
  <1>8. kept \subseteq DOMAIN hits[c] /\ kept # {}
    BY <1>2, <1>6, <1>7 DEF Within
  <1>9. now \in Int /\ now <= rateClock /\ rateClock \in Int /\ Window \in Int
    BY RateAssumption DEF RateInvariant
  <1>10. last \in kept
    <2>1. PICK n \in kept : TRUE
      BY <1>8
    <2>2. now < served[c][n] + Window /\ served[c][n] <= served[c][last]
      BY <1>4, <1>5, <1>6, <1>8, <2>1 DEF Within
    <2>3. now < served[c][last] + Window
      BY <1>4, <1>5, <1>8, <1>9, <2>1, <2>2
    <2> QED
      BY <1>5, <1>6, <2>3 DEF Within
  <1>11. ASSUME NEW i \in (1..last) \ kept PROVE served[c][i] + Window <= rateClock
    <2>1. CASE i \in DOMAIN hits[c]
      BY <1>4, <1>6, <1>9, <1>11, <2>1 DEF Within
    <2> QED
      BY <1>5, <1>11, <2>1
  <1>12. DOMAIN hits'[c] = kept /\ hits'[c] = [n \in kept |-> served[c][n]]
    BY <1>7
  <1> QED
    BY <1>3, <1>4, <1>5, <1>8, <1>10, <1>11, <1>12 DEF NotedAsServed

\* When all but fewer than the limit of a client's requests have left the window, so has the
\* one that many before the next.
LEMMA SpacedByFew ==
  ASSUME NEW now \in Nat, NEW last \in Nat, NEW s \in [1..last -> 0..now],
         NEW kept \in SUBSET (1..last), Cardinality(kept) < RateLimit,
         \A i, j \in 1..last : i <= j => s[i] <= s[j],
         \A i \in (1..last) \ kept : s[i] + Window <= now,
         NEW i \in 1..last, i + RateLimit = last + 1
  PROVE  s[i] + Window <= now
  <1> USE RateAssumption
  <1>1. IsFiniteSet(1..last) /\ IsFiniteSet(kept) /\ Cardinality(kept) \in Nat
    <2>1. IsFiniteSet(1..last)
      BY FS_Interval
    <2> QED
      BY <2>1, FS_Subset, FS_CardinalityType
  <1>2. Cardinality(i..last) = RateLimit
    <2>1. Cardinality(i..last) = IF i > last THEN 0 ELSE last - i + 1
      BY FS_Interval
    <2> QED
      BY <2>1
  <1>3. ~(i..last \subseteq kept)
    BY <1>1, <1>2, FS_Subset
  <1>4. PICK j \in i..last : j \notin kept
    BY <1>3
  <1>5. j \in 1..last /\ i <= j
    OBVIOUS
  <1>6. s[i] <= s[j] /\ s[j] + Window <= now
    BY <1>4, <1>5
  <1>7. s[i] \in Nat /\ s[j] \in Nat
    BY <1>5
  <1> QED
    BY <1>6, <1>7

\* A request is let through when fewer than the limit are within the window.
LEMMA AdmissionKeepsNotes ==
  ASSUME RateInvariant, NEW c \in RateClients \ late,
         Cardinality(DOMAIN Rate!Recent(c, rateClock)) < RateLimit,
         c \in DOMAIN hits',
         hits'[c] = [n \in DOMAIN Rate!Recent(c, rateClock) \cup {Len(served[c]) + 1} |->
                       IF n = Len(served[c]) + 1 THEN rateClock ELSE Rate!Recent(c, rateClock)[n]],
         served'[c] = Append(served[c], rateClock), UNCHANGED rateClock
  PROVE  Spaced(served[c])' /\ NotedAsServed(c)'
  <1>1. NotedAsServed(c) /\ Spaced(served[c]) /\ rateClock \in Nat
    BY DEF RateInvariant
  <1>2. PICK last \in Nat : last = Len(served[c])
    BY <1>1 DEF Spaced
  <1>3. PICK kept : kept = DOMAIN Rate!Recent(c, rateClock)
    OBVIOUS
  <1>4. DOMAIN served[c] = 1..last /\ served[c] \in [1..last -> 0..rateClock]
    BY <1>1, <1>2 DEF Spaced
  <1>5. /\ served'[c] \in Seq(0..rateClock) /\ DOMAIN served'[c] = 1..(last + 1)
        /\ served'[c][last + 1] = rateClock /\ \A i \in 1..last : served'[c][i] = served[c][i]
        /\ Len(served'[c]) = last + 1
    BY <1>1, <1>2 DEF Spaced
  <1>6. /\ kept \subseteq 1..last /\ \A n \in kept : Rate!Recent(c, rateClock)[n] = served[c][n]
        /\ \A i \in (1..last) \ kept : served[c][i] + Window <= rateClock
    <2>1. CASE c \notin DOMAIN hits
      <3>1. kept = {} /\ last = 0
        BY <1>1, <1>2, <1>3, <2>1 DEF NotedAsServed, Rate!Recent, Rate!Noted, Rate!Never, Rate!Restrict
      <3> QED
        BY <3>1
    <2>2. CASE c \in DOMAIN hits
      <3>1. /\ DOMAIN hits[c] \subseteq 1..last
            /\ hits[c] = [n \in DOMAIN hits[c] |-> served[c][n]]
            /\ \A i \in (1..last) \ DOMAIN hits[c] : served[c][i] + Window <= rateClock
        BY <1>1, <1>4, <2>2 DEF NotedAsServed
      <3>2. Rate!Recent(c, rateClock) = [n \in Within(c, rateClock) |-> served[c][n]]
        BY <2>2, <3>1 DEF Rate!Recent, Rate!Noted, Rate!Restrict, Within
      <3>3. kept = Within(c, rateClock)
        BY <1>3, <3>2
      <3>4. \A i \in DOMAIN hits[c] : i \notin kept => served[c][i] + Window <= rateClock
        BY <1>1, <1>4, <3>1, <3>3, RateAssumption DEF Within
      <3> QED
        BY <3>1, <3>2, <3>3, <3>4 DEF Within
    <2> QED
      BY <2>1, <2>2
  <1>7. ASSUME NEW i \in 1..last, i + RateLimit = last + 1 PROVE served[c][i] + Window <= rateClock
    BY <1>1, <1>3, <1>4, <1>6, <1>7, SpacedByFew DEF Spaced
  <1>8. Spaced(served[c])'
    <2>1. ASSUME NEW i \in 1..(last + 1), NEW j \in 1..(last + 1), i <= j
          PROVE  served'[c][i] <= served'[c][j]
      <3>1. CASE j \in 1..last
        <4>1. i \in 1..last
          BY <1>2, <2>1, <3>1
        <4>2. served[c][i] <= served[c][j]
          BY <1>1, <1>4, <2>1, <3>1, <4>1 DEF Spaced
        <4> QED
          BY <1>5, <3>1, <4>1, <4>2
      <3>2. CASE j = last + 1
        BY <1>1, <1>2, <1>4, <1>5, <2>1, <3>2
      <3> QED
        BY <1>2, <3>1, <3>2
    <2>2. ASSUME NEW i \in 1..(last + 1), i + RateLimit \in 1..(last + 1)
          PROVE  served'[c][i] + Window <= served'[c][i + RateLimit]
      <3>1. i \in 1..last
        BY <1>2, <2>2, RateAssumption
      <3>2. CASE i + RateLimit = last + 1
        BY <1>5, <1>7, <3>1, <3>2
      <3>3. CASE i + RateLimit \in 1..last
        <4>1. served[c][i] + Window <= served[c][i + RateLimit]
          BY <1>1, <1>4, <3>1, <3>3 DEF Spaced
        <4>2. PICK j \in 1..last : j = i + RateLimit
          BY <3>3
        <4>3. served'[c][i] = served[c][i] /\ served'[c][j] = served[c][j]
          BY <1>5, <3>1, <4>2
        <4> QED
          BY <4>1, <4>2, <4>3
      <3>4. PICK j : j = i + RateLimit
        OBVIOUS
      <3>5. j \in 1..(last + 1) /\ last \in Nat
        BY <2>2, <3>4
      <3>6. j = last + 1 \/ j \in 1..last
        BY <3>5
      <3> QED
        BY <3>2, <3>3, <3>4, <3>6
    <2> QED
      BY <1>5, <2>1, <2>2 DEF Spaced
  <1>9. NotedAsServed(c)'
    <2>1. hits'[c] = [n \in kept \cup {last + 1} |->
                        IF n = last + 1 THEN rateClock ELSE Rate!Recent(c, rateClock)[n]]
      BY <1>2, <1>3
    <2>2. hits'[c] = [n \in kept \cup {last + 1} |-> served'[c][n]]
      BY <1>5, <1>6, <2>1
    <2>3. DOMAIN hits'[c] = kept \cup {last + 1}
      BY <2>2
    <2>4. \A i \in DOMAIN served'[c] \ DOMAIN hits'[c] : served'[c][i] + Window <= rateClock
      BY <1>2, <1>5, <1>6, <2>3
    <2>5. DOMAIN hits'[c] \subseteq 1..(last + 1) /\ last + 1 \in DOMAIN hits'[c]
      <3>1. \A n \in 1..last : n \in 1..(last + 1)
        BY <1>2
      <3>2. last + 1 \in 1..(last + 1)
        BY <1>2
      <3> QED
        BY <1>6, <2>3, <3>1, <3>2
    <2> QED
      BY <1>5, <2>2, <2>3, <2>4, <2>5 DEF NotedAsServed
  <1> QED
    BY <1>8, <1>9

\* A thread whose clock was not overtaken adds to its client's requests; every other one
\* makes the client late.
LEMMA AllowKeepsRate ==
  ASSUME RateInvariant, NEW t \in Requests, Rate!Allow(t)
  PROVE  RateInvariant'
  <1>0. PICK c, now : c = asking[t].client /\ now = asking[t].now /\ Rate!Decide(c, now)
    BY DEF Rate!Allow
  <1>1. c \in RateClients /\ now \in 0..rateClock /\ rateClock \in Nat
    BY <1>0 DEF Rate!Allow, RateInvariant
  <1>2. asking' = [asking EXCEPT ![t] = NoValue] /\ UNCHANGED rateClock
    BY DEF Rate!Allow
  <1>3. asking' \in [Requests -> [client : RateClients, now : 0..rateClock'] \cup {NoValue}]
    BY <1>2 DEF RateInvariant
  <1> DEFINE Recent == Rate!Recent(c, now)
             Newest == Rate!Following(Rate!Noted(c))
             Counted == [n \in DOMAIN Recent \cup {Newest} |-> IF n = Newest THEN now ELSE Recent[n]]
             Slow == IF now = rateClock THEN {} ELSE {c}
             Kept(gone, times) ==
               hits' = [d \in (DOMAIN hits \ gone) \cup {c} |-> IF d = c THEN times ELSE hits[d]]
  <1>4. \/ /\ Rate!Cardinality(DOMAIN Recent) >= RateLimit
           /\ Kept({}, Recent) /\ UNCHANGED <<served, late>>
        \/ \E gone : /\ Rate!Cardinality(DOMAIN Recent) < RateLimit
                     /\ gone \subseteq DOMAIN hits
                     /\ Kept(gone, Counted) /\ late' = late \cup Slow \cup gone
                     /\ served' = [d \in RateClients |->
                                     IF d \in late' THEN <<>>
                                     ELSE IF d = c THEN Append(served[d], rateClock) ELSE served[d]]
        <2>1. \A gone \in Rate!Evicted(c) : gone \subseteq DOMAIN hits
      BY DEF Rate!Evicted, Rate!Oldest
    <2> QED
      BY <1>0, <2>1, Zenon DEF Rate!Decide
  <1>5. ASSUME NEW d \in RateClients \ late, d # c, UNCHANGED served[d],
               d \in DOMAIN hits <=> d \in DOMAIN hits', d \in DOMAIN hits => hits'[d] = hits[d]
        PROVE  Spaced(served[d])' /\ NotedAsServed(d)'
    <2>1. Spaced(served[d]) /\ NotedAsServed(d)
      BY DEF RateInvariant
    <2> QED
      BY <1>2, <1>5, <2>1 DEF Spaced, NotedAsServed
  <1>6. CASE /\ Rate!Cardinality(DOMAIN Recent) >= RateLimit
             /\ Kept({}, Recent) /\ UNCHANGED <<served, late>>
    <2>1. c \in DOMAIN hits' /\ hits'[c] = Recent
      BY <1>6
    <2>2. c \notin late => Spaced(served[c])' /\ NotedAsServed(c)'
      BY <1>1, <1>2, <1>6, <2>1, RefusalKeepsNotes DEF RateInvariant, Spaced
    <2>3. ASSUME NEW d \in RateClients \ late, d # c PROVE Spaced(served[d])' /\ NotedAsServed(d)'
      <3>1. UNCHANGED served[d] /\ (d \in DOMAIN hits <=> d \in DOMAIN hits') /\ (d \in DOMAIN hits => hits'[d] = hits[d])
        BY <1>6, <2>3
      <3> QED
        BY <1>5, <2>3, <3>1
    <2> QED
      BY <1>2, <1>3, <1>6, <2>2, <2>3 DEF RateInvariant
  <1>7. ASSUME NEW gone \in SUBSET DOMAIN hits,
               Rate!Cardinality(DOMAIN Recent) < RateLimit,
               Kept(gone, Counted), late' = late \cup Slow \cup gone,
               served' = [d \in RateClients |->
                            IF d \in late' THEN <<>>
                            ELSE IF d = c THEN Append(served[d], rateClock) ELSE served[d]]
        PROVE  RateInvariant'
    <2>1. c \in DOMAIN hits' /\ hits'[c] = Counted
      BY <1>7
    <2>2. ASSUME c \notin late' PROVE Spaced(served[c])' /\ NotedAsServed(c)'
      <3>1. c \in RateClients \ late /\ now = rateClock
        BY <1>1, <1>7, <2>2
      <3>2. Newest = Len(served[c]) + 1 /\ Cardinality(DOMAIN Recent) < RateLimit
        BY <1>7, <3>1, FollowingIsNext, RateCardinality
      <3>3. served'[c] = Append(served[c], rateClock)
        BY <1>7, <2>2, <3>1
      <3>4. hits'[c] = [n \in DOMAIN Rate!Recent(c, rateClock) \cup {Len(served[c]) + 1} |->
                          IF n = Len(served[c]) + 1 THEN rateClock ELSE Rate!Recent(c, rateClock)[n]]
        BY <2>1, <3>1, <3>2
      <3> QED
        BY <1>2, <2>1, <3>1, <3>2, <3>3, <3>4, AdmissionKeepsNotes
    <2>3. ASSUME NEW d \in RateClients \ late', d # c PROVE Spaced(served[d])' /\ NotedAsServed(d)'
      <3>1. d \in RateClients \ late /\ d \notin gone
        BY <1>7, <2>3
      <3>2. UNCHANGED served[d]
        BY <1>7, <2>3
      <3>3. (d \in DOMAIN hits <=> d \in DOMAIN hits') /\ (d \in DOMAIN hits => hits'[d] = hits[d])
        BY <1>7, <2>3, <3>1
      <3> QED
        BY <1>5, <2>3, <3>1, <3>2, <3>3
    <2>4. served' = [d \in RateClients |-> served'[d]]
      BY <1>7
    <2> QED
      BY <1>2, <1>3, <2>2, <2>3, <2>4 DEF RateInvariant
  <1> QED
    BY <1>4, <1>6, <1>7

LEMMA RateStep ==
  ASSUME RateInvariant, [Rate!Next]_(Rate!vars)
  PROVE  RateInvariant'
  <1>1. CASE UNCHANGED Rate!vars
    BY <1>1 DEF Rate!vars, RateInvariant, Spaced, NotedAsServed
  <1>2. CASE Rate!Next
    BY <1>2, TickKeepsRate, AskKeepsRate, AllowKeepsRate DEF Rate!Next
  <1> QED
    BY <1>1, <1>2

\* Requests in one window are less than the limit apart.
LEMMA SpacedIsBounded ==
  ASSUME NEW s, Spaced(s), rateClock \in Nat, NEW now \in Nat
  PROVE  Cardinality({i \in 1..Len(s) : s[i] <= now /\ now < s[i] + Window}) <= RateLimit
  <1> USE RateAssumption
  <1>1. PICK last \in Nat : last = Len(s) /\ DOMAIN s = 1..last
    BY DEF Spaced
  <1>2. PICK W : W = {i \in 1..Len(s) : s[i] <= now /\ now < s[i] + Window}
    OBVIOUS
  <1>3. \A i \in 1..last : s[i] \in Nat
    BY <1>1 DEF Spaced
  <1>4. CASE W = {}
    <2>1. Cardinality(W) = 0
      BY <1>4, FS_EmptySet
    <2> QED
      BY <1>2, <2>1
  <1>5. CASE W # {}
    <2>1. W \subseteq 1..last
      BY <1>1, <1>2
    <2>2. PICK m \in W : \A i \in W : m <= i
      BY <1>5, <2>1, LeastNatural
    <2>3. ASSUME NEW i \in W PROVE i < m + RateLimit
      <3>1. SUFFICES ASSUME m + RateLimit <= i PROVE FALSE
        BY <2>1, <2>2
      <3>2. m + RateLimit \in 1..last /\ m \in 1..last /\ i \in 1..last
        BY <1>1, <2>1, <2>2, <3>1
      <3>3. s[m] + Window <= s[m + RateLimit] /\ s[m + RateLimit] <= s[i]
        BY <1>1, <3>1, <3>2 DEF Spaced
      <3>4. s[i] <= now /\ now < s[m] + Window
        BY <1>2, <2>2, <2>3
      <3> QED
        BY <1>3, <3>2, <3>3, <3>4
    <2>4. W \subseteq m..(m + RateLimit - 1)
      BY <1>1, <2>1, <2>2, <2>3
    <2>5. IsFiniteSet(m..(m + RateLimit - 1)) /\ Cardinality(m..(m + RateLimit - 1)) = RateLimit
      <3>1. m \in Int /\ m + RateLimit - 1 \in Int
        BY <1>1, <2>1, <2>2
      <3>2. Cardinality(m..(m + RateLimit - 1)) = IF m > m + RateLimit - 1 THEN 0 ELSE m + RateLimit - 1 - m + 1
        BY <3>1, FS_Interval
      <3> QED
        BY <3>1, <3>2, FS_Interval
    <2> QED
      BY <1>2, <2>4, <2>5, FS_Subset
  <1> QED
    BY <1>4, <1>5

LEMMA RateSafety == ASSUME RateInvariant PROVE Rate!WindowHolds
  <1> SUFFICES ASSUME NEW c \in RateClients \ late, NEW now \in 0..RateTime
               PROVE  Rate!Cardinality({i \in 1..Len(served[c]) : served[c][i] <= now /\ now < served[c][i] + Window})
                        <= RateLimit
    BY Zenon DEF Rate!WindowHolds
  <1>1. Spaced(served[c]) /\ rateClock \in Nat /\ now \in Nat
    BY RateAssumption DEF RateInvariant
  <1> QED
    BY <1>1, SpacedIsBounded, RateCardinality

-----------------------------------------------------------------------------
(* SubmissionWorkspace: an approved report has the text and the hash of    *)
(* its last approval.                                                      *)
ReportStatuses == Report!Outcomes \cup {"DRAFT", "PENDING_APPROVAL", "APPROVED", "INVALIDATED"}
Reports == [content : Texts, status : ReportStatuses, content_sha256 : Texts \cup {NoValue},
            approved_by : Users \cup {NoValue}, external_reference : BOOLEAN]

\* An approved report has the text its last approval was given for.
ReportInvariant ==
  /\ report \in Reports
  /\ approvals \in Seq([actor : Users, content : Texts])
  /\ report.status = "APPROVED" =>
       /\ report.content = report.content_sha256
       /\ approvals # <<>>
       /\ Report!Last(approvals) = [actor |-> report.approved_by, content |-> report.content]

LEMMA CreatedReport ==
  ASSUME NEW c \in Texts
  PROVE  Report!Created(c) \in Reports /\ Report!Created(c).status = "DRAFT"
  BY DEF Report!Created, Reports, ReportStatuses

LEMMA ReportInitially == ASSUME Report!Init PROVE ReportInvariant
  BY CreatedReport DEF Report!Init, ReportInvariant

LEMMA ReportStep == ASSUME ReportInvariant, [Report!Next]_(Report!vars) PROVE ReportInvariant'
  <1> USE DEF ReportInvariant
  <1>1. CASE Report!Prepare
    <2>1. PICK c \in Texts : c = report.content
      BY DEF Reports, ReportStatuses
    <2>2. report' = [Report!Created(c) EXCEPT !.content_sha256 = c] /\ UNCHANGED approvals
      BY <1>1, <2>1 DEF Report!Prepare
    <2>3. report' \in Reports /\ report'.status = "DRAFT"
      BY <2>2 DEF Report!Created, Reports, ReportStatuses
    <2> QED
      BY <2>2, <2>3
  <1>2. CASE Report!RequestApproval
    BY <1>2 DEF Report!RequestApproval, Reports, ReportStatuses
  <1>3. ASSUME NEW a \in Users, Report!Approve(a) PROVE ReportInvariant'
    <2>1. PICK c : c = report.content
      OBVIOUS
    <2>2. /\ c \in Texts /\ c = report.content_sha256 /\ report' = [report EXCEPT !.status = "APPROVED", !.approved_by = a]
          /\ approvals' = Append(approvals, [actor |-> a, content |-> c])
      BY <1>3, <2>1 DEF Report!Approve, Reports, ReportStatuses
    <2>3. report' \in Reports /\ report'.content = c /\ report'.content_sha256 = c /\ report'.approved_by = a
      BY <2>1, <2>2 DEF Reports, ReportStatuses
    <2>4. [actor |-> a, content |-> c] \in [actor : Users, content : Texts]
      BY <2>2
    <2>5. /\ approvals' \in Seq([actor : Users, content : Texts]) /\ approvals' # <<>>
          /\ approvals'[Len(approvals')] = [actor |-> a, content |-> c]
      BY <2>2, <2>4
    <2> QED
      BY <2>3, <2>5 DEF Report!Last
  <1>4. ASSUME NEW c \in Texts, Report!Modify(c) PROVE ReportInvariant'
    <2>1. CASE report.status \in Report!Revocable
      BY <1>4, <2>1 DEF Report!Modify, Reports, ReportStatuses
    <2>2. CASE report.status \notin Report!Revocable
      BY <1>4, <2>2 DEF Report!Modify, Report!Revocable, Reports, ReportStatuses
    <2> QED
      BY <2>1, <2>2
  <1>5. CASE Report!MarkSubmitted
    BY <1>5 DEF Report!MarkSubmitted, Reports, ReportStatuses, Report!Outcomes
  <1>6. ASSUME NEW s \in Report!Outcomes, Report!UpdateStatus(s) PROVE ReportInvariant'
    <2>1. report' = [report EXCEPT !.status = s] /\ s \in ReportStatuses /\ s # "APPROVED" /\ UNCHANGED approvals
      BY <1>6 DEF Report!UpdateStatus, Report!Outcomes, ReportStatuses
    <2> QED
      BY <2>1 DEF Reports, ReportStatuses
  <1>7. CASE UNCHANGED Report!vars
    BY <1>7 DEF Report!vars
  <1> QED
    BY <1>1, <1>2, <1>3, <1>4, <1>5, <1>6, <1>7 DEF Report!Next

\* A report becomes submitted from having been approved, with its text and approval as they are.
LEMMA ReportSubmits ==
  ASSUME ReportInvariant, [Report!Next]_(Report!vars) PROVE Report!SubmitsWhatWasApproved
  <1> USE DEF ReportInvariant
  <1> SUFFICES ASSUME report.status # "SUBMITTED", report'.status = "SUBMITTED"
               PROVE  /\ report.status = "APPROVED" /\ report'.content = report.content
                      /\ report'.approved_by = report.approved_by
    BY DEF Report!SubmitsWhatWasApproved
  <1>1. ~Report!Prepare
    BY DEF Report!Prepare, Report!Created
  <1>2. ~Report!RequestApproval /\ \A a \in Users : ~Report!Approve(a)
    BY DEF Report!RequestApproval, Report!Approve, Reports
  <1>3. ASSUME NEW c \in Texts PROVE ~Report!Modify(c)
    <2>1. CASE report.status \in Report!Revocable
      BY <2>1 DEF Report!Modify, Reports
    <2>2. CASE report.status \notin Report!Revocable
      BY <2>2 DEF Report!Modify, Reports
    <2> QED
      BY <2>1, <2>2
  <1>4. CASE Report!MarkSubmitted
    BY <1>4 DEF Report!MarkSubmitted, Reports
  <1>5. ASSUME NEW s \in Report!Outcomes, Report!UpdateStatus(s)
        PROVE  /\ report.status = "APPROVED" /\ report'.content = report.content
               /\ report'.approved_by = report.approved_by
    <2>1. s = "SUBMITTED"
      BY <1>5 DEF Report!UpdateStatus, Reports
    <2> QED
      BY <1>5, <2>1 DEF Report!UpdateStatus, Reports
  <1> QED
    BY <1>1, <1>2, <1>3, <1>4, <1>5 DEF Report!Next, Report!vars

-----------------------------------------------------------------------------
(* PostgresSync: an open transaction has rows of its own; committed ones   *)
(* acknowledge what they inserted.                                         *)

PushTransaction ==
  [call : {"none", "receive", "received", "commit", "enqueue", "claim"}, key : Events \cup {NoValue},
   payload : Fingerprints \cup {NoValue}, event : BOOLEAN, job : BOOLEAN]

PushTyped ==
  /\ events \subseteq Events
  /\ rows \in [Events -> PushedRow \cup {NoValue}]
  /\ tx \in [Callers -> PushTransaction]
  /\ claims \in [Events -> Nat]

\* What an open transaction relies on.
TransactionFits(c) ==
  /\ tx[c].call # "none" => tx[c].key \in Events
  /\ tx[c].call \in {"receive", "received", "commit", "enqueue"} => tx[c].payload \in Fingerprints
  /\ tx[c].job => tx[c].call = "commit" /\ rows[tx[c].key] = NoValue
  /\ tx[c].call = "commit" /\ ~tx[c].job => rows[tx[c].key] # NoValue
  /\ tx[c].call = "claim" => rows[tx[c].key] # NoValue /\ rows[tx[c].key].state = "QUEUED"

\* No two of them insert or have locked the same job.
TransactionsDiffer ==
  \A c, d \in Callers : c # d /\ tx[c].key = tx[d].key =>
    ~(tx[c].job /\ tx[d].job) /\ ~(tx[c].call = "claim" /\ tx[d].call = "claim")

ClaimsAreCounted ==
  \A k \in Events : claims[k] = IF rows[k] # NoValue /\ rows[k].state = "RUNNING" THEN 1 ELSE 0

PushInvariant ==
  /\ PushTyped
  /\ \A c \in Callers : TransactionFits(c)
  /\ TransactionsDiffer
  /\ ClaimsAreCounted
  /\ Push!AcknowledgedIsQueued

LEMMA PushInitially == ASSUME Push!Init PROVE PushInvariant
  <1> USE DEF Push!Init, Push!Closed
  <1>1. PushTyped
    BY DEF PushTyped, PushTransaction
  <1>2. \A c \in Callers : TransactionFits(c)
    BY DEF TransactionFits
  <1>3. TransactionsDiffer
    BY DEF TransactionsDiffer
  <1>4. ClaimsAreCounted /\ Push!AcknowledgedIsQueued
    BY DEF ClaimsAreCounted, Push!AcknowledgedIsQueued
  <1> QED
    BY <1>1, <1>2, <1>3, <1>4 DEF PushInvariant

\* One client's transaction moves on, and nothing else: it fits, and does not take
\* what another one has.
LEMMA TransactionMoves ==
  ASSUME PushInvariant, NEW c \in Callers, NEW x \in PushTransaction,
         tx' = [tx EXCEPT ![c] = x], UNCHANGED <<events, rows, claims>>, acked' \subseteq events,
         TransactionFits(c)',
         \A d \in Callers \ {c} : tx[d].key = x.key =>
           ~(x.job /\ tx[d].job) /\ ~(x.call = "claim" /\ tx[d].call = "claim")
  PROVE  PushInvariant'
  <1> USE DEF PushInvariant
  <1>1. tx'[c] = x /\ \A d \in Callers \ {c} : tx'[d] = tx[d]
    BY DEF PushTyped
  <1>2. PushTyped'
    BY DEF PushTyped
  <1>3. ASSUME NEW d \in Callers, d # c PROVE TransactionFits(d)'
    BY <1>1, <1>3 DEF TransactionFits
  <1>4. TransactionsDiffer'
    BY <1>1 DEF TransactionsDiffer
  <1>5. ClaimsAreCounted' /\ Push!AcknowledgedIsQueued'
    BY DEF ClaimsAreCounted, Push!AcknowledgedIsQueued
  <1> QED
    BY <1>2, <1>3, <1>4, <1>5

LEMMA TransactionCloses ==
  ASSUME PushInvariant, NEW c \in Callers, Push!Close(c), UNCHANGED <<events, rows, claims>>,
         acked' \subseteq events
  PROVE  PushInvariant'
  <1> DEFINE x == Push!Closed
  <1>1. x \in PushTransaction /\ x.call = "none" /\ x.job = FALSE
    BY DEF Push!Closed, PushTransaction
  <1>2. tx' = [tx EXCEPT ![c] = x]
    BY DEF Push!Close
  <1>3. tx'[c] = x
    BY <1>2 DEF PushInvariant, PushTyped
  <1> HIDE DEF x
  <1>4. TransactionFits(c)'
    BY <1>1, <1>3 DEF TransactionFits
  <1> QED
    BY <1>1, <1>2, <1>4, TransactionMoves

Opened(what, k, p) == [Push!Closed EXCEPT !.call = what, !.key = k, !.payload = p]

LEMMA OpenedType ==
  ASSUME NEW what \in {"receive", "enqueue"}, NEW k \in Events, NEW p \in Fingerprints
  PROVE  /\ Opened(what, k, p) \in PushTransaction /\ Opened(what, k, p).call = what
         /\ Opened(what, k, p).key = k /\ Opened(what, k, p).payload = p /\ ~Opened(what, k, p).job
  BY DEF Opened, Push!Closed, PushTransaction

LEMMA OpenKeepsPush ==
  ASSUME PushInvariant, NEW c \in Callers, NEW what \in {"receive", "enqueue"}, NEW k \in Events,
         NEW p \in Fingerprints, tx' = [tx EXCEPT ![c] = Opened(what, k, p)],
         UNCHANGED <<events, rows, acked, claims>>
  PROVE  PushInvariant'
  <1>1. tx'[c] = Opened(what, k, p)
    BY DEF PushInvariant, PushTyped
  <1>2. TransactionFits(c)'
    BY <1>1, OpenedType DEF TransactionFits
  <1>3. acked' \subseteq events
    BY DEF PushInvariant, Push!AcknowledgedIsQueued
  <1> QED
    BY <1>2, <1>3, OpenedType, TransactionMoves

LEMMA InsertEventKeepsPush ==
  ASSUME PushInvariant, NEW c \in Callers, Push!InsertEvent(c) PROVE PushInvariant'
  <1> DEFINE x == [tx[c] EXCEPT !.call = "received", !.event = TRUE]
  <1>1. tx[c] \in PushTransaction /\ TransactionFits(c) /\ tx[c].call = "receive"
    BY DEF PushInvariant, PushTyped, Push!InsertEvent, Push!InCall
  <1>2. x \in PushTransaction /\ x.call = "received" /\ x.key = tx[c].key /\ x.payload = tx[c].payload /\ ~x.job
    BY <1>1 DEF PushTransaction, TransactionFits
  <1>3. tx' = [tx EXCEPT ![c] = x] /\ UNCHANGED <<events, rows, acked, claims>>
    BY DEF Push!InsertEvent
  <1> HIDE DEF x
  <1>4. tx'[c] = x
    BY <1>3 DEF PushInvariant, PushTyped
  <1>5. TransactionFits(c)'
    BY <1>1, <1>2, <1>4 DEF TransactionFits
  <1>6. acked' \subseteq events
    BY <1>3 DEF PushInvariant, Push!AcknowledgedIsQueued
  <1> QED
    BY <1>2, <1>3, <1>5, <1>6, TransactionMoves

LEMMA InsertJobKeepsPush ==
  ASSUME PushInvariant, NEW c \in Callers, Push!InsertJob(c) PROVE PushInvariant'
  <1> DEFINE new == rows[tx[c].key] = NoValue
             x == [tx[c] EXCEPT !.call = "commit", !.job = new]
  <1>1. tx[c] \in PushTransaction /\ TransactionFits(c) /\ tx[c].call = "received"
    BY DEF PushInvariant, PushTyped, Push!InsertJob, Push!InCall
  <1>2. x \in PushTransaction /\ x.call = "commit" /\ x.key = tx[c].key /\ x.payload = tx[c].payload /\ (x.job <=> new)
    BY <1>1 DEF PushTransaction
  <1>3. tx' = [tx EXCEPT ![c] = x] /\ UNCHANGED <<events, rows, acked, claims>>
    BY DEF Push!InsertJob
  <1>4. \A d \in Callers \ {c} : tx[d].key = tx[c].key => ~tx[d].job
    BY DEF Push!InsertJob, Push!JobPending
  <1> HIDE DEF x
  <1>5. tx'[c] = x
    BY <1>3 DEF PushInvariant, PushTyped
  <1>6. TransactionFits(c)'
    BY <1>1, <1>2, <1>3, <1>5 DEF TransactionFits
  <1>7. acked' \subseteq events
    BY <1>3 DEF PushInvariant, Push!AcknowledgedIsQueued
  <1> QED
    BY <1>2, <1>3, <1>4, <1>6, <1>7, TransactionMoves

LEMMA LockKeepsPush ==
  ASSUME PushInvariant, NEW c \in Callers, Push!Lock(c) PROVE PushInvariant'
  <1>1. PICK k \in Push!Candidates(c) : tx' = [tx EXCEPT ![c] = [Push!Closed EXCEPT !.call = "claim", !.key = k]]
    BY DEF Push!Lock
  <1> DEFINE x == [Push!Closed EXCEPT !.call = "claim", !.key = k]
  <1>2. /\ k \in Events /\ rows[k] # NoValue /\ rows[k].state = "QUEUED"
        /\ \A d \in Callers \ {c} : ~(tx[d].call = "claim" /\ tx[d].key = k)
    BY DEF Push!Candidates, Push!InCall
  <1>3. x \in PushTransaction /\ x.call = "claim" /\ x.key = k /\ ~x.job
    BY <1>2 DEF PushTransaction, Push!Closed
  <1>4. tx' = [tx EXCEPT ![c] = x] /\ UNCHANGED <<events, rows, acked, claims>>
    BY <1>1 DEF Push!Lock
  <1> HIDE DEF x
  <1>5. tx'[c] = x
    BY <1>4 DEF PushInvariant, PushTyped
  <1>6. TransactionFits(c)'
    BY <1>2, <1>3, <1>4, <1>5 DEF TransactionFits
  <1>7. acked' \subseteq events
    BY <1>4 DEF PushInvariant, Push!AcknowledgedIsQueued
  <1> QED
    BY <1>2, <1>3, <1>4, <1>6, <1>7, TransactionMoves

\* A row is written and the transaction which wrote it ends: no other one inserts it.
LEMMA RowIsWritten ==
  ASSUME PushInvariant, NEW c \in Callers, NEW k \in Events, NEW p \in Fingerprints,
         rows[k] = NoValue, Push!Close(c), rows' = [rows EXCEPT ![k] = Push!Queued(p)],
         UNCHANGED claims, acked' \subseteq events', events' \subseteq events \cup {k},
         \A d \in Callers \ {c} : tx[d].key = k => ~tx[d].job
  PROVE  PushInvariant'
  <1> USE DEF PushInvariant
  <1>1. Push!Queued(p) \in PushedRow /\ Push!Queued(p).state = "QUEUED"
    BY DEF Push!Queued, PushedRow
  <1>2. /\ rows'[k] \in PushedRow /\ rows'[k] # NoValue /\ rows'[k].state = "QUEUED"
        /\ \A j \in Events : j # k => rows'[j] = rows[j]
    BY <1>1, PushAssumption DEF PushTyped
  <1>3. Push!Closed \in PushTransaction /\ Push!Closed.call = "none" /\ ~Push!Closed.job
    BY DEF Push!Closed, PushTransaction
  <1>4. tx'[c] = Push!Closed /\ \A d \in Callers \ {c} : tx'[d] = tx[d]
    BY DEF PushTyped, Push!Close
  <1>5. PushTyped'
    BY <1>1, <1>3 DEF PushTyped, Push!Close
  <1>6. ASSUME NEW d \in Callers PROVE TransactionFits(d)'
    <2>1. CASE d = c
      BY <1>3, <1>4, <2>1 DEF TransactionFits
    <2>2. CASE d # c
      BY <1>2, <1>4, <2>2 DEF TransactionFits
    <2> QED
      BY <2>1, <2>2
  <1>7. TransactionsDiffer'
    BY <1>3, <1>4 DEF TransactionsDiffer
  <1>8. ClaimsAreCounted'
    BY <1>2 DEF ClaimsAreCounted
  <1>9. Push!AcknowledgedIsQueued'
    BY <1>2 DEF Push!AcknowledgedIsQueued
  <1> QED
    BY <1>5, <1>6, <1>7, <1>8, <1>9

LEMMA CommitKeepsPush ==
  ASSUME PushInvariant, NEW c \in Callers, Push!Commit(c) PROVE PushInvariant'
  <1> USE DEF PushInvariant
  <1>1. PICK k \in Events : k = tx[c].key
    BY DEF TransactionFits, Push!Commit, Push!InCall
  <1>2. /\ tx[c].call = "commit" /\ events' = events \cup {k} /\ acked' = acked \cup {k}
        /\ Push!Close(c) /\ UNCHANGED claims
        /\ rows' = IF tx[c].job THEN [rows EXCEPT ![k] = Push!Queued(tx[c].payload)] ELSE rows
    BY <1>1 DEF Push!Commit, Push!InCall
  <1>3. acked' \subseteq events'
    BY <1>2 DEF Push!AcknowledgedIsQueued
  <1>4. CASE tx[c].job
    <2>1. rows[k] = NoValue /\ tx[c].payload \in Fingerprints
      BY <1>1, <1>2, <1>4 DEF TransactionFits
    <2>2. \A d \in Callers \ {c} : tx[d].key = k => ~tx[d].job
      BY <1>1, <1>4 DEF TransactionsDiffer
    <2> QED
      BY <1>2, <1>3, <1>4, <2>1, <2>2, RowIsWritten
  <1>5. CASE ~tx[c].job
    <2>1. rows[k] # NoValue /\ rows' = rows
      BY <1>1, <1>2, <1>5 DEF TransactionFits
    <2>2. Push!Closed \in PushTransaction /\ Push!Closed.call = "none" /\ ~Push!Closed.job
      BY DEF Push!Closed, PushTransaction
    <2>3. tx'[c] = Push!Closed /\ \A d \in Callers \ {c} : tx'[d] = tx[d]
      BY <1>2 DEF PushTyped, Push!Close
    <2>4. PushTyped'
      BY <1>2, <2>1, <2>2 DEF PushTyped, Push!Close
    <2>5. \A d \in Callers : TransactionFits(d)'
      BY <2>1, <2>2, <2>3 DEF TransactionFits
    <2>6. TransactionsDiffer'
      BY <2>2, <2>3 DEF TransactionsDiffer
    <2>7. ClaimsAreCounted' /\ Push!AcknowledgedIsQueued'
      BY <1>2, <1>3, <2>1 DEF ClaimsAreCounted, Push!AcknowledgedIsQueued
    <2> QED
      BY <2>4, <2>5, <2>6, <2>7
  <1> QED
    BY <1>4, <1>5

LEMMA EnqueueRowKeepsPush ==
  ASSUME PushInvariant, NEW c \in Callers, Push!EnqueueRow(c) PROVE PushInvariant'
  <1> USE DEF PushInvariant
  <1>1. PICK k \in Events : k = tx[c].key
    BY DEF TransactionFits, Push!EnqueueRow, Push!InCall
  <1>2. /\ tx[c].call = "enqueue" /\ \A d \in Callers \ {c} : tx[d].key = k => ~tx[d].job
        /\ Push!Close(c) /\ UNCHANGED <<events, acked, claims>>
        /\ rows' = IF rows[k] = NoValue THEN [rows EXCEPT ![k] = Push!Queued(tx[c].payload)] ELSE rows
    BY <1>1 DEF Push!EnqueueRow, Push!InCall, Push!JobPending
  <1>3. acked' \subseteq events' /\ acked' \subseteq events
    BY <1>2 DEF Push!AcknowledgedIsQueued
  <1>4. CASE rows[k] = NoValue
    <2>1. tx[c].payload \in Fingerprints
      BY <1>2 DEF TransactionFits
    <2> QED
      BY <1>2, <1>3, <1>4, <2>1, RowIsWritten
  <1>5. CASE rows[k] # NoValue
    BY <1>2, <1>3, <1>5, TransactionCloses
  <1> QED
    BY <1>4, <1>5

LEMMA ClaimKeepsPush ==
  ASSUME PushInvariant, NEW c \in Callers, Push!Claim(c) PROVE PushInvariant'
  <1> USE DEF PushInvariant
  <1>1. PICK k \in Events : k = tx[c].key
    BY DEF TransactionFits, Push!Claim, Push!InCall
  <1>2. /\ tx[c].call = "claim" /\ Push!Close(c) /\ UNCHANGED <<events, acked>>
        /\ rows' = [rows EXCEPT ![k].state = "RUNNING", ![k].attempts = @ + 1]
        /\ claims' = [claims EXCEPT ![k] = @ + 1]
    BY <1>1 DEF Push!Claim, Push!InCall
  <1>3. rows[k] # NoValue /\ rows[k].state = "QUEUED" /\ rows[k] \in PushedRow
    BY <1>1, <1>2 DEF TransactionFits, PushTyped
  <1>4. /\ rows'[k] \in PushedRow /\ rows'[k] # NoValue /\ rows'[k].state = "RUNNING"
        /\ rows' \in [Events -> PushedRow \cup {NoValue}]
        /\ \A j \in Events : j # k => rows'[j] = rows[j]
    BY <1>2, <1>3, PushAssumption DEF PushTyped, PushedRow
  <1>5. Push!Closed \in PushTransaction /\ Push!Closed.call = "none" /\ ~Push!Closed.job
    BY DEF Push!Closed, PushTransaction
  <1>6. tx'[c] = Push!Closed /\ \A d \in Callers \ {c} : tx'[d] = tx[d]
    BY <1>2 DEF PushTyped, Push!Close
  <1>7. PushTyped'
    BY <1>2, <1>4, <1>5 DEF PushTyped, Push!Close
  <1>8. ASSUME NEW d \in Callers PROVE TransactionFits(d)'
    <2>1. CASE d = c
      BY <1>5, <1>6, <2>1 DEF TransactionFits
    <2>2. CASE d # c
      <3>1. tx[d].call = "claim" => tx[d].key # k
        BY <1>1, <1>2, <2>2 DEF TransactionsDiffer
      <3> QED
        BY <1>3, <1>4, <1>6, <2>2, <3>1 DEF TransactionFits
    <2> QED
      BY <2>1, <2>2
  <1>9. TransactionsDiffer'
    BY <1>5, <1>6 DEF TransactionsDiffer
  <1>10. ClaimsAreCounted'
    <2>1. claims'[k] = claims[k] + 1 /\ claims[k] = 0 /\ \A j \in Events : j # k => claims'[j] = claims[j]
      BY <1>2, <1>3 DEF ClaimsAreCounted, PushTyped
    <2> QED
      BY <1>4, <2>1 DEF ClaimsAreCounted
  <1>11. Push!AcknowledgedIsQueued'
    <2>1. \A e \in events : rows'[e] # NoValue
      BY <1>4 DEF PushTyped, Push!AcknowledgedIsQueued
    <2> QED
      BY <1>2, <2>1 DEF Push!AcknowledgedIsQueued
  <1> QED
    BY <1>7, <1>8, <1>9, <1>10, <1>11

LEMMA PushStep ==
  ASSUME PushInvariant, [Push!Next]_(Push!vars)
  PROVE  PushInvariant'
  <1>1. CASE UNCHANGED Push!vars
    BY <1>1 DEF Push!vars, PushInvariant, PushTyped, TransactionFits, TransactionsDiffer,
                ClaimsAreCounted, Push!AcknowledgedIsQueued
  <1>2. ASSUME NEW c \in Callers, NEW e \in Events, Push!Receive(c, e) PROVE PushInvariant'
    BY <1>2, OpenKeepsPush, PushAssumption DEF Push!Receive, Opened
  <1>3. ASSUME NEW c \in Callers, NEW e \in Events, NEW p \in Fingerprints, Push!Enqueue(c, e, p)
        PROVE  PushInvariant'
    BY <1>3, OpenKeepsPush DEF Push!Enqueue, Opened
  <1>4. ASSUME NEW c \in Callers, Push!Duplicate(c) PROVE PushInvariant'
    <2>1. acked' \subseteq events
      BY <1>4 DEF PushInvariant, Push!AcknowledgedIsQueued, Push!Duplicate
    <2> QED
      BY <1>4, <2>1, TransactionCloses DEF Push!Duplicate
  <1>5. ASSUME NEW c \in Callers, Push!Crash(c) PROVE PushInvariant'
    <2>1. acked' \subseteq events
      BY <1>5 DEF PushInvariant, Push!AcknowledgedIsQueued, Push!Crash
    <2> QED
      BY <1>5, <2>1, TransactionCloses DEF Push!Crash
  <1> QED
    BY <1>1, <1>2, <1>3, <1>4, <1>5, InsertEventKeepsPush, InsertJobKeepsPush, LockKeepsPush,
       CommitKeepsPush, EnqueueRowKeepsPush, ClaimKeepsPush
    DEF Push!Next

LEMMA PushSafety == ASSUME PushInvariant PROVE Push!AcknowledgedIsQueued /\ Push!OneClaim
  BY DEF PushInvariant, ClaimsAreCounted, Push!OneClaim

-----------------------------------------------------------------------------
(* NotificationPolicy: the quiet window is a stretch of the clock; a copy  *)
(* is the row, unless a request crossed another.                           *)
LEMMA RoundTheClock ==
  ASSUME NEW H \in Nat \ {0}, NEW x \in 0..(2 * H - 1)
  PROVE  x % H = IF x < H THEN x ELSE x - H
  <1>1. x % H \in Int /\ x % H >= 0 /\ x % H < H
    OBVIOUS
  <1>2. x = (x \div H) * H + (x % H) /\ x \div H \in Int
    BY SMTT(60)
  <1>3. PICK q \in Int : x = q * H + (x % H)
    BY <1>2
  <1>4. q >= 0
    <2>1. CASE q <= -1
      <3>1. q * H <= -H
        BY <2>1
      <3> QED
        BY <1>1, <1>3, <3>1
    <2> QED
      BY <2>1
  <1>5. q <= 1
    <2>1. CASE q >= 2
      <3>1. q * H >= 2 * H
        BY <2>1
      <3> QED
        BY <1>1, <1>3, <3>1
    <2> QED
      BY <2>1
  <1>6. CASE q = 0
    BY <1>1, <1>3, <1>6
  <1>7. CASE q = 1
    BY <1>1, <1>3, <1>7
  <1> QED
    BY <1>4, <1>5, <1>6, <1>7


LEMMA PolicyWindow == Policy!WindowIsAStretch
  <1> SUFFICES ASSUME NEW h \in 0..(Hours - 1), NEW start \in 0..(Hours - 1), NEW end \in 0..(Hours - 1)
               PROVE  Policy!InQuietWindow(h, start, end) <=> Policy!Quiet(h, start, end)
    BY DEF Policy!WindowIsAStretch
  <1> DEFINE Turn(m) == IF start + m < Hours THEN start + m ELSE start + m - Hours
             In == IF start <= end THEN start <= h /\ h < end ELSE h >= start \/ h < end
             Around == \E n \in 0..(Hours - 1) : h = Turn(n) /\ \A m \in 0..n : Turn(m) # end
             away == IF h >= start THEN h - start ELSE h - start + Hours
  <1>1. Hours \in Nat \ {0}
    BY PolicyAssumption
  <1>2. \A m \in 0..(Hours - 1) : (start + m) % Hours = Turn(m)
    <2> SUFFICES ASSUME NEW m \in 0..(Hours - 1) PROVE (start + m) % Hours = Turn(m)
      OBVIOUS
    <2>1. PICK x \in 0..(2 * Hours - 1) : x = start + m
      BY <1>1
    <2>2. x % Hours = IF x < Hours THEN x ELSE x - Hours
      BY <1>1, RoundTheClock
    <2>3. x % Hours = Turn(m)
      <3>1. CASE x < Hours
        BY <1>1, <2>1, <2>2, <3>1
      <3>2. CASE ~(x < Hours)
        BY <1>1, <2>1, <2>2, <3>2
      <3> QED
        BY <3>1, <3>2
    <2> HIDE DEF Turn
    <2> QED
      BY <1>1, <2>1, <2>3
  <1>3. Policy!Quiet(h, start, end) <=> Around
    <2> DEFINE Wheel(m) == (start + m) % Hours
    <2>1. Policy!Quiet(h, start, end) <=>
            \E n \in 0..(Hours - 1) : h = Wheel(n) /\ \A m \in 0..n : Wheel(m) # end
      BY Zenon DEF Policy!Quiet
    <2>2. \A m \in 0..(Hours - 1) : Wheel(m) = Turn(m)
      BY <1>2
    <2>3. \A n \in 0..(Hours - 1) : 0..n \subseteq 0..(Hours - 1)
      BY <1>1
    <2> HIDE DEF Wheel, Turn
    <2> QED
      BY <2>1, <2>2, <2>3
  <1>4. Policy!InQuietWindow(h, start, end) <=> In
    BY PolicyAssumption DEF Policy!InQuietWindow
  <1>5. away \in 0..(Hours - 1) /\ h = Turn(away)
    BY <1>1
  <1>6. \A n \in 0..(Hours - 1) : h = Turn(n) => n = away
    BY <1>1
  <1>7. ASSUME In PROVE Around
    <2>1. \A m \in 0..away : Turn(m) # end
      BY <1>1, <1>7
    <2> QED
      BY <1>5, <2>1
  <1>8. ASSUME ~In PROVE ~Around
    <2> DEFINE met == IF end >= start THEN end - start ELSE end - start + Hours
    <2>1. met \in 0..away /\ Turn(met) = end
      BY <1>1, <1>8
    <2> HIDE DEF Turn, away, met
    <2> QED
      BY <1>6, <2>1
  <1> QED
    BY <1>3, <1>4, <1>7, <1>8

PolicyValues == Policies \cup {Policy!Default}
PolicyAct == [at : {"idle", "reading", "running", "setting"}, server : Servers \cup {NoValue},
              org : Companies \cup {NoValue}, run : BOOLEAN, policy : PolicyValues, excused : BOOLEAN]

PolicyTyped ==
  /\ policyRows \in [Companies -> Policies \cup {NoValue}]
  /\ copies \in [Servers -> [Companies -> Policies \cup {NoValue}]]
  /\ policyAct \in [Requests -> PolicyAct]
  /\ policyStale \in [Companies -> SUBSET Servers]

\* A request has the process and the organisation it works for, and a policy to set.
PolicyActFits(t) ==
  /\ policyAct[t].at # "idle" => policyAct[t].server \in Servers /\ policyAct[t].org \in Companies
  /\ policyAct[t].at = "setting" => policyAct[t].policy \in Policies
  /\ policyAct[t].at = "running" /\ ~policyAct[t].excused => policyAct[t].policy = Policy!Row(policyAct[t].org)

\* While the requests on an organisation's row do not cross, one process at a time sets
\* it; every other one which is not stale has a copy of the row, or none.
RowIsCopied(o) == o \notin policyCrossed =>
  /\ \A t, u \in Policy!Setting(o) : t = u
  /\ \A t \in Policy!Setting(o) : copies[policyAct[t].server][o] = policyAct[t].policy
  /\ \A s \in Servers \ policyStale[o] :
       (\A t \in Policy!Setting(o) : policyAct[t].server # s) => copies[s][o] \in {NoValue, policyRows[o]}

PolicyInvariant ==
  /\ PolicyTyped
  /\ \A t \in Requests : PolicyActFits(t)
  /\ \A o \in Companies : RowIsCopied(o) /\ (policyRows[o] = NoValue => policyStale[o] = {})
  /\ obeyed

LEMMA PolicyIdle == Policy!Idle \in PolicyAct /\ Policy!Idle.at = "idle"
  BY DEF Policy!Idle, PolicyAct, PolicyValues

LEMMA PolicyInitially == ASSUME Policy!Init PROVE PolicyInvariant
  <1> USE DEF Policy!Init
  <1>1. PolicyTyped
    BY PolicyIdle DEF PolicyTyped
  <1>2. \A o \in Companies : Policy!Setting(o) = {}
    BY PolicyIdle DEF Policy!Setting, Policy!At
  <1>3. \A t \in Requests : PolicyActFits(t)
    BY PolicyIdle DEF PolicyActFits
  <1> QED
    BY <1>1, <1>2, <1>3 DEF PolicyInvariant, RowIsCopied

\* A policy which is the row's judges as the row does.
LEMMA JudgedByRow ==
  ASSUME obeyed, NEW o, NEW p, NEW excused, excused \/ p = Policy!Row(o), Policy!Judged(o, p, excused)
  PROVE  obeyed'
  BY Zenon DEF Policy!Judged

\* The requests on which the row of an organisation depends stay as they are.
LEMMA SettingStays ==
  ASSUME NEW o \in Companies, RowIsCopied(o),
         \A t \in Requests : policyAct'[t].at = "setting" <=> policyAct[t].at = "setting",
         \A t \in Requests : policyAct[t].at = "setting" =>
           /\ policyAct'[t].org = policyAct[t].org /\ policyAct'[t].server = policyAct[t].server
           /\ policyAct'[t].policy = policyAct[t].policy,
         UNCHANGED <<policyRows, copies, policyStale, policyCrossed>>
  PROVE  RowIsCopied(o)'
  <1>1. Policy!Setting(o)' = Policy!Setting(o)
    BY DEF Policy!Setting, Policy!At
  <1>2. \A t \in Policy!Setting(o) : t \in Requests /\ policyAct[t].at = "setting"
    BY DEF Policy!Setting, Policy!At
  <1> QED
    BY <1>1, <1>2 DEF RowIsCopied

\* What a request begins is judged by the row, or by a policy it is excused for; the
\* runs which it takes along are excused.
LEMMA BeginKeeps ==
  ASSUME PolicyInvariant, NEW t \in Requests, policyAct[t].at # "setting", NEW s \in Servers, NEW o \in Companies,
         NEW p \in PolicyValues, NEW batch \in BOOLEAN, Policy!Begin(t, s, o, p, batch),
         Policy!Excused(s, o) \/ p = Policy!Row(o), UNCHANGED policyRows
  PROVE  /\ policyAct' \in [Requests -> PolicyAct] /\ obeyed'
         /\ \A u \in Requests : PolicyActFits(u)'
         /\ \A u \in Requests : policyAct'[u].at = "setting" <=> policyAct[u].at = "setting"
         /\ \A u \in Requests : policyAct[u].at = "setting" =>
              /\ policyAct'[u].org = policyAct[u].org /\ policyAct'[u].server = policyAct[u].server
              /\ policyAct'[u].policy = policyAct[u].policy
  <1>1. policyAct \in [Requests -> PolicyAct]
    BY DEF PolicyInvariant, PolicyTyped
  <1>2. \A x : Policy!Row(x)' = Policy!Row(x)
    BY DEF Policy!Row
  <1>3. CASE ~batch
    <2>1. policyAct' = [policyAct EXCEPT ![t] = Policy!Idle]
      BY <1>3 DEF Policy!Begin, Policy!Go
    <2>2. policyAct' \in [Requests -> PolicyAct]
      BY <1>1, <2>1, PolicyIdle
    <2>3. policyAct'[t].at = "idle" /\ \A u \in Requests : u # t => policyAct'[u] = policyAct[u]
      BY <1>1, <2>1, PolicyIdle
    <2>4. obeyed'
      <3>1. Policy!Judged(o, p, Policy!Excused(s, o)) /\ obeyed
        BY <1>3, Zenon DEF Policy!Begin, PolicyInvariant
      <3> QED
        BY <3>1, JudgedByRow, Zenon
    <2>5. \A u \in Requests : PolicyActFits(u)'
      BY <1>2, <2>3 DEF PolicyInvariant, PolicyActFits
    <2> QED
      BY <2>2, <2>3, <2>4, <2>5
  <1>4. CASE batch
    <2>1. PICK excused \in BOOLEAN : excused = Policy!Excused(s, o)
      <3>1. Policy!Excused(s, o) \in BOOLEAN
        BY Zenon DEF Policy!Excused
      <3> QED
        BY <3>1, Zenon
    <2>2. PICK a : a = [at |-> "running", server |-> s, org |-> o, run |-> TRUE, policy |-> p, excused |-> excused]
      OBVIOUS
    <2>3. /\ obeyed' = obeyed
          /\ policyAct' = [u \in Requests |->
               IF u = t THEN a
               ELSE IF policyAct[u].server = s /\ policyAct[u].at = "running"
                 THEN [policyAct[u] EXCEPT !.policy = p, !.excused = TRUE]
               ELSE policyAct[u]]
      BY <1>4, <2>1, <2>2, Zenon DEF Policy!Begin, Policy!At
    <2>4. /\ a \in PolicyAct /\ a.at = "running" /\ a.server = s /\ a.org = o /\ a.policy = p
          /\ a.excused = excused
      BY <2>2 DEF PolicyAct
    <2>5. policyAct'[t] = a
      BY <2>3
    <2>6. ASSUME NEW u \in Requests, u # t
          PROVE  /\ policyAct'[u] \in PolicyAct
                 /\ \/ policyAct'[u] = policyAct[u]
                    \/ policyAct[u].at = "running" /\ policyAct'[u].at = "running" /\ policyAct'[u].excused = TRUE
                 /\ policyAct'[u].at = policyAct[u].at /\ policyAct'[u].org = policyAct[u].org
                 /\ policyAct'[u].server = policyAct[u].server
      <3>1. CASE policyAct[u].server = s /\ policyAct[u].at = "running"
        BY <1>1, <2>3, <2>6, <3>1 DEF PolicyAct
      <3>2. CASE ~(policyAct[u].server = s /\ policyAct[u].at = "running")
        BY <1>1, <2>3, <2>6, <3>2
      <3> QED
        BY <3>1, <3>2
    <2>7. policyAct' \in [Requests -> PolicyAct]
      <3>1. \A u \in Requests : policyAct'[u] \in PolicyAct
        BY <2>4, <2>5, <2>6
      <3>2. policyAct' = [u \in Requests |-> policyAct'[u]]
        BY <2>3
      <3> QED
        BY <3>1, <3>2
    <2>8. PolicyActFits(t)'
      <3>1. ~excused => p = Policy!Row(o)
        BY <2>1, Zenon
      <3> QED
        BY <1>2, <2>4, <2>5, <3>1 DEF PolicyActFits
    <2>9. ASSUME NEW u \in Requests, u # t PROVE PolicyActFits(u)'
      BY <1>2, <2>6, <2>9 DEF PolicyInvariant, PolicyActFits
    <2>10. \A u \in Requests : policyAct[u].at = "setting" => policyAct'[u] = policyAct[u]
      BY <2>6
    <2>11. \A u \in Requests : policyAct'[u].at = "setting" <=> policyAct[u].at = "setting"
      BY <2>4, <2>5, <2>6
    <2>12. obeyed'
      BY <2>3, Zenon DEF PolicyInvariant
    <2> QED
      BY <2>7, <2>8, <2>9, <2>10, <2>11, <2>12
  <1> QED
    BY <1>3, <1>4

LEMMA AskKeeps ==
  ASSUME PolicyInvariant, NEW t \in Requests, NEW s \in Servers, NEW o \in Companies, NEW batch \in BOOLEAN,
         Policy!Ask(t, s, o, batch)
  PROVE  PolicyInvariant'
  <1>1. policyAct[t].at = "idle" /\ UNCHANGED <<policyRows, copies, policyStale, policyCrossed>>
    BY DEF Policy!Ask, Policy!At
  <1>2. CASE copies[s][o] # NoValue
    <2>1. Policy!Begin(t, s, o, copies[s][o], batch)
      BY <1>2 DEF Policy!Ask
    <2>2. copies[s][o] \in PolicyValues
      BY <1>2 DEF PolicyInvariant, PolicyTyped, PolicyValues
    <2>3. Policy!Excused(s, o) \/ copies[s][o] = Policy!Row(o)
      <3>1. ASSUME ~Policy!Excused(s, o) PROVE copies[s][o] = policyRows[o]
        BY <1>2, <3>1 DEF PolicyInvariant, RowIsCopied, Policy!Excused
      <3> QED
        BY <1>2, <3>1 DEF Policy!Row
    <2>4. \A x \in Companies : RowIsCopied(x)'
      BY <1>1, <2>1, <2>2, <2>3, BeginKeeps, SettingStays DEF PolicyInvariant
    <2>5. policyAct' \in [Requests -> PolicyAct] /\ obeyed' /\ \A u \in Requests : PolicyActFits(u)'
      BY <1>1, <2>1, <2>2, <2>3, BeginKeeps
    <2> QED
      BY <1>1, <2>4, <2>5 DEF PolicyInvariant, PolicyTyped
  <1>3. CASE copies[s][o] = NoValue
    <2>1. PICK a : a = [Policy!Idle EXCEPT !.at = "reading", !.server = s, !.org = o, !.run = batch]
      OBVIOUS
    <2>2. a \in PolicyAct /\ a.at = "reading" /\ a.server = s /\ a.org = o
      BY <2>1, PolicyIdle DEF PolicyAct
    <2>3. policyAct' = [policyAct EXCEPT ![t] = a] /\ obeyed' = obeyed
      BY <1>3, <2>1 DEF Policy!Ask, Policy!Go
    <2>4. policyAct'[t] = a /\ \A u \in Requests : u # t => policyAct'[u] = policyAct[u]
      BY <2>3 DEF PolicyInvariant, PolicyTyped
    <2>5. \A u \in Requests : PolicyActFits(u)'
      BY <1>1, <2>2, <2>4 DEF PolicyInvariant, PolicyActFits, Policy!Row
    <2>6. \A x \in Companies : RowIsCopied(x)'
      <3>1. \A u \in Requests : policyAct'[u].at = "setting" <=> policyAct[u].at = "setting"
        BY <1>1, <2>2, <2>4
      <3>2. \A u \in Requests : policyAct[u].at = "setting" => policyAct'[u] = policyAct[u]
        BY <1>1, <2>4
      <3> QED
        BY <1>1, <3>1, <3>2, SettingStays DEF PolicyInvariant
    <2>7. obeyed'
      BY <2>3, Zenon DEF PolicyInvariant
    <2> QED
      BY <1>1, <2>2, <2>3, <2>5, <2>6, <2>7 DEF PolicyInvariant, PolicyTyped
  <1> QED
    BY <1>2, <1>3

LEMMA ReadKeeps ==
  ASSUME PolicyInvariant, NEW t \in Requests, Policy!Read(t) PROVE PolicyInvariant'
  <1>1. PICK s \in Servers, o \in Companies, batch \in BOOLEAN :
          s = policyAct[t].server /\ o = policyAct[t].org /\ batch = policyAct[t].run
    <2>1. policyAct[t] \in PolicyAct /\ policyAct[t].at = "reading" /\ PolicyActFits(t)
      BY DEF PolicyInvariant, PolicyTyped, Policy!Read, Policy!At
    <2> QED
      BY <2>1 DEF PolicyActFits, PolicyAct
  <1>2. /\ policyAct[t].at = "reading" /\ UNCHANGED policyRows
        /\ copies' = IF policyRows[o] = NoValue THEN copies ELSE [copies EXCEPT ![s][o] = policyRows[o]]
        /\ policyCrossed' = IF Policy!Setting(o) # {} THEN policyCrossed \cup {o} ELSE policyCrossed
        /\ policyStale' = [policyStale EXCEPT ![o] = @ \ {s}]
        /\ Policy!Begin(t, s, o, Policy!Row(o), batch)
    BY <1>1 DEF Policy!Read, Policy!At
  <1>3. Policy!Row(o) \in PolicyValues
    BY DEF PolicyInvariant, PolicyTyped, Policy!Row, PolicyValues
  <1>4. /\ policyAct' \in [Requests -> PolicyAct] /\ obeyed' /\ \A u \in Requests : PolicyActFits(u)'
        /\ \A u \in Requests : policyAct'[u].at = "setting" <=> policyAct[u].at = "setting"
        /\ \A u \in Requests : policyAct[u].at = "setting" =>
              /\ policyAct'[u].org = policyAct[u].org /\ policyAct'[u].server = policyAct[u].server
              /\ policyAct'[u].policy = policyAct[u].policy
    BY <1>2, <1>3, BeginKeeps
  <1>5. PolicyTyped'
    BY <1>2, <1>4 DEF PolicyInvariant, PolicyTyped
  <1>6. /\ \A z \in Servers, x \in Companies : x # o => copies'[z][x] = copies[z][x]
        /\ \A z \in Servers : z # s => copies'[z][o] = copies[z][o]
        /\ policyRows[o] # NoValue => copies'[s][o] = policyRows[o]
        /\ policyRows[o] = NoValue => copies' = copies
    BY <1>2 DEF PolicyInvariant, PolicyTyped
  <1>7. \A x \in Companies : IF x = o THEN policyStale'[x] = policyStale[x] \ {s} ELSE policyStale'[x] = policyStale[x]
    BY <1>2 DEF PolicyInvariant, PolicyTyped
  <1>8. \A x \in Companies : Policy!Setting(x)' = Policy!Setting(x)
    BY <1>4 DEF Policy!Setting, Policy!At
  <1>9. \A x, u : u \in Policy!Setting(x) => u \in Requests /\ policyAct[u].at = "setting"
    BY DEF Policy!Setting, Policy!At
  <1>10. ASSUME NEW x \in Companies PROVE RowIsCopied(x)'
    <2>1. CASE x # o
      BY <1>2, <1>4, <1>6, <1>7, <1>8, <1>9, <2>1 DEF PolicyInvariant, RowIsCopied
    <2>2. CASE x = o
      <3> SUFFICES ASSUME o \notin policyCrossed' PROVE RowIsCopied(o)'
        BY <2>2 DEF RowIsCopied
      <3>1. o \notin policyCrossed /\ Policy!Setting(o) = {} /\ Policy!Setting(o)' = {}
        BY <1>2, <1>8
      <3>2. policyRows[o] = NoValue => policyStale[o] = {}
        BY DEF PolicyInvariant
      <3>3. \A z \in Servers \ policyStale[o] : copies[z][o] \in {NoValue, policyRows[o]}
        BY <3>1 DEF PolicyInvariant, RowIsCopied
      <3>4. \A z \in Servers \ policyStale'[o] : copies'[z][o] \in {NoValue, policyRows[o]}
        BY <1>6, <1>7, <3>2, <3>3
      <3> QED
        BY <1>2, <3>1, <3>4 DEF RowIsCopied
    <2> QED
      BY <2>1, <2>2
  <1>11. \A x \in Companies : policyRows'[x] = NoValue => policyStale'[x] = {}
    BY <1>2, <1>7 DEF PolicyInvariant
  <1> QED
    BY <1>4, <1>5, <1>10, <1>11 DEF PolicyInvariant

LEMMA AttemptKeeps ==
  ASSUME PolicyInvariant, NEW t \in Requests, Policy!Attempt(t) PROVE PolicyInvariant'
  <1>1. /\ policyAct[t].at = "running" /\ Policy!Judged(policyAct[t].org, policyAct[t].policy, policyAct[t].excused)
        /\ policyAct' = [policyAct EXCEPT ![t] = Policy!Idle]
        /\ UNCHANGED <<policyRows, copies, policyStale, policyCrossed>>
    BY DEF Policy!Attempt, Policy!Go, Policy!At
  <1>2. policyAct[t].excused \/ policyAct[t].policy = Policy!Row(policyAct[t].org)
    BY <1>1 DEF PolicyInvariant, PolicyActFits
  <1>3. obeyed'
    BY <1>1, <1>2, JudgedByRow, Zenon DEF PolicyInvariant
  <1>4. policyAct'[t].at = "idle" /\ \A u \in Requests : u # t => policyAct'[u] = policyAct[u]
    BY <1>1, PolicyIdle DEF PolicyInvariant, PolicyTyped
  <1>5. \A u \in Requests : PolicyActFits(u)'
    BY <1>1, <1>4 DEF PolicyInvariant, PolicyActFits, Policy!Row
  <1>6. \A x \in Companies : RowIsCopied(x)'
    <2>1. \A u \in Requests : policyAct'[u].at = "setting" <=> policyAct[u].at = "setting"
      BY <1>1, <1>4
    <2>2. \A u \in Requests : policyAct[u].at = "setting" => policyAct'[u] = policyAct[u]
      BY <1>1, <1>4
    <2> QED
      BY <1>1, <2>1, <2>2, SettingStays DEF PolicyInvariant
  <1> QED
    BY <1>1, <1>3, <1>5, <1>6, PolicyIdle DEF PolicyInvariant, PolicyTyped

LEMMA SetKeeps ==
  ASSUME PolicyInvariant, NEW t \in Requests, NEW s \in Servers, NEW o \in Companies, NEW p \in Policies,
         Policy!Set(t, s, o, p)
  PROVE  PolicyInvariant'
  <1>1. PICK a : a = [Policy!Idle EXCEPT !.at = "setting", !.server = s, !.org = o, !.policy = p]
    OBVIOUS
  <1>2. a \in PolicyAct /\ a.at = "setting" /\ a.server = s /\ a.org = o /\ a.policy = p
    BY <1>1, PolicyIdle DEF PolicyAct, PolicyValues
  <1>3. /\ policyAct[t].at = "idle" /\ policyAct' = [policyAct EXCEPT ![t] = a]
        /\ copies' = [copies EXCEPT ![s][o] = p]
        /\ (\E u \in Requests : policyAct[u].org = o /\ policyAct[u].at \in {"reading", "setting"}) => o \in policyCrossed'
        /\ policyCrossed \subseteq policyCrossed'
        /\ UNCHANGED <<policyRows, policyStale, obeyed>>
    BY <1>1 DEF Policy!Set, Policy!Go, Policy!At
  <1>4. policyAct'[t] = a /\ \A u \in Requests : u # t => policyAct'[u] = policyAct[u]
    BY <1>3 DEF PolicyInvariant, PolicyTyped
  <1>5. \A u \in Requests : PolicyActFits(u)'
    BY <1>2, <1>3, <1>4 DEF PolicyInvariant, PolicyActFits, Policy!Row
  <1>6. PolicyTyped'
    BY <1>2, <1>3 DEF PolicyInvariant, PolicyTyped
  <1>7. /\ \A z \in Servers, x \in Companies : z # s \/ x # o => copies'[z][x] = copies[z][x]
        /\ copies'[s][o] = p
    BY <1>3 DEF PolicyInvariant, PolicyTyped
  <1>8. ASSUME NEW x \in Companies PROVE RowIsCopied(x)'
    <2>1. CASE x # o
      <3>1. Policy!Setting(x)' = Policy!Setting(x) /\ t \notin Policy!Setting(x)
        BY <1>2, <1>3, <1>4, <2>1 DEF Policy!Setting, Policy!At
      <3>2. \A u \in Policy!Setting(x) : policyAct[u].server \in Servers /\ policyAct'[u] = policyAct[u]
        BY <1>4, <3>1 DEF PolicyInvariant, PolicyActFits, Policy!Setting, Policy!At
      <3> QED
        BY <1>3, <1>7, <2>1, <3>1, <3>2 DEF PolicyInvariant, RowIsCopied
    <2>2. CASE x = o
      <3> SUFFICES ASSUME o \notin policyCrossed' PROVE RowIsCopied(o)'
        BY <2>2 DEF RowIsCopied
      <3>1. o \notin policyCrossed /\ Policy!Setting(o) = {}
        BY <1>3 DEF Policy!Setting, Policy!At
      <3>2. Policy!Setting(o)' = {t}
        BY <1>2, <1>4, <3>1 DEF Policy!Setting, Policy!At
      <3>3. \A z \in Servers \ policyStale[o] : copies[z][o] \in {NoValue, policyRows[o]}
        BY <3>1 DEF PolicyInvariant, RowIsCopied
      <3> QED
        BY <1>2, <1>3, <1>4, <1>7, <3>2, <3>3 DEF RowIsCopied
    <2> QED
      BY <2>1, <2>2
  <1>9. obeyed'
    BY <1>3, Zenon DEF PolicyInvariant
  <1> QED
    BY <1>3, <1>5, <1>6, <1>8, <1>9 DEF PolicyInvariant

\* The row is what its process already has; who goes by the one of before is excused.
LEMMA UpsertKeeps ==
  ASSUME PolicyInvariant, NEW t \in Requests, Policy!Upsert(t) PROVE PolicyInvariant'
  <1>1. PICK s \in Servers, o \in Companies, p \in Policies :
          s = policyAct[t].server /\ o = policyAct[t].org /\ p = policyAct[t].policy
    BY DEF PolicyInvariant, PolicyActFits, Policy!Upsert, Policy!At
  <1>2. PICK idle : idle = Policy!Idle
    OBVIOUS
  <1>3. PICK copied : copied = {z \in Servers \ {s} : copies[z][o] # NoValue}
    OBVIOUS
  <1>4. /\ policyAct[t].at = "setting" /\ UNCHANGED <<copies, obeyed>>
        /\ \/ /\ policyRows' = [policyRows EXCEPT ![o] = p]
              /\ policyStale' = [policyStale EXCEPT ![o] = copied] /\ policyCrossed' = policyCrossed
           \/ policyCrossed' = policyCrossed \cup {o} /\ UNCHANGED <<policyRows, policyStale>>
        /\ policyAct' = [u \in Requests |-> IF u = t THEN idle
                                ELSE IF policyAct[u].org = o THEN [policyAct[u] EXCEPT !.excused = TRUE]
                                ELSE policyAct[u]]
    BY <1>1, <1>2, <1>3 DEF Policy!Upsert, Policy!At
  <1>5. idle \in PolicyAct /\ idle.at = "idle"
    BY <1>2, PolicyIdle
  <1>6. policyAct'[t] = idle
    BY <1>4
  <1>7. ASSUME NEW u \in Requests, u # t
        PROVE  /\ policyAct'[u] \in PolicyAct
               /\ policyAct'[u].at = policyAct[u].at /\ policyAct'[u].server = policyAct[u].server
               /\ policyAct'[u].org = policyAct[u].org /\ policyAct'[u].policy = policyAct[u].policy
               /\ policyAct[u].org = o => policyAct'[u].excused = TRUE
               /\ policyAct[u].org # o => policyAct'[u] = policyAct[u]
    <2>1. policyAct[u] \in PolicyAct
      BY DEF PolicyInvariant, PolicyTyped
    <2>2. CASE policyAct[u].org = o
      <3>1. policyAct'[u] = [policyAct[u] EXCEPT !.excused = TRUE]
        BY <1>4, <1>7, <2>2
      <3> QED
        BY <2>1, <2>2, <3>1 DEF PolicyAct
    <2>3. CASE policyAct[u].org # o
      BY <1>4, <1>7, <2>1, <2>3
    <2> QED
      BY <2>2, <2>3
  <1>8. policyAct' \in [Requests -> PolicyAct]
    <2>1. \A u \in Requests : policyAct'[u] \in PolicyAct
      BY <1>5, <1>6, <1>7
    <2>2. policyAct' = [u \in Requests |-> policyAct'[u]]
      BY <1>4
    <2> QED
      BY <2>1, <2>2
  <1>9. /\ \A x \in Companies : x # o => policyRows'[x] = policyRows[x] /\ policyStale'[x] = policyStale[x]
        /\ \/ policyRows'[o] = p /\ policyStale'[o] = copied
           \/ o \in policyCrossed' /\ UNCHANGED <<policyRows, policyStale>>
        /\ \A x \in Companies : x # o /\ x \notin policyCrossed' => x \notin policyCrossed
        /\ policyCrossed \subseteq policyCrossed'
    BY <1>4 DEF PolicyInvariant, PolicyTyped
  <1>10. PolicyTyped'
    <2>1. copied \in SUBSET Servers
      BY <1>3
    <2> QED
      BY <1>4, <1>8, <2>1 DEF PolicyInvariant, PolicyTyped
  <1>11. PolicyActFits(t)'
    BY <1>5, <1>6 DEF PolicyActFits
  <1>12. ASSUME NEW u \in Requests, u # t PROVE PolicyActFits(u)'
    <2>1. PolicyActFits(u)
      BY DEF PolicyInvariant
    <2>0. /\ policyAct'[u].at = policyAct[u].at /\ policyAct'[u].server = policyAct[u].server
          /\ policyAct'[u].org = policyAct[u].org /\ policyAct'[u].policy = policyAct[u].policy
          /\ policyAct[u].org = o => policyAct'[u].excused = TRUE
          /\ policyAct[u].org # o => policyAct'[u] = policyAct[u]
      BY <1>7, <1>12
    <2>2. policyAct'[u].at = "running" /\ ~policyAct'[u].excused => policyAct'[u].policy = Policy!Row(policyAct[u].org)'
      <3> SUFFICES ASSUME policyAct'[u].at = "running", ~policyAct'[u].excused
                   PROVE  policyAct'[u].policy = Policy!Row(policyAct[u].org)'
        OBVIOUS
      <3>1. policyAct[u].org # o /\ policyAct[u].at = "running" /\ ~policyAct[u].excused
        BY <2>0
      <3>2. policyAct[u].org \in Companies /\ policyAct[u].policy = Policy!Row(policyAct[u].org)
        BY <2>1, <3>1 DEF PolicyActFits
      <3>3. policyRows'[policyAct[u].org] = policyRows[policyAct[u].org]
        BY <1>9, <3>1, <3>2
      <3> QED
        BY <2>0, <3>2, <3>3 DEF Policy!Row
    <2> QED
      BY <2>0, <2>1, <2>2 DEF PolicyActFits
  <1>13. ASSUME NEW x \in Companies PROVE RowIsCopied(x)'
    <2>1. CASE x # o
      <3>1. Policy!Setting(x)' = Policy!Setting(x) /\ t \notin Policy!Setting(x)
        BY <1>1, <1>5, <1>6, <1>7, <2>1 DEF Policy!Setting, Policy!At
      <3>2. \A u \in Policy!Setting(x) : policyAct'[u].server = policyAct[u].server /\ policyAct'[u].policy = policyAct[u].policy
        BY <1>7, <3>1 DEF Policy!Setting
      <3> QED
        <4>1. /\ policyRows'[x] = policyRows[x] /\ policyStale'[x] = policyStale[x] /\ copies' = copies
              /\ x \notin policyCrossed' => x \notin policyCrossed
          BY <1>4, <1>9, <2>1
        <4>2. RowIsCopied(x)
          BY DEF PolicyInvariant
        <4> QED
          BY <3>1, <3>2, <4>1, <4>2 DEF RowIsCopied
    <2>2. CASE x = o
      <3> SUFFICES ASSUME o \notin policyCrossed' PROVE RowIsCopied(o)'
        BY <2>2 DEF RowIsCopied
      <3>1. t \in Policy!Setting(o) /\ o \notin policyCrossed
        BY <1>1, <1>4, <1>9 DEF Policy!Setting, Policy!At
      <3>2. Policy!Setting(o) = {t} /\ copies[s][o] = p
        BY <1>1, <3>1 DEF PolicyInvariant, RowIsCopied
      <3>3. Policy!Setting(o)' = {}
        <4>1. ASSUME NEW u \in Requests PROVE ~(policyAct'[u].at = "setting" /\ policyAct'[u].org = o)
          <5>1. CASE u = t
            BY <1>5, <1>6, <5>1
          <5>2. CASE u # t
            <6>1. ~(policyAct[u].at = "setting" /\ policyAct[u].org = o)
              BY <3>2, <5>2 DEF Policy!Setting, Policy!At
            <6> QED
              BY <1>7, <5>2, <6>1
          <5> QED
            BY <5>1, <5>2
        <4> QED
          BY <4>1 DEF Policy!Setting, Policy!At
      <3>4. policyRows'[o] = p /\ policyStale'[o] = copied
        BY <1>9
      <3>5. \A z \in Servers \ copied : copies[z][o] \in {NoValue, p}
        BY <1>3, <3>2
      <3> QED
        BY <1>4, <3>3, <3>4, <3>5 DEF RowIsCopied
    <2> QED
      BY <2>1, <2>2
  <1>14. \A x \in Companies : policyRows'[x] = NoValue => policyStale'[x] = {}
    BY <1>9, PolicyAssumption DEF PolicyInvariant
  <1>15. obeyed'
    BY <1>4, Zenon DEF PolicyInvariant
  <1> QED
    BY <1>10, <1>11, <1>12, <1>13, <1>14, <1>15 DEF PolicyInvariant

LEMMA PolicyRestarts ==
  ASSUME PolicyInvariant, NEW s \in Servers, Policy!Restart(s) PROVE PolicyInvariant'
  <1>1. PICK idle : idle = Policy!Idle
    OBVIOUS
  <1>2. /\ copies' = [copies EXCEPT ![s] = [o \in Companies |-> NoValue]]
        /\ policyAct' = [t \in Requests |-> IF policyAct[t].server = s THEN idle ELSE policyAct[t]]
        /\ policyStale' = [o \in Companies |-> policyStale[o] \ {s}]
        /\ UNCHANGED <<policyRows, policyCrossed, obeyed>>
    BY <1>1 DEF Policy!Restart
  <1>3. idle \in PolicyAct /\ idle.at = "idle"
    BY <1>1, PolicyIdle
  <1>4. \A t \in Requests : IF policyAct[t].server = s THEN policyAct'[t] = idle ELSE policyAct'[t] = policyAct[t]
    BY <1>2
  <1>5. PolicyTyped'
    BY <1>2, <1>3 DEF PolicyInvariant, PolicyTyped
  <1>6. \A t \in Requests : PolicyActFits(t)'
    BY <1>2, <1>3, <1>4 DEF PolicyInvariant, PolicyActFits, Policy!Row
  <1>7. /\ \A o \in Companies : copies'[s][o] = NoValue
        /\ \A z \in Servers : z # s => copies'[z] = copies[z]
        /\ \A o \in Companies : policyStale'[o] = policyStale[o] \ {s}
    BY <1>2 DEF PolicyInvariant, PolicyTyped
  <1>8. ASSUME NEW o \in Companies PROVE RowIsCopied(o)'
    <2>1. Policy!Setting(o)' = {t \in Policy!Setting(o) : policyAct[t].server # s}
      BY <1>3, <1>4 DEF Policy!Setting, Policy!At
    <2>2. \A t \in Policy!Setting(o)' : t \in Policy!Setting(o) /\ policyAct'[t] = policyAct[t] /\ policyAct[t].server # s
      BY <1>4, <2>1 DEF Policy!Setting
    <2>3. \A t \in Policy!Setting(o) : policyAct[t].server \in Servers
      BY DEF PolicyInvariant, PolicyActFits, Policy!Setting, Policy!At
    <2>4. ASSUME o \notin policyCrossed, NEW z \in Servers \ policyStale'[o],
                 \A t \in Policy!Setting(o)' : policyAct'[t].server # z
          PROVE  copies'[z][o] \in {NoValue, policyRows[o]}
      <3>1. CASE z = s
        BY <1>7, <3>1
      <3>2. CASE z # s
        <4>1. z \notin policyStale[o] /\ copies'[z] = copies[z]
          BY <1>7, <3>2
        <4>2. \A t \in Policy!Setting(o) : policyAct[t].server # z
          BY <2>1, <2>2, <2>4, <3>2
        <4> QED
          BY <2>4, <4>1, <4>2 DEF PolicyInvariant, RowIsCopied
      <3> QED
        BY <3>1, <3>2
    <2>5. ASSUME o \notin policyCrossed, NEW t \in Policy!Setting(o)'
          PROVE  copies'[policyAct'[t].server][o] = policyAct'[t].policy
      BY <1>7, <2>2, <2>3, <2>5 DEF PolicyInvariant, RowIsCopied
    <2>6. o \notin policyCrossed => \A t, u \in Policy!Setting(o)' : t = u
      BY <2>2 DEF PolicyInvariant, RowIsCopied
    <2> QED
      BY <1>2, <2>4, <2>5, <2>6 DEF RowIsCopied
  <1>9. \A o \in Companies : policyRows'[o] = NoValue => policyStale'[o] = {}
    BY <1>2, <1>7 DEF PolicyInvariant
  <1>10. obeyed'
    BY <1>2, Zenon DEF PolicyInvariant
  <1> QED
    BY <1>5, <1>6, <1>8, <1>9, <1>10 DEF PolicyInvariant

LEMMA PolicyStep ==
  ASSUME PolicyInvariant, [Policy!Next]_(Policy!vars) PROVE PolicyInvariant'
  <1>1. CASE UNCHANGED Policy!vars
    <2>1. UNCHANGED <<policyRows, copies, policyAct, policyStale, policyCrossed, obeyed>>
      BY <1>1 DEF Policy!vars
    <2>2. \A o \in Companies : RowIsCopied(o)'
      BY <2>1, SettingStays DEF PolicyInvariant
    <2>3. \A t \in Requests : PolicyActFits(t)'
      BY <2>1 DEF PolicyInvariant, PolicyActFits, Policy!Row
    <2>4. obeyed'
      BY <2>1, Zenon DEF PolicyInvariant
    <2> QED
      BY <2>1, <2>2, <2>3, <2>4 DEF PolicyInvariant, PolicyTyped
  <1> QED
    BY <1>1, AskKeeps, ReadKeeps, AttemptKeeps, SetKeeps, UpsertKeeps, PolicyRestarts DEF Policy!Next

LEMMA PolicySafety == ASSUME PolicyInvariant PROVE Policy!WindowIsAStretch /\ Policy!PolicyIsObeyed
  BY PolicyWindow DEF PolicyInvariant, Policy!PolicyIsObeyed

-----------------------------------------------------------------------------
(* ReviewChecklist: a list has what is called for, but what is excused.    *)

CodesCalled(route) ==
  {"REVIEW_CONTEXT", "EVIDENCE_INTEGRITY", "DECISION_RATIONALE"}
  \cup (IF signals THEN {"POLICY_SIGNALS"} ELSE {})
  \cup (IF Checklist!Missing(route) THEN {Checklist!Gap} ELSE {})
  \cup (IF contradictions > 0 THEN {"CONTRADICTIONS"} ELSE {})

\* A called code which the list may not have.
Excused(code) == \/ code = "CONTRADICTIONS" /\ grown
                 \/ code = Checklist!Gap /\ first = "readiness"

ChecklistInvariant ==
  /\ persistent \in BOOLEAN /\ contradictions \in Nat /\ itemRows = <<>>
  /\ items \in Seq(ChecklistItem) \cup {NoValue}
  /\ persistent => items \in {NoValue, <<>>}
  /\ ~persistent /\ items # NoValue =>
       \A code \in CodesCalled("checklist") : code \in Checklist!Codes(items) \/ Excused(code)
  /\ shown.ready => items # NoValue
  /\ Checklist!ReadyIsReviewed

Listed(list) == {list[n] : n \in DOMAIN list}

LEMMA ListedOfJoin ==
  ASSUME NEW S, NEW s \in Seq(S), NEW u \in Seq(S)
  PROVE  s \o u \in Seq(S) /\ Listed(s \o u) = Listed(s) \cup Listed(u)
  <1>1. s \o u \in Seq(S) /\ DOMAIN s = 1..Len(s) /\ DOMAIN u = 1..Len(u)
        /\ DOMAIN (s \o u) = 1..(Len(s) + Len(u)) /\ Len(s) \in Nat /\ Len(u) \in Nat
    OBVIOUS
  <1>2. \A n \in 1..Len(s) : n \in 1..(Len(s) + Len(u)) /\ (s \o u)[n] = s[n]
    OBVIOUS
  <1>3. \A n \in 1..Len(u) : n + Len(s) \in 1..(Len(s) + Len(u)) /\ (s \o u)[n + Len(s)] = u[n]
    OBVIOUS
  <1>4. \A n \in 1..(Len(s) + Len(u)) :
          \/ n \in 1..Len(s) /\ (s \o u)[n] = s[n]
          \/ n - Len(s) \in 1..Len(u) /\ (s \o u)[n] = u[n - Len(s)]
    OBVIOUS
  <1>5. Listed(s \o u) \subseteq Listed(s) \cup Listed(u)
    BY <1>1, <1>4 DEF Listed
  <1>6. Listed(s) \subseteq Listed(s \o u) /\ Listed(u) \subseteq Listed(s \o u)
    BY <1>1, <1>2, <1>3 DEF Listed
  <1> QED
    BY <1>1, <1>5, <1>6

LEMMA ListedAtMostOne ==
  ASSUME NEW S, NEW c \in S
  PROVE  /\ <<>> \in Seq(S) /\ Listed(<<>>) = {}
         /\ <<c>> \in Seq(S) /\ Listed(<<c>>) = {c}
  BY DEF Listed

LEMMA CalledElements ==
  ASSUME NEW route
  PROVE  /\ Checklist!Called(route) \in Seq(Checklist!AllCodes)
         /\ Listed(Checklist!Called(route)) = CodesCalled(route)
  <1> DEFINE Codes == Checklist!AllCodes
             s1 == <<"REVIEW_CONTEXT", "EVIDENCE_INTEGRITY">>
             s2 == IF signals THEN <<"POLICY_SIGNALS">> ELSE <<>>
             s3 == IF Checklist!Missing(route) THEN <<Checklist!Gap>> ELSE <<>>
             s4 == IF Checklist!Suggestions > 0 THEN <<"FACT_VERIFICATION">> ELSE <<>>
             s5 == IF contradictions > 0 THEN <<"CONTRADICTIONS">> ELSE <<>>
             s6 == <<"DECISION_RATIONALE">>
             c2 == IF signals THEN {"POLICY_SIGNALS"} ELSE {}
             c3 == IF Checklist!Missing(route) THEN {Checklist!Gap} ELSE {}
             c5 == IF contradictions > 0 THEN {"CONTRADICTIONS"} ELSE {}
  <1>1. Checklist!Called(route) = s1 \o s2 \o s3 \o s4 \o s5 \o s6
    BY DEF Checklist!Called
  <1>2. /\ "POLICY_SIGNALS" \in Codes /\ Checklist!Gap \in Codes /\ "CONTRADICTIONS" \in Codes
        /\ "DECISION_RATIONALE" \in Codes /\ "REVIEW_CONTEXT" \in Codes /\ "EVIDENCE_INTEGRITY" \in Codes
    BY DEF Checklist!AllCodes
  <1>3. s1 \in Seq(Codes) /\ Listed(s1) = {"REVIEW_CONTEXT", "EVIDENCE_INTEGRITY"}
    BY <1>2 DEF Listed
  <1>4. s4 = <<>>
    BY DEF Checklist!Suggestions
  <1> HIDE DEF Codes
  <1>5. s2 \in Seq(Codes) /\ Listed(s2) = c2
    <2>1. CASE signals
      BY <1>2, <2>1, ListedAtMostOne
    <2>2. CASE ~signals
      BY <1>2, <2>2, ListedAtMostOne
    <2> QED
      BY <2>1, <2>2
  <1>6. s3 \in Seq(Codes) /\ Listed(s3) = c3
    <2>1. CASE Checklist!Missing(route)
      BY <1>2, <2>1, ListedAtMostOne
    <2>2. CASE ~Checklist!Missing(route)
      BY <1>2, <2>2, ListedAtMostOne
    <2> QED
      BY <2>1, <2>2
  <1>7. s5 \in Seq(Codes) /\ Listed(s5) = c5
    <2>1. CASE contradictions > 0
      BY <1>2, <2>1, ListedAtMostOne
    <2>2. CASE ~(contradictions > 0)
      BY <1>2, <2>2, ListedAtMostOne
    <2> QED
      BY <2>1, <2>2
  <1>8. s6 \in Seq(Codes) /\ Listed(s6) = {"DECISION_RATIONALE"}
    BY <1>2, ListedAtMostOne
  <1>9. s4 \in Seq(Codes) /\ Listed(s4) = {}
    BY <1>2, <1>4, ListedAtMostOne
  <1> HIDE DEF s1, s2, s3, s4, s5, s6, c2, c3, c5
  <1>10. PICK l2 \in Seq(Codes) : l2 = s1 \o s2 /\ Listed(l2) = Listed(s1) \cup Listed(s2)
    BY <1>3, <1>5, ListedOfJoin
  <1>11. PICK l3 \in Seq(Codes) : l3 = l2 \o s3 /\ Listed(l3) = Listed(l2) \cup Listed(s3)
    BY <1>6, ListedOfJoin
  <1>12. PICK l4 \in Seq(Codes) : l4 = l3 \o s4 /\ Listed(l4) = Listed(l3) \cup Listed(s4)
    BY <1>9, ListedOfJoin
  <1>13. PICK l5 \in Seq(Codes) : l5 = l4 \o s5 /\ Listed(l5) = Listed(l4) \cup Listed(s5)
    BY <1>7, ListedOfJoin
  <1>14. PICK l6 \in Seq(Codes) : l6 = l5 \o s6 /\ Listed(l6) = Listed(l5) \cup Listed(s6)
    BY <1>8, ListedOfJoin
  <1>15. Listed(l6) = {"REVIEW_CONTEXT", "EVIDENCE_INTEGRITY"} \cup c2 \cup c3 \cup c5 \cup {"DECISION_RATIONALE"}
    BY <1>3, <1>5, <1>6, <1>7, <1>8, <1>9, <1>10, <1>11, <1>12, <1>13, <1>14
  <1>16. CodesCalled(route) = {"REVIEW_CONTEXT", "EVIDENCE_INTEGRITY"} \cup c2 \cup c3 \cup c5
                              \cup {"DECISION_RATIONALE"}
    <2>1. CodesCalled(route) = {"REVIEW_CONTEXT", "EVIDENCE_INTEGRITY", "DECISION_RATIONALE"} \cup c2 \cup c3 \cup c5
      BY DEF CodesCalled, c2, c3, c5
    <2> QED
      BY <2>1
  <1> QED
    BY <1>1, <1>10, <1>11, <1>12, <1>13, <1>14, <1>15, <1>16 DEF Codes

\* The list which a route finds or builds.
LEMMA ListIsEnsured ==
  ASSUME ChecklistInvariant, NEW route \in {"checklist", "readiness"}
  PROVE  /\ Checklist!Ensured(route) \in Seq(ChecklistItem) /\ Checklist!Ensured(route) # NoValue
         /\ items # NoValue => Checklist!Ensured(route) = items
         /\ persistent => Checklist!Ensured(route) = <<>>
         /\ ~persistent /\ items = NoValue => Checklist!Codes(Checklist!Ensured(route)) = CodesCalled(route)
  <1>1. CASE items # NoValue
    BY <1>1 DEF Checklist!Ensured, ChecklistInvariant
  <1>2. CASE items = NoValue /\ persistent
    <2>1. Checklist!Ensured(route) = <<>> /\ <<>> \in Seq(ChecklistItem)
      BY <1>2 DEF Checklist!Ensured, ChecklistInvariant
    <2> QED
      BY <1>2, <2>1, ChecklistAssumption
  <1>3. CASE items = NoValue /\ ~persistent
    <2>1. PICK called \in Seq(Checklist!AllCodes) : called = Checklist!Called(route)
      BY CalledElements
    <2>2. PICK list : list = [n \in DOMAIN called |-> [code |-> called[n], completed |-> FALSE]]
      OBVIOUS
    <2>3. Checklist!Ensured(route) = list
      BY <1>3, <2>1, <2>2 DEF Checklist!Ensured
    <2>4. DOMAIN called = 1..Len(called) /\ Len(called) \in Nat /\ DOMAIN list = 1..Len(called)
      BY <2>1, <2>2
    <2>5. \A n \in 1..Len(called) : list[n] \in ChecklistItem /\ list[n].code = called[n]
      BY <2>1, <2>2, <2>4 DEF ChecklistItem
    <2>6. list \in Seq(ChecklistItem)
      BY <2>2, <2>4, <2>5
    <2>7. Checklist!Codes(list) = CodesCalled(route)
      <3>1. {called[n] : n \in 1..Len(called)} = CodesCalled(route)
        BY <2>1, <2>4, CalledElements DEF Listed
      <3> QED
        BY <2>4, <2>5, <3>1 DEF Checklist!Codes
    <2> QED
      BY <1>3, <2>3, <2>6, <2>7, ChecklistAssumption
  <1> QED
    BY <1>1, <1>2, <1>3

LEMMA ChecklistInitially == ASSUME Checklist!Init PROVE ChecklistInvariant
  BY DEF Checklist!Init, ChecklistInvariant, Checklist!ReadyIsReviewed, Checklist!NotShown

\* Asking leaves a list which has what is called for, but what is excused.
LEMMA EnsuredCovers ==
  ASSUME ChecklistInvariant, NEW route \in {"checklist", "readiness"}, ~persistent,
         Checklist!AskedFirst(route), UNCHANGED <<signals, contradictions, grown>>,
         NEW code \in CodesCalled("checklist")
  PROVE  code \in Checklist!Codes(Checklist!Ensured(route)) \/ Excused(code)'
  <1>1. CASE items # NoValue
    BY <1>1, ListIsEnsured DEF ChecklistInvariant, Excused, Checklist!AskedFirst
  <1>2. CASE items = NoValue
    <2>1. first' = route /\ Checklist!Codes(Checklist!Ensured(route)) = CodesCalled(route)
      BY <1>2, ListIsEnsured DEF Checklist!AskedFirst
    <2>2. code \in CodesCalled(route) \/ (code = Checklist!Gap /\ route = "readiness")
      BY DEF CodesCalled, Checklist!Missing
    <2> QED
      BY <2>1, <2>2 DEF Excused
  <1> QED
    BY <1>1, <1>2

LEMMA ShowKeeps ==
  ASSUME ChecklistInvariant, NEW route \in {"checklist", "readiness"}, Checklist!Show(route)
  PROVE  ChecklistInvariant'
  <1>1. PICK list : list = Checklist!Ensured(route)
    OBVIOUS
  <1>2. /\ items' = list /\ shown' = [ready |-> Checklist!Ready(list), undone |-> Checklist!Undone(list)]
        /\ Checklist!AskedFirst(route) /\ UNCHANGED <<persistent, signals, contradictions, itemRows, grown>>
    BY <1>1 DEF Checklist!Show
  <1>3. list \in Seq(ChecklistItem) /\ list # NoValue /\ (persistent => list = <<>>)
    BY <1>1, ListIsEnsured
  <1>4. CodesCalled("checklist")' = CodesCalled("checklist")
    BY <1>2 DEF CodesCalled, Checklist!Missing
  <1>5. ~persistent => \A code \in CodesCalled("checklist") :
                          code \in Checklist!Codes(list) \/ Excused(code)'
    BY <1>1, <1>2, EnsuredCovers
  <1>6. ~persistent => \A code \in Checklist!Undone(list) :
                          code \in CodesCalled("checklist")
                          /\ code \notin {list[n].code : n \in DOMAIN list \ Checklist!Open(list)}
    BY CalledElements DEF Checklist!Undone, Listed
  <1>7. Checklist!ReadyIsReviewed'
    <2>1. SUFFICES ASSUME shown'.ready, ~persistent, NEW code \in shown'.undone PROVE Excused(code)'
      BY <1>2 DEF Checklist!ReadyIsReviewed, Excused
    <2>2. Checklist!Open(list) = {} /\ code \in Checklist!Undone(list)
      BY <1>2, <2>1 DEF Checklist!Ready
    <2>3. code \in CodesCalled("checklist") /\ code \notin Checklist!Codes(list)
      BY <1>6, <2>1, <2>2 DEF Checklist!Codes
    <2> QED
      BY <1>5, <2>1, <2>3
  <1>8. Checklist!Codes(items)' = Checklist!Codes(list)
    BY <1>2 DEF Checklist!Codes
  <1> QED
    BY <1>2, <1>3, <1>4, <1>5, <1>7, <1>8 DEF ChecklistInvariant

LEMMA UpdateItemKeeps ==
  ASSUME ChecklistInvariant, NEW code \in Checklist!AllCodes, NEW completed \in BOOLEAN,
         Checklist!UpdateItem(code, completed)
  PROVE  ChecklistInvariant'
  <1>1. PICK list : list = Checklist!Ensured("checklist")
    OBVIOUS
  <1>2. list \in Seq(ChecklistItem) /\ list # NoValue /\ (persistent => list = <<>>)
        /\ (items # NoValue => list = items)
    BY <1>1, ListIsEnsured
  <1>3. PICK next : next = [n \in DOMAIN list |-> IF list[n].code = code
                                THEN [list[n] EXCEPT !.completed = completed] ELSE list[n]]
    OBVIOUS
  <1>4. /\ items' = next /\ Checklist!AskedFirst("checklist")
        /\ UNCHANGED <<persistent, signals, contradictions, shown, grown>>
        /\ itemRows' = itemRows \/ (persistent /\ code \in Checklist!Codes(list))
    BY <1>1, <1>3 DEF Checklist!UpdateItem
  <1>5. itemRows' = itemRows
    BY <1>2, <1>4 DEF Checklist!Codes
  <1>6. DOMAIN list = 1..Len(list) /\ Len(list) \in Nat /\ DOMAIN next = 1..Len(list)
    BY <1>2, <1>3
  <1>7. \A n \in 1..Len(list) : next[n] \in ChecklistItem /\ next[n].code = list[n].code
    <2>1. \A n \in 1..Len(list) : list[n] \in ChecklistItem
      BY <1>2, <1>6
    <2>2. \A r \in ChecklistItem : [r EXCEPT !.completed = completed] \in ChecklistItem
                           /\ [r EXCEPT !.completed = completed].code = r.code
      BY DEF ChecklistItem
    <2>3. \A n \in 1..Len(list) : next[n] = list[n] \/ next[n] = [list[n] EXCEPT !.completed = completed]
      BY <1>3, <1>6
    <2> QED
      BY <2>1, <2>2, <2>3
  <1>8. next \in Seq(ChecklistItem)
    BY <1>3, <1>6, <1>7
  <1>9. persistent => next = <<>>
    BY <1>2, <1>3
  <1>10. Checklist!Codes(items)' = Checklist!Codes(list)
    BY <1>4, <1>6, <1>7 DEF Checklist!Codes
  <1>11. CodesCalled("checklist")' = CodesCalled("checklist")
    BY <1>4 DEF CodesCalled, Checklist!Missing
  <1>12. ~persistent => \A c \in CodesCalled("checklist") : c \in Checklist!Codes(list) \/ Excused(c)'
    BY <1>1, <1>4, EnsuredCovers
  <1>13. Checklist!ReadyIsReviewed'
    BY <1>4 DEF ChecklistInvariant, Checklist!ReadyIsReviewed, Checklist!AskedFirst
  <1>14. next # NoValue
    BY <1>8, ChecklistAssumption
  <1> QED
    BY <1>4, <1>5, <1>8, <1>9, <1>10, <1>11, <1>12, <1>13, <1>14 DEF ChecklistInvariant

LEMMA AnalyseKeeps ==
  ASSUME ChecklistInvariant, NEW n \in 0..MaxContradictions, Checklist!Analyse(n) PROVE ChecklistInvariant'
  <1>1. /\ contradictions' = n /\ n \in Nat
        /\ grown' = (grown \/ (items # NoValue /\ contradictions = 0))
        /\ UNCHANGED <<persistent, signals, items, itemRows, shown, first>>
    BY DEF Checklist!Analyse
  <1>2. grown => grown'
    BY <1>1, Zenon
  <1>3. items # NoValue /\ contradictions = 0 => grown'
    BY <1>1, Zenon
  <1>4. Checklist!Codes(items)' = Checklist!Codes(items)
    BY <1>1 DEF Checklist!Codes
  <1>5. \A code \in CodesCalled("checklist")' :
          code \in CodesCalled("checklist") \/ (code = "CONTRADICTIONS" /\ contradictions = 0)
    BY <1>1 DEF CodesCalled, Checklist!Missing, ChecklistInvariant
  <1>6. \A code : Excused(code) => Excused(code)'
    BY <1>1, <1>2 DEF Excused
  <1>7. ~persistent /\ items # NoValue =>
          \A code \in CodesCalled("checklist")' : code \in Checklist!Codes(items) \/ Excused(code)'
    BY <1>3, <1>5, <1>6 DEF ChecklistInvariant, Excused
  <1>8. Checklist!ReadyIsReviewed'
    BY <1>1, <1>2 DEF ChecklistInvariant, Checklist!ReadyIsReviewed
  <1> QED
    BY <1>1, <1>4, <1>7, <1>8 DEF ChecklistInvariant

LEMMA ChecklistStep ==
  ASSUME ChecklistInvariant, [Checklist!Next]_(Checklist!vars) PROVE ChecklistInvariant'
  <1>1. CASE Checklist!Restart
    BY <1>1 DEF Checklist!Restart, ChecklistInvariant, Checklist!ReadyIsReviewed, Checklist!NotShown
  <1>2. CASE UNCHANGED Checklist!vars
    <2>1. Checklist!Codes(items)' = Checklist!Codes(items) /\ CodesCalled("checklist")' = CodesCalled("checklist")
      BY <1>2 DEF Checklist!vars, Checklist!Codes, CodesCalled, Checklist!Missing
    <2> QED
      BY <1>2, <2>1 DEF Checklist!vars, ChecklistInvariant, Checklist!ReadyIsReviewed, Excused
  <1> QED
    BY <1>1, <1>2, ShowKeeps, UpdateItemKeeps, AnalyseKeeps DEF Checklist!Next

LEMMA ChecklistSafety ==
  ASSUME ChecklistInvariant PROVE Checklist!ReadyIsReviewed /\ Checklist!NothingIsAsked
  BY DEF ChecklistInvariant, Checklist!NothingIsAsked

-----------------------------------------------------------------------------
(* CaseIntake: what a request holds between its steps.                     *)

\* A review which is in the table, or whose insertion failed or is under way.
Known(r) ==
  \/ r \in reviewRows \cup failed
  \/ \E t \in Requests : Intake!At(t, "upserting") /\ intakeAct[t].review = r

Inserting(s, c) == \E t \in Requests :
  Intake!At(t, "inserting") /\ intakeAct[t].server = s /\ intakeAct[t].case = c

RequestFits(t) ==
  /\ ~Intake!At(t, "idle") => intakeAct[t].server \in Servers
  /\ Intake!At(t, "entering") =>
       /\ Known(intakeAct[t].review) /\ intakeAct[t].review \in Reviews
       /\ intakeAct[t].key \in CaseKeys \cup {NoValue} /\ intakeAct[t].body \in Bodies
  /\ Intake!At(t, "inserting") =>
       /\ intakeAct[t].case \in IntakeCases /\ Known(intakeAct[t].case.review)
       /\ intakeAct[t].key \in CaseKeys \cup {NoValue} /\ intakeAct[t].body \in Bodies
       /\ intakeAct[t].key # NoValue =>
            /\ locked[intakeAct[t].server] = t
            /\ idempotency[intakeAct[t].server][intakeAct[t].key] = NoValue

IntakeTyped ==
  /\ intakeAct = [t \in Requests |-> intakeAct[t]]
  /\ reviews = [s \in Servers |-> reviews[s]] /\ cases = [s \in Servers |-> cases[s]]
  /\ locked = [s \in Servers |-> locked[s]]
  /\ idempotency \in [Servers -> [CaseKeys -> Answers \cup {NoValue}]]
  /\ made \in Nat
  /\ answered \subseteq [server : Servers, key : CaseKeys \cup {NoValue}, case : IntakeCases]

AnswersHold ==
  \A a \in answered :
    /\ a.case \in caseRows
    /\ a.key # NoValue => idempotency[a.server][a.key] # NoValue /\ idempotency[a.server][a.key].case = a.case

KeysHold == \A s \in Servers, k \in CaseKeys :
  idempotency[s][k] # NoValue => idempotency[s][k].case \in caseRows

CopiesHold == \A s \in Servers : \A c \in cases[s] : c \in caseRows \cup failed \/ Inserting(s, c)

IntakeInvariant ==
  /\ IntakeTyped
  /\ \A t \in Requests : RequestFits(t)
  /\ \A s \in Servers : \A r \in reviews[s] : Known(r)
  /\ \A c, d \in caseRows : c.review = d.review => c = d
  /\ \A c \in caseRows : Known(c.review)
  /\ AnswersHold /\ KeysHold /\ CopiesHold

LEMMA IntakeInitially == ASSUME Intake!Init PROVE IntakeInvariant
  <1> USE DEF Intake!Init
  <1>1. \A t \in Requests : intakeAct[t] = Intake!Idle /\ Intake!Idle.at = "idle"
    BY DEF Intake!Idle
  <1>2. IntakeTyped
    BY DEF IntakeTyped
  <1>3. \A t \in Requests : RequestFits(t)
    BY <1>1 DEF RequestFits, Intake!At
  <1>4. AnswersHold /\ KeysHold /\ CopiesHold
    BY DEF AnswersHold, KeysHold, CopiesHold
  <1> QED
    BY <1>2, <1>3, <1>4 DEF IntakeInvariant

\* A request moves on: what was known stays so.
LEMMA KnownStays ==
  ASSUME NEW t \in Requests, NEW a, intakeAct' = [intakeAct EXCEPT ![t] = a], IntakeTyped,
         reviewRows \cup failed \subseteq reviewRows' \cup failed',
         Intake!At(t, "upserting") => intakeAct[t].review \in reviewRows' \cup failed',
         NEW r, Known(r)
  PROVE  Known(r)'
  <1>1. \A u \in Requests : u # t => intakeAct'[u] = intakeAct[u]
    BY DEF IntakeTyped
  <1> QED
    BY <1>1 DEF Known, Intake!At

LEMMA OthersFit ==
  ASSUME IntakeInvariant, NEW t \in Requests, NEW a, intakeAct' = [intakeAct EXCEPT ![t] = a],
         reviewRows \cup failed \subseteq reviewRows' \cup failed',
         Intake!At(t, "upserting") => intakeAct[t].review \in reviewRows' \cup failed',
         UNCHANGED <<locked, idempotency>>,
         NEW u \in Requests, u # t
  PROVE  RequestFits(u)'
  <1>1. intakeAct'[u] = intakeAct[u] /\ RequestFits(u)
    BY DEF IntakeInvariant, IntakeTyped
  <1>2. \A r : Known(r) => Known(r)'
    BY KnownStays DEF IntakeInvariant
  <1> QED
    BY <1>1, <1>2 DEF RequestFits, Intake!At

\* A request which only reads, or deals with reviews.
LEMMA ReviewsMove ==
  ASSUME IntakeInvariant, NEW t \in Requests, NEW a, intakeAct' = [intakeAct EXCEPT ![t] = a],
         reviewRows \cup failed \subseteq reviewRows' \cup failed',
         Intake!At(t, "upserting") => intakeAct[t].review \in reviewRows' \cup failed',
         ~Intake!At(t, "inserting"), a.at # "inserting",
         RequestFits(t)',
         reviews' = [s \in Servers |-> reviews'[s]],
         \A s \in Servers : \A r \in reviews'[s] : Known(r) \/ Known(r)',
         failed \subseteq failed',
         UNCHANGED <<caseRows, cases, idempotency, locked, made, answered>>
  PROVE  IntakeInvariant'
  <1>1. intakeAct'[t] = a /\ \A u \in Requests : u # t => intakeAct'[u] = intakeAct[u]
    BY DEF IntakeInvariant, IntakeTyped
  <1>2. \A r : Known(r) => Known(r)'
    BY KnownStays DEF IntakeInvariant
  <1>3. \A u \in Requests : RequestFits(u)'
    BY OthersFit
  <1>4. IntakeTyped'
    BY DEF IntakeInvariant, IntakeTyped
  <1>5. AnswersHold' /\ KeysHold'
    BY DEF IntakeInvariant, AnswersHold, KeysHold
  <1>6. \A s \in Servers : \A c : Inserting(s, c) => Inserting(s, c)'
    BY <1>1 DEF Inserting, Intake!At
  <1>7. CopiesHold'
    BY <1>6 DEF IntakeInvariant, CopiesHold
  <1>8. \A s \in Servers : \A r \in reviews'[s] : Known(r)'
    BY <1>2
  <1>9. \A c \in caseRows : Known(c.review)'
    BY <1>2 DEF IntakeInvariant
  <1>10. \A c, d \in caseRows : c.review = d.review => c = d
    BY DEF IntakeInvariant
  <1> QED
    BY <1>3, <1>4, <1>5, <1>7, <1>8, <1>9, <1>10 DEF IntakeInvariant

LEMMA PostReviewKeeps ==
  ASSUME IntakeInvariant, NEW t \in Requests, NEW s \in Servers, NEW r \in Reviews, Intake!PostReview(t, s, r)
  PROVE  IntakeInvariant'
  <1>1. PICK a : a = [at |-> "upserting", server |-> s, review |-> r]
    OBVIOUS
  <1>2. a.at = "upserting" /\ a.server = s /\ a.review = r
    BY <1>1
  <1>3. /\ intakeAct' = [intakeAct EXCEPT ![t] = a] /\ intakeAct[t].at = "idle"
        /\ reviews' = [reviews EXCEPT ![s] = @ \cup {r}]
        /\ UNCHANGED <<reviewRows, failed, caseRows, cases, idempotency, locked, made, answered>>
    BY <1>1 DEF Intake!PostReview, Intake!Go, Intake!At
  <1>4. intakeAct'[t] = a
    BY <1>3 DEF IntakeInvariant, IntakeTyped
  <1>5. RequestFits(t)'
    BY <1>2, <1>4 DEF RequestFits, Intake!At
  <1>6. Known(r)'
    BY <1>2, <1>4 DEF Known, Intake!At
  <1>7. \A z \in Servers : \A q \in reviews'[z] : q \in reviews[z] \/ q = r
    BY <1>3 DEF IntakeInvariant, IntakeTyped
  <1>8. \A z \in Servers : \A q \in reviews'[z] : Known(q) \/ Known(q)'
    BY <1>6, <1>7 DEF IntakeInvariant
  <1>9. reviews' = [z \in Servers |-> reviews'[z]]
    BY <1>3 DEF IntakeInvariant, IntakeTyped
  <1> QED
    BY <1>2, <1>3, <1>5, <1>8, <1>9, ReviewsMove DEF Intake!At

LEMMA UpsertReviewKeeps ==
  ASSUME IntakeInvariant, NEW t \in Requests, Intake!UpsertReview(t) PROVE IntakeInvariant'
  <1>1. PICK a : a = Intake!Idle
    OBVIOUS
  <1>2. a.at = "idle"
    BY <1>1 DEF Intake!Idle
  <1>3. /\ intakeAct' = [intakeAct EXCEPT ![t] = a] /\ intakeAct[t].at = "upserting"
        /\ reviewRows \subseteq reviewRows' /\ failed \subseteq failed'
        /\ intakeAct[t].review \in reviewRows' \cup failed'
        /\ UNCHANGED <<reviews, caseRows, cases, idempotency, locked, made, answered>>
    BY <1>1 DEF Intake!UpsertReview, Intake!Go, Intake!At
  <1>4. intakeAct'[t] = a
    BY <1>3 DEF IntakeInvariant, IntakeTyped
  <1>5. RequestFits(t)'
    BY <1>2, <1>4 DEF RequestFits, Intake!At
  <1>6. reviews' = [z \in Servers |-> reviews'[z]] /\ \A z \in Servers : \A q \in reviews'[z] : Known(q)
    BY <1>3 DEF IntakeInvariant, IntakeTyped
  <1> QED
    BY <1>2, <1>3, <1>5, <1>6, ReviewsMove DEF Intake!At

\* A process reads reviews and cases of the tables.
LEMMA ReadingKeeps ==
  ASSUME IntakeInvariant, NEW s \in Servers, NEW R \in SUBSET reviewRows, NEW C \in SUBSET caseRows,
         reviews' = [reviews EXCEPT ![s] = @ \cup R], cases' = [cases EXCEPT ![s] = @ \cup C],
         UNCHANGED <<reviewRows, caseRows, idempotency, locked, intakeAct, made, answered, failed>>
  PROVE  IntakeInvariant'
  <1>1. /\ reviews' = [z \in Servers |-> reviews'[z]] /\ cases' = [z \in Servers |-> cases'[z]]
        /\ \A z \in Servers : reviews'[z] \subseteq reviews[z] \cup reviewRows
        /\ \A z \in Servers : cases'[z] \subseteq cases[z] \cup caseRows
    BY DEF IntakeInvariant, IntakeTyped
  <1>2. \A r : Known(r)' <=> Known(r)
    BY DEF Known, Intake!At
  <1>3. \A z, c : Inserting(z, c)' <=> Inserting(z, c)
    BY DEF Inserting, Intake!At
  <1>4. \A r \in reviewRows : Known(r)
    BY DEF Known
  <1>5. \A z \in Servers : \A r \in reviews'[z] : Known(r)'
    BY <1>1, <1>2, <1>4 DEF IntakeInvariant
  <1>6. CopiesHold'
    BY <1>1, <1>3 DEF IntakeInvariant, CopiesHold
  <1>7. \A t \in Requests : RequestFits(t)'
    BY <1>2 DEF IntakeInvariant, RequestFits, Intake!At
  <1>8. IntakeTyped' /\ AnswersHold' /\ KeysHold'
    BY <1>1 DEF IntakeInvariant, IntakeTyped, AnswersHold, KeysHold
  <1>9. \A c \in caseRows' : Known(c.review)'
    BY <1>2 DEF IntakeInvariant
  <1>10. \A c, d \in caseRows' : c.review = d.review => c = d
    BY DEF IntakeInvariant
  <1> QED
    BY <1>5, <1>6, <1>7, <1>8, <1>9, <1>10 DEF IntakeInvariant

LEMMA PostCaseKeeps ==
  ASSUME IntakeInvariant, NEW t \in Requests, NEW s \in Servers, NEW r \in Reviews,
         NEW k \in CaseKeys \cup {NoValue}, NEW b \in Bodies, Intake!PostCase(t, s, r, k, b)
  PROVE  IntakeInvariant'
  <1>1. PICK a : a = [at |-> "entering", server |-> s, review |-> r, key |-> k, body |-> b]
    OBVIOUS
  <1>2. a.at = "entering" /\ a.server = s /\ a.review = r /\ a.key = k /\ a.body = b
    BY <1>1
  <1>3. /\ intakeAct' = [intakeAct EXCEPT ![t] = a] /\ intakeAct[t].at = "idle"
        /\ reviews' = [reviews EXCEPT ![s] = @ \cup {r}] /\ r \in reviews[s] \cup reviewRows
        /\ UNCHANGED <<reviewRows, failed, caseRows, cases, idempotency, locked, made, answered>>
    BY <1>1 DEF Intake!PostCase, Intake!Go, Intake!At
  <1>4. intakeAct'[t] = a
    BY <1>3 DEF IntakeInvariant, IntakeTyped
  <1>5. Known(r)
    BY <1>3 DEF IntakeInvariant, Known
  <1>6. Known(r)'
    BY <1>3, <1>5, KnownStays DEF IntakeInvariant, Intake!At
  <1>7. RequestFits(t)'
    BY <1>2, <1>4, <1>6 DEF RequestFits, Intake!At
  <1>8. \A z \in Servers : \A q \in reviews'[z] : q \in reviews[z] \/ q = r
    BY <1>3 DEF IntakeInvariant, IntakeTyped
  <1>9. \A z \in Servers : \A q \in reviews'[z] : Known(q) \/ Known(q)'
    BY <1>6, <1>8 DEF IntakeInvariant
  <1>10. reviews' = [z \in Servers |-> reviews'[z]]
    BY <1>3 DEF IntakeInvariant, IntakeTyped
  <1> QED
    BY <1>2, <1>3, <1>7, <1>9, <1>10, ReviewsMove DEF Intake!At

\* A key's answer is given again.
LEMMA ReplayKeeps ==
  ASSUME IntakeInvariant, NEW t \in Requests, Intake!Replay(t) PROVE IntakeInvariant'
  <1>1. PICK a : a = Intake!Idle
    OBVIOUS
  <1>2. a.at = "idle"
    BY <1>1 DEF Intake!Idle
  <1>3. PICK s, k : s = intakeAct[t].server /\ k = intakeAct[t].key
    OBVIOUS
  <1>4. /\ intakeAct' = [intakeAct EXCEPT ![t] = a] /\ intakeAct[t].at = "entering"
        /\ k # NoValue /\ idempotency[s][k] # NoValue
        /\ \/ answered' = answered \cup {[server |-> s, key |-> k, case |-> idempotency[s][k].case]}
           \/ answered' = answered
        /\ UNCHANGED <<reviewRows, failed, reviews, caseRows, cases, idempotency, locked, made>>
    BY <1>1, <1>3 DEF Intake!Replay, Intake!Go, Intake!At
  <1>5. s \in Servers /\ k \in CaseKeys
    BY <1>3, <1>4 DEF IntakeInvariant, RequestFits, Intake!At
  <1>6. PICK c : c = idempotency[s][k].case
    OBVIOUS
  <1>7. c \in IntakeCases /\ c \in caseRows
    BY <1>4, <1>5, <1>6 DEF IntakeInvariant, IntakeTyped, KeysHold, Answers
  <1>8. PICK given : given = [server |-> s, key |-> k, case |-> c]
    OBVIOUS
  <1>9. /\ given \in [server : Servers, key : CaseKeys \cup {NoValue}, case : IntakeCases]
        /\ given.server = s /\ given.key = k /\ given.case = c
    BY <1>5, <1>7, <1>8
  <1>10. answered' \subseteq answered \cup {given}
    BY <1>4, <1>6, <1>8
  <1>11. intakeAct'[t] = a /\ \A u \in Requests : u # t => intakeAct'[u] = intakeAct[u]
    BY <1>4 DEF IntakeInvariant, IntakeTyped
  <1>12. \A r : Known(r) => Known(r)'
    BY <1>4, KnownStays DEF IntakeInvariant, Intake!At
  <1>13. RequestFits(t)'
    BY <1>2, <1>11 DEF RequestFits, Intake!At
  <1>14. \A u \in Requests : RequestFits(u)'
    BY <1>4, <1>13, OthersFit DEF Intake!At
  <1>15. IntakeTyped'
    BY <1>4, <1>9, <1>10 DEF IntakeInvariant, IntakeTyped
  <1>16. AnswersHold'
    BY <1>4, <1>6, <1>7, <1>9, <1>10 DEF IntakeInvariant, AnswersHold
  <1>17. KeysHold'
    BY <1>4 DEF IntakeInvariant, KeysHold
  <1>18. \A z \in Servers : \A d : Inserting(z, d) => Inserting(z, d)'
    BY <1>4, <1>11 DEF Inserting, Intake!At
  <1>19. CopiesHold'
    BY <1>4, <1>18 DEF IntakeInvariant, CopiesHold
  <1>20. (\A z \in Servers : \A r \in reviews[z] : Known(r))' /\ \A d \in caseRows' : Known(d.review)'
    BY <1>4, <1>12 DEF IntakeInvariant
  <1>21. \A d, e \in caseRows' : d.review = e.review => d = e
    BY <1>4 DEF IntakeInvariant
  <1> QED
    BY <1>14, <1>15, <1>16, <1>17, <1>19, <1>20, <1>21 DEF IntakeInvariant

\* A process has a new case, and with a key the lock, until it is inserted.
LEMMA CreateKeeps ==
  ASSUME IntakeInvariant, NEW t \in Requests, Intake!Create(t) PROVE IntakeInvariant'
  <1>1. PICK s, k, b, r : s = intakeAct[t].server /\ k = intakeAct[t].key /\ b = intakeAct[t].body /\ r = intakeAct[t].review
    OBVIOUS
  <1>2. PICK c : c = [id |-> made + 1, review |-> r]
    OBVIOUS
  <1>3. PICK a : a = [at |-> "inserting", server |-> s, key |-> k, body |-> b, case |-> c]
    OBVIOUS
  <1>4. a.at = "inserting" /\ a.server = s /\ a.key = k /\ a.body = b /\ a.case = c
    BY <1>3
  <1>5. /\ intakeAct' = [intakeAct EXCEPT ![t] = a] /\ intakeAct[t].at = "entering"
        /\ Intake!Free(s, k) /\ (k # NoValue => idempotency[s][k] = NoValue)
        /\ made' = made + 1 /\ cases' = [cases EXCEPT ![s] = @ \cup {c}]
        /\ locked' = IF k = NoValue THEN locked ELSE [locked EXCEPT ![s] = t]
        /\ UNCHANGED <<reviewRows, failed, reviews, caseRows, idempotency, answered>>
    BY <1>1, <1>2, <1>3 DEF Intake!Create, Intake!Go, Intake!At
  <1>6. s \in Servers /\ k \in CaseKeys \cup {NoValue} /\ b \in Bodies /\ r \in Reviews /\ Known(r)
    BY <1>1, <1>5 DEF IntakeInvariant, RequestFits, Intake!At
  <1>7. c \in IntakeCases /\ c.review = r
    BY <1>2, <1>6 DEF IntakeCases, IntakeInvariant, IntakeTyped
  <1>8. intakeAct'[t] = a /\ \A u \in Requests : u # t => intakeAct'[u] = intakeAct[u]
    BY <1>5 DEF IntakeInvariant, IntakeTyped
  <1>9. \A q : Known(q) => Known(q)'
    BY <1>5, KnownStays DEF IntakeInvariant, Intake!At
  <1>10. RequestFits(t)'
    <2>1. k # NoValue => locked'[s] = t /\ idempotency'[s][k] = NoValue
      BY <1>5, <1>6 DEF IntakeInvariant, IntakeTyped
    <2> QED
      BY <1>4, <1>6, <1>7, <1>8, <1>9, <2>1 DEF RequestFits, Intake!At
  <1>11. ASSUME NEW u \in Requests, u # t PROVE RequestFits(u)'
    <2>1. intakeAct'[u] = intakeAct[u] /\ RequestFits(u)
      BY <1>8, <1>11 DEF IntakeInvariant
    <2>2. Intake!At(u, "inserting") /\ intakeAct[u].key # NoValue => locked'[intakeAct[u].server] = u
      BY <1>5, <1>6, <2>1, IntakeAssumption DEF RequestFits, Intake!Free, IntakeInvariant, IntakeTyped, Intake!At
    <2> QED
      BY <1>5, <1>9, <2>1, <2>2 DEF RequestFits, Intake!At
  <1>12. IntakeTyped'
    <2>1. made' \in Nat /\ locked' = [z \in Servers |-> locked'[z]]
      BY <1>5 DEF IntakeInvariant, IntakeTyped
    <2> QED
      BY <1>5, <2>1 DEF IntakeInvariant, IntakeTyped
  <1>13. AnswersHold' /\ KeysHold'
    BY <1>5 DEF IntakeInvariant, AnswersHold, KeysHold
  <1>14. CopiesHold'
    <2>1. \A z \in Servers : \A d : Inserting(z, d) => Inserting(z, d)'
      BY <1>5, <1>8 DEF Inserting, Intake!At
    <2>2. Inserting(s, c)'
      BY <1>4, <1>8 DEF Inserting, Intake!At
    <2>3. \A z \in Servers : \A d \in cases'[z] : d \in cases[z] \/ (z = s /\ d = c)
      BY <1>5 DEF IntakeInvariant, IntakeTyped
    <2> QED
      BY <1>5, <2>1, <2>2, <2>3 DEF IntakeInvariant, CopiesHold
  <1>15. (\A z \in Servers : \A q \in reviews[z] : Known(q))' /\ \A d \in caseRows' : Known(d.review)'
    BY <1>5, <1>9 DEF IntakeInvariant
  <1>16. \A d, e \in caseRows' : d.review = e.review => d = e
    BY <1>5 DEF IntakeInvariant
  <1> QED
    BY <1>10, <1>11, <1>12, <1>13, <1>14, <1>15, <1>16 DEF IntakeInvariant

\* The case is inserted and answered, or its insertion fails.
LEMMA InsertKeeps ==
  ASSUME IntakeInvariant, NEW t \in Requests, Intake!Insert(t) PROVE IntakeInvariant'
  <1>1. PICK s, k, b, c : s = intakeAct[t].server /\ k = intakeAct[t].key /\ b = intakeAct[t].body /\ c = intakeAct[t].case
    OBVIOUS
  <1>2. PICK a : a = Intake!Idle
    OBVIOUS
  <1>3. a.at = "idle"
    BY <1>2 DEF Intake!Idle
  <1>4. /\ intakeAct' = [intakeAct EXCEPT ![t] = a] /\ intakeAct[t].at = "inserting"
        /\ locked' = IF k = NoValue THEN locked ELSE [locked EXCEPT ![s] = NoValue]
        /\ UNCHANGED <<reviewRows, reviews, cases, made>>
    BY <1>1, <1>2 DEF Intake!Insert, Intake!Go, Intake!At
  <1>5. /\ s \in Servers /\ c \in IntakeCases /\ Known(c.review) /\ k \in CaseKeys \cup {NoValue} /\ b \in Bodies
        /\ k # NoValue => locked[s] = t /\ idempotency[s][k] = NoValue
    BY <1>1, <1>4 DEF IntakeInvariant, RequestFits, Intake!At
  <1>6. PICK given : given = [server |-> s, key |-> k, case |-> c]
    OBVIOUS
  <1>7. PICK entry : entry = [body |-> b, case |-> c]
    OBVIOUS
  <1>8. /\ given \in [server : Servers, key : CaseKeys \cup {NoValue}, case : IntakeCases]
        /\ given.server = s /\ given.key = k /\ given.case = c
        /\ entry \in Answers /\ entry.case = c /\ entry # NoValue
    BY <1>5, <1>6, <1>7, IntakeAssumption DEF Answers
  <1>9. intakeAct'[t] = a /\ \A u \in Requests : u # t => intakeAct'[u] = intakeAct[u]
    BY <1>4 DEF IntakeInvariant, IntakeTyped
  <1>10. \/ /\ ~Intake!Refused(c) /\ caseRows' = caseRows \cup {c}
            /\ idempotency' = IF k = NoValue THEN idempotency ELSE [idempotency EXCEPT ![s][k] = entry]
            /\ answered' = answered \cup {given} /\ UNCHANGED failed
         \/ failed' = failed \cup {c} /\ UNCHANGED <<caseRows, idempotency, answered>>
    BY <1>1, <1>6, <1>7 DEF Intake!Insert
  <1>11. failed \subseteq failed' /\ caseRows \subseteq caseRows' /\ c \in caseRows' \cup failed'
    BY <1>10
  <1>12. \A q : Known(q) => Known(q)'
    BY <1>4, <1>11, KnownStays DEF IntakeInvariant, Intake!At
  <1>13. RequestFits(t)'
    BY <1>3, <1>9 DEF RequestFits, Intake!At
  <1>14. /\ \A z \in Servers, j \in CaseKeys : (z # s \/ j # k) => idempotency'[z][j] = idempotency[z][j]
         /\ idempotency' \in [Servers -> [CaseKeys -> Answers \cup {NoValue}]]
    BY <1>5, <1>8, <1>10 DEF IntakeInvariant, IntakeTyped
  <1>15. ASSUME NEW u \in Requests, u # t PROVE RequestFits(u)'
    <2>1. intakeAct'[u] = intakeAct[u] /\ RequestFits(u)
      BY <1>9, <1>15 DEF IntakeInvariant
    <2>2. CASE Intake!At(u, "inserting") /\ intakeAct[u].key # NoValue
      <3>1. PICK z, j : z = intakeAct[u].server /\ j = intakeAct[u].key
        OBVIOUS
      <3>2. z \in Servers /\ j \in CaseKeys /\ locked[z] = u /\ idempotency[z][j] = NoValue
        BY <2>1, <2>2, <3>1 DEF RequestFits, Intake!At
      <3>3. k # NoValue => z # s
        BY <1>5, <1>15, <3>2
      <3>4. locked'[z] = u
        BY <1>4, <3>2, <3>3 DEF IntakeInvariant, IntakeTyped
      <3>5. idempotency'[z][j] = NoValue
        <4>1. CASE k = NoValue
          BY <1>10, <3>2, <4>1
        <4>2. CASE k # NoValue
          BY <1>14, <3>2, <3>3, <4>2
        <4> QED
          BY <4>1, <4>2
      <3> QED
        BY <1>12, <2>1, <2>2, <3>1, <3>4, <3>5 DEF RequestFits, Intake!At
    <2>3. CASE ~(Intake!At(u, "inserting") /\ intakeAct[u].key # NoValue)
      BY <1>12, <2>1, <2>3 DEF RequestFits, Intake!At
    <2> QED
      BY <2>2, <2>3
  <1>16. IntakeTyped'
    <2>1. answered' \subseteq answered \cup {given}
      BY <1>10
    <2>2. intakeAct' = [u \in Requests |-> intakeAct'[u]] /\ locked' = [z \in Servers |-> locked'[z]]
      BY <1>4 DEF IntakeInvariant, IntakeTyped
    <2> QED
      BY <1>4, <1>8, <1>14, <2>1, <2>2 DEF IntakeInvariant, IntakeTyped
  <1>17. \A x \in answered : x.server \in Servers /\ x.key \in CaseKeys \cup {NoValue}
    BY DEF IntakeInvariant, IntakeTyped
  <1>18. \A x \in answered : x.key # NoValue => idempotency'[x.server][x.key] = idempotency[x.server][x.key]
    <2>1. \A x \in answered : x.key # NoValue => idempotency[x.server][x.key] # NoValue
      BY DEF IntakeInvariant, AnswersHold
    <2>2. \A x \in answered : x.key # NoValue /\ k # NoValue => x.server # s \/ x.key # k
      BY <1>5, <2>1
    <2> QED
      BY <1>10, <1>14, <1>17, <2>2
  <1>19. AnswersHold'
    <2>1. ASSUME NEW x \in answered' PROVE
            /\ x.case \in caseRows'
            /\ x.key # NoValue => idempotency'[x.server][x.key] # NoValue /\ idempotency'[x.server][x.key].case = x.case
      <3>1. CASE x \in answered
        BY <1>11, <1>18, <3>1 DEF IntakeInvariant, AnswersHold
      <3>2. CASE x \notin answered
        <4>1. x = given /\ c \in caseRows' /\ (k # NoValue => idempotency' = [idempotency EXCEPT ![s][k] = entry])
          BY <1>10, <3>2
        <4>2. k # NoValue => idempotency'[s][k] = entry
          BY <1>5, <4>1 DEF IntakeInvariant, IntakeTyped
        <4> QED
          BY <1>8, <4>1, <4>2
      <3> QED
        BY <3>1, <3>2
    <2> QED
      BY <2>1 DEF AnswersHold
  <1>20. KeysHold'
    <2>1. ASSUME NEW z \in Servers, NEW j \in CaseKeys, idempotency'[z][j] # NoValue
          PROVE  idempotency'[z][j].case \in caseRows'
      <3>1. CASE idempotency'[z][j] = idempotency[z][j]
        BY <1>11, <2>1, <3>1 DEF IntakeInvariant, KeysHold
      <3>2. CASE idempotency'[z][j] # idempotency[z][j]
        <4>1. z = s /\ j = k
          BY <1>14, <3>2
        <4>2. k # NoValue
          BY <1>10, <3>2
        <4>3. c \in caseRows' /\ idempotency' = [idempotency EXCEPT ![s][k] = entry]
          BY <1>10, <3>2, <4>2
        <4>4. idempotency'[s][k] = entry
          BY <2>1, <4>1, <4>3 DEF IntakeInvariant, IntakeTyped
        <4> QED
          BY <1>8, <4>1, <4>3, <4>4
      <3> QED
        BY <3>1, <3>2
    <2> QED
      BY <2>1 DEF KeysHold
  <1>21. CopiesHold'
    <2>1. \A z \in Servers : \A d : Inserting(z, d) => Inserting(z, d)' \/ d = c
      BY <1>1, <1>9 DEF Inserting, Intake!At
    <2> QED
      BY <1>4, <1>11, <2>1 DEF IntakeInvariant, CopiesHold
  <1>22. \A z \in Servers : \A q \in reviews'[z] : Known(q)'
    BY <1>4, <1>12 DEF IntakeInvariant
  <1>23. \A d \in caseRows' : Known(d.review)'
    BY <1>5, <1>10, <1>12 DEF IntakeInvariant
  <1>24. \A d, e \in caseRows' : d.review = e.review => d = e
    BY <1>10 DEF IntakeInvariant, Intake!Refused
  <1> QED
    BY <1>13, <1>15, <1>16, <1>19, <1>20, <1>21, <1>22, <1>23, <1>24 DEF IntakeInvariant

\* A process stops: what it was doing with a review has failed, and its cases are gone
\* with its requests.
LEMMA RestartKeeps ==
  ASSUME IntakeInvariant, NEW s \in Servers, Intake!Restart(s) PROVE IntakeInvariant'
  <1>1. PICK dropped : dropped = {t \in Requests : intakeAct[t] # Intake!Idle /\ intakeAct[t].server = s}
    OBVIOUS
  <1>2. PICK idle : idle = Intake!Idle
    OBVIOUS
  <1>3. idle.at = "idle"
    BY <1>2 DEF Intake!Idle
  <1>4. /\ reviews' = [reviews EXCEPT ![s] = {}] /\ cases' = [cases EXCEPT ![s] = {}]
        /\ idempotency' = [idempotency EXCEPT ![s] = [k \in CaseKeys |-> NoValue]]
        /\ locked' = [locked EXCEPT ![s] = NoValue]
        /\ intakeAct' = [t \in Requests |-> IF t \in dropped THEN idle ELSE intakeAct[t]]
        /\ answered' = {a \in answered : a.server # s}
        /\ failed' = failed \cup {intakeAct[t].review : t \in {u \in dropped : intakeAct[u].at = "upserting"}}
        /\ UNCHANGED <<reviewRows, caseRows, made>>
    BY <1>1, <1>2, Zenon DEF Intake!Restart, Intake!At
  <1>5. \A t \in Requests : IF t \in dropped THEN intakeAct'[t] = idle
                             ELSE intakeAct'[t] = intakeAct[t] /\ (intakeAct[t].at # "idle" => intakeAct[t].server # s)
    BY <1>1, <1>2, <1>3, <1>4
  <1>6. ASSUME NEW r, Known(r) PROVE Known(r)'
    <2>1. CASE r \in reviewRows \cup failed
      BY <1>4, <2>1 DEF Known
    <2>2. ASSUME NEW t \in Requests, intakeAct[t].at = "upserting", intakeAct[t].review = r PROVE Known(r)'
      <3>1. CASE t \in dropped
        BY <1>4, <2>2, <3>1 DEF Known
      <3>2. CASE t \notin dropped
        BY <1>5, <2>2, <3>2 DEF Known, Intake!At
      <3> QED
        BY <3>1, <3>2
    <2> QED
      BY <1>6, <2>1, <2>2 DEF Known, Intake!At
  <1>7. ASSUME NEW t \in Requests PROVE RequestFits(t)'
    <2>1. CASE t \in dropped
      BY <1>3, <1>5, <2>1 DEF RequestFits, Intake!At
    <2>2. CASE t \notin dropped
      <3>1. intakeAct'[t] = intakeAct[t] /\ RequestFits(t) /\ (intakeAct[t].at # "idle" => intakeAct[t].server # s)
        BY <1>5, <2>2 DEF IntakeInvariant
      <3>2. \A z \in Servers : z # s => locked'[z] = locked[z] /\ idempotency'[z] = idempotency[z]
        BY <1>4 DEF IntakeInvariant, IntakeTyped
      <3> QED
        BY <1>6, <3>1, <3>2 DEF RequestFits, Intake!At
    <2> QED
      BY <2>1, <2>2
  <1>8. \A z \in Servers : z # s => idempotency'[z] = idempotency[z]
    BY <1>4 DEF IntakeInvariant, IntakeTyped
  <1>9. IntakeTyped'
    BY <1>4 DEF IntakeInvariant, IntakeTyped
  <1>10. AnswersHold'
    BY <1>4, <1>8 DEF IntakeInvariant, IntakeTyped, AnswersHold
  <1>11. KeysHold'
    <2>1. \A k \in CaseKeys : idempotency'[s][k] = NoValue
      BY <1>4 DEF IntakeInvariant, IntakeTyped
    <2> QED
      BY <1>4, <1>8, <2>1 DEF IntakeInvariant, KeysHold
  <1>12. CopiesHold'
    <2>1. \A z \in Servers : \A d : z # s /\ Inserting(z, d) => Inserting(z, d)'
      <3>1. \A t \in Requests, z \in Servers : z # s /\ intakeAct[t].server = z => t \notin dropped
        BY <1>1
      <3> QED
        BY <1>5, <3>1 DEF Inserting, Intake!At
    <2>2. cases'[s] = {} /\ \A z \in Servers : z # s => cases'[z] = cases[z]
      BY <1>4 DEF IntakeInvariant, IntakeTyped
    <2> QED
      BY <1>4, <2>1, <2>2 DEF IntakeInvariant, CopiesHold
  <1>13. \A z \in Servers : \A q \in reviews'[z] : Known(q)'
    BY <1>4, <1>6 DEF IntakeInvariant, IntakeTyped
  <1>14. \A d \in caseRows' : Known(d.review)'
    BY <1>4, <1>6 DEF IntakeInvariant
  <1>15. \A d, e \in caseRows' : d.review = e.review => d = e
    BY <1>4 DEF IntakeInvariant
  <1> QED
    BY <1>7, <1>9, <1>10, <1>11, <1>12, <1>13, <1>14, <1>15 DEF IntakeInvariant

LEMMA IntakeStep ==
  ASSUME IntakeInvariant, [Intake!Next]_(Intake!vars) PROVE IntakeInvariant'
  <1>1. CASE UNCHANGED Intake!vars
    <2>1. UNCHANGED <<reviewRows, caseRows, reviews, cases, idempotency, locked, intakeAct, made, answered, failed>>
      BY <1>1 DEF Intake!vars
    <2> QED
      BY <2>1 DEF IntakeInvariant, IntakeTyped, RequestFits, Known, AnswersHold, KeysHold, CopiesHold, Inserting, Intake!At
  <1>2. ASSUME NEW s \in Servers, NEW r \in Reviews, Intake!GetReview(s, r) PROVE IntakeInvariant'
    <2>1. {r} \in SUBSET reviewRows /\ {} \in SUBSET caseRows /\ cases' = [cases EXCEPT ![s] = @ \cup {}]
      BY <1>2 DEF Intake!GetReview, IntakeInvariant, IntakeTyped
    <2>2. /\ reviews' = [reviews EXCEPT ![s] = @ \cup {r}]
          /\ UNCHANGED <<reviewRows, caseRows, idempotency, locked, intakeAct, made, answered, failed>>
      BY <1>2 DEF Intake!GetReview
    <2> QED
      BY <2>1, <2>2, ReadingKeeps
  <1>3. ASSUME NEW s \in Servers, Intake!ListReviews(s) PROVE IntakeInvariant'
    <2>1. {} \in SUBSET caseRows /\ cases' = [cases EXCEPT ![s] = @ \cup {}]
      BY <1>3 DEF Intake!ListReviews, IntakeInvariant, IntakeTyped
    <2>2. /\ reviews' = [reviews EXCEPT ![s] = @ \cup reviewRows]
          /\ UNCHANGED <<reviewRows, caseRows, idempotency, locked, intakeAct, made, answered, failed>>
      BY <1>3 DEF Intake!ListReviews
    <2> QED
      BY <2>1, <2>2, ReadingKeeps
  <1>4. ASSUME NEW s \in Servers, Intake!ListCases(s) PROVE IntakeInvariant'
    <2>1. reviews' = [reviews EXCEPT ![s] = @ \cup {}]
      BY <1>4 DEF Intake!ListCases, IntakeInvariant, IntakeTyped
    <2> QED
      BY <1>4, <2>1, ReadingKeeps DEF Intake!ListCases
  <1> QED
    BY <1>1, <1>2, <1>3, <1>4, PostReviewKeeps, UpsertReviewKeeps, PostCaseKeeps, ReplayKeeps,
       CreateKeeps, InsertKeeps, RestartKeeps DEF Intake!Next

LEMMA IntakeSafety ==
  ASSUME IntakeInvariant PROVE Intake!CasesAreStored /\ Intake!CasesHaveReviews
  <1>1. Intake!CasesAreStored
    BY DEF IntakeInvariant, AnswersHold, CopiesHold, Inserting, Intake!CasesAreStored, Intake!Doing
  <1>2. Intake!CasesHaveReviews
    BY DEF IntakeInvariant, Known, Intake!CasesHaveReviews, Intake!Doing
  <1> QED
    BY <1>1, <1>2

-----------------------------------------------------------------------------
(* Migrations: what an instance has read, executed and recorded.           *)

\* A file is recorded with what was executed of it, once.
Recorded(rs, ex) ==
  /\ ex = [f \in Schema!Names |-> ex[f]]
  /\ \A f \in Schema!Names : f \notin DOMAIN rs => ex[f] = <<>>
  /\ \A f \in Schema!Names \cap DOMAIN rs : \E x : ex[f] = <<x>> /\ (program = "runner" => x \in {NoValue, rs[f]})

\* The first n files of a release are.
Covered(files, n, rs, ex) ==
  \A m \in 1..n :
    /\ files[m].name \in DOMAIN rs
    /\ program = "runner" => ex[files[m].name] \in {<<NoValue>>, <<files[m].content>>}

\* A transaction holds the lock, and has added to the table it read.
MigratesWell(i) ==
  /\ lockHolder = i
  /\ inst[i].next \in Nat \ {0} /\ inst[i].next <= Len(inst[i].files) + 1
  /\ inst[i] = [at |-> "migrating", files |-> inst[i].files, next |-> inst[i].next,
                rows |-> inst[i].rows, executed |-> inst[i].executed]
  /\ DOMAIN migrated \subseteq DOMAIN inst[i].rows
  /\ \A f \in Schema!Names \cap DOMAIN migrated : inst[i].executed[f] = executed[f]
  /\ Recorded(inst[i].rows, inst[i].executed)
  /\ Covered(inst[i].files, inst[i].next - 1, inst[i].rows, inst[i].executed)

InstanceFits(i) ==
  /\ ~Schema!At(i, "down") => inst[i].files \in Releases
  /\ Schema!At(i, "migrating") => MigratesWell(i)
  /\ Schema!At(i, "serving") => Covered(inst[i].files, Len(inst[i].files), migrated, executed)

SchemaInvariant ==
  /\ inst = [i \in Callers |-> inst[i]]
  /\ Recorded(migrated, executed)
  /\ \A i \in Callers : InstanceFits(i)

LEMMA SchemaInitially == ASSUME Schema!Init PROVE SchemaInvariant
  <1>1. inst = [i \in Callers |-> Schema!Down] /\ Schema!Down.at = "down"
    BY DEF Schema!Init, Schema!Down
  <1>2. Recorded(migrated, executed)
    <2>1. CASE migrated = Schema!Nothing /\ executed = [f \in Schema!Names |-> <<>>]
      BY <2>1 DEF Recorded, Schema!Nothing
    <2>2. ASSUME NEW r \in Releases, migrated = [f \in {r[1].name} |-> NoValue],
                 executed = [f \in Schema!Names |-> IF f = r[1].name THEN <<NoValue>> ELSE <<>>]
          PROVE  Recorded(migrated, executed)
      BY <2>2 DEF Recorded
    <2> QED
      BY <2>1, <2>2 DEF Schema!Init
  <1> QED
    BY <1>1, <1>2 DEF SchemaInvariant, InstanceFits, Schema!At

\* An instance goes to a step in which it relies on nothing, and the lock is taken from
\* nobody else.
LEMMA StepAside ==
  ASSUME SchemaInvariant, NEW i \in Callers, NEW a, inst' = [inst EXCEPT ![i] = a],
         a.at \notin {"migrating", "serving"}, a.at # "down" => a.files \in Releases,
         UNCHANGED <<program, migrated, executed>>,
         \A j \in Callers \ {i} : lockHolder = j => lockHolder' = j
  PROVE  SchemaInvariant'
  <1>1. inst'[i] = a /\ \A j \in Callers \ {i} : inst'[j] = inst[j]
    BY DEF SchemaInvariant
  <1>2. InstanceFits(i)'
    BY <1>1 DEF InstanceFits, Schema!At
  <1>3. ASSUME NEW j \in Callers \ {i} PROVE InstanceFits(j)'
    <2>1. inst'[j] = inst[j] /\ InstanceFits(j)
      BY <1>1 DEF SchemaInvariant
    <2>2. ASSUME Schema!At(j, "migrating") PROVE MigratesWell(j)'
      BY <2>1, <2>2 DEF InstanceFits, MigratesWell, Recorded, Covered
    <2>3. ASSUME Schema!At(j, "serving") PROVE Covered(inst[j].files, Len(inst[j].files), migrated, executed)'
      BY <2>1, <2>3 DEF InstanceFits, Covered
    <2> QED
      BY <2>1, <2>2, <2>3 DEF InstanceFits, Schema!At
  <1> QED
    BY <1>2, <1>3 DEF SchemaInvariant, Recorded

LEMMA RollbackKeepsSchema ==
  ASSUME SchemaInvariant, NEW i \in Callers, Schema!Rollback(i) PROVE SchemaInvariant'
  <1>1. Schema!Down.at = "down"
    BY DEF Schema!Down
  <1> QED
    BY <1>1, StepAside, SchemaAssumption DEF Schema!Rollback, Schema!Go

LEMMA LockKeepsSchema ==
  ASSUME SchemaInvariant, NEW i \in Callers, Schema!Lock(i) PROVE SchemaInvariant'
  <1> DEFINE a == [at |-> "migrating", files |-> inst[i].files, next |-> 1,
                   rows |-> migrated, executed |-> executed]
  <1>1. /\ inst' = [inst EXCEPT ![i] = a] /\ lockHolder' = i
        /\ lockHolder = NoValue /\ UNCHANGED <<program, migrated, executed>>
        /\ inst[i].files \in Releases
    BY DEF Schema!Lock, Schema!Go, Schema!At, SchemaInvariant, InstanceFits
  <1>2. inst'[i] = a /\ \A j \in Callers \ {i} : inst'[j] = inst[j]
    BY <1>1 DEF SchemaInvariant
  <1>3. InstanceFits(i)'
    <2>1. PICK b : b = a
      OBVIOUS
    <2>2. /\ b.files = inst[i].files /\ b.next = 1 /\ b.rows = migrated /\ b.executed = executed
          /\ b.at = "migrating"
          /\ b = [at |-> "migrating", files |-> b.files, next |-> b.next, rows |-> b.rows, executed |-> b.executed]
      BY <2>1
    <2>3. Recorded(b.rows, b.executed)'
      BY <1>1, <2>2 DEF SchemaInvariant, Recorded
    <2>4. Covered(b.files, b.next - 1, b.rows, b.executed)'
      BY <2>2 DEF Covered
    <2>5. Len(b.files) \in Nat /\ b.files \in Releases
      BY <1>1, <2>2, SchemaAssumption
    <2>6. inst'[i] = b
      BY <1>2, <2>1
    <2>7. MigratesWell(i)'
      <3>1. DOMAIN migrated' \subseteq DOMAIN b.rows /\ \A f \in Schema!Names \cap DOMAIN migrated' : b.executed[f] = executed'[f]
        BY <1>1, <2>2
      <3> QED
        BY <1>1, <2>2, <2>3, <2>4, <2>5, <2>6, <3>1 DEF MigratesWell
    <2> QED
      BY <2>2, <2>5, <2>6, <2>7 DEF InstanceFits, Schema!At
  <1>4. ASSUME NEW j \in Callers \ {i} PROVE InstanceFits(j)'
    BY <1>1, <1>2, SchemaAssumption DEF SchemaInvariant, InstanceFits, MigratesWell, Schema!At, Covered
  <1> QED
    BY <1>1, <1>3, <1>4 DEF SchemaInvariant, Recorded

LEMMA StartKeepsSchema ==
  ASSUME SchemaInvariant, NEW i \in Callers, NEW r \in Releases, Schema!Start(i, r) PROVE SchemaInvariant'
  <1> DEFINE a == [at |-> IF program = "script" THEN "begun" ELSE "waiting", files |-> r]
  <1>1. a.at \notin {"migrating", "serving"} /\ a.files \in Releases
    OBVIOUS
  <1>2. inst' = [inst EXCEPT ![i] = a] /\ UNCHANGED <<program, migrated, executed, lockHolder>>
    BY DEF Schema!Start, Schema!Go
  <1> HIDE DEF a
  <1> QED
    BY <1>1, <1>2, StepAside

LEMMA CreateTableKeepsSchema ==
  ASSUME SchemaInvariant, NEW i \in Callers, Schema!CreateTable(i) PROVE SchemaInvariant'
  <1>1. CASE Schema!Rollback(i)
    BY <1>1, RollbackKeepsSchema
  <1>2. CASE ~Schema!Rollback(i)
    <2>1. PICK step \in {"waiting", "blocked"} : inst' = [inst EXCEPT ![i] = [inst[i] EXCEPT !.at = step]]
      BY <1>2 DEF Schema!CreateTable, Schema!Go
    <2> DEFINE a == [inst[i] EXCEPT !.at = step]
    <2>2. UNCHANGED <<program, migrated, executed, lockHolder>> /\ ~Schema!At(i, "down")
      BY <1>2 DEF Schema!CreateTable, Schema!At
    <2>3. a.files = inst[i].files
      OBVIOUS
    <2>4. a.at = step
      OBVIOUS
    <2>5. a.files \in Releases
      BY <2>2, <2>3 DEF SchemaInvariant, InstanceFits
    <2> HIDE DEF a
    <2> QED
      BY <2>1, <2>2, <2>4, <2>5, StepAside DEF a
  <1> QED
    BY <1>1, <1>2

\* One more file of a transaction is recorded.
LEMMA MigrateKeepsSchema ==
  ASSUME SchemaInvariant, NEW i \in Callers, Schema!Migrate(i) PROVE SchemaInvariant'
  <1>1. PICK a : a = inst[i]
    OBVIOUS
  <1>2. PICK file : file = a.files[a.next]
    OBVIOUS
  <1>3. PICK recorded : recorded = IF program = "runner" THEN file.content ELSE NoValue
    OBVIOUS
  <1>4. /\ a.at = "migrating" /\ a.next <= Len(a.files) /\ a.files \in Releases
        /\ MigratesWell(i)
    BY <1>1 DEF Schema!Migrate, Schema!At, SchemaInvariant, InstanceFits
  <1>5. /\ a.next \in 1..Len(a.files) /\ Len(a.files) \in Nat /\ DOMAIN a.files = 1..Len(a.files)
    BY <1>1, <1>4, SchemaAssumption DEF MigratesWell
  <1>6. file.name \in Schema!Names
    BY <1>2, <1>4, <1>5 DEF Schema!Names
  <1>7. CASE Schema!Rollback(i)
    BY <1>7, RollbackKeepsSchema
  <1>8. CASE ~Schema!Rollback(i)
    <2>1. PICK rs : rs = [f \in DOMAIN a.rows \cup {file.name} |->
                            IF f = file.name THEN recorded ELSE a.rows[f]]
      OBVIOUS
    <2>2. PICK ex : ex = [a.executed EXCEPT ![file.name] =
                            IF file.name \in DOMAIN a.rows THEN @ ELSE Append(@, file.content)]
      OBVIOUS
    <2>3. PICK b :
            b = [a EXCEPT !.next = @ + 1,
                          !.rows = [f \in DOMAIN @ \cup {file.name} |->
                                      IF f = file.name THEN recorded ELSE @[f]],
                          !.executed[file.name] =
                            IF file.name \in DOMAIN a.rows THEN @ ELSE Append(@, file.content)]
      OBVIOUS
    <2>4. inst' = [inst EXCEPT ![i] = b] /\ ~Schema!Drifts(i, file)
      <3>1. ~Schema!Drifts(i, file)
        BY <1>1, <1>2, <1>8 DEF Schema!Migrate
      <3> QED
        BY <1>1, <1>2, <1>3, <2>3, <3>1 DEF Schema!Migrate, Schema!Go
    <2>5. UNCHANGED <<program, migrated, executed, lockHolder>>
      BY <1>1, <1>2, <1>8 DEF Schema!Migrate
    <2>6. /\ b.files = a.files /\ b.next = a.next + 1 /\ b.rows = rs /\ b.executed = ex /\ b.at = "migrating"
          /\ b = [at |-> "migrating", files |-> b.files, next |-> b.next, rows |-> b.rows, executed |-> b.executed]
      BY <1>1, <1>4, <2>1, <2>2, <2>3 DEF MigratesWell
    <2>7. Recorded(a.rows, a.executed)
      BY <1>1, <1>4 DEF MigratesWell
    <2>8. program = "runner" /\ file.name \in DOMAIN a.rows => a.rows[file.name] \in {NoValue, file.content}
      BY <1>1, <2>4 DEF Schema!Drifts
    <2>9. Recorded(rs, ex)
      <3>1. DOMAIN rs = DOMAIN a.rows \cup {file.name}
        BY <2>1
      <3>2. \A f \in Schema!Names : f # file.name => ex[f] = a.executed[f]
        BY <2>2, <2>7 DEF Recorded
      <3>3. \A f \in DOMAIN a.rows : f # file.name => rs[f] = a.rows[f]
        BY <2>1
      <3>4. rs[file.name] = recorded
        BY <2>1
      <3>5. \E x : ex[file.name] = <<x>> /\ (program = "runner" => x \in {NoValue, recorded})
        <4>1. CASE file.name \in DOMAIN a.rows
          BY <1>3, <1>6, <2>2, <2>7, <2>8, <4>1 DEF Recorded
        <4>2. CASE file.name \notin DOMAIN a.rows
          <5>1. a.executed[file.name] = <<>>
            BY <1>6, <2>7, <4>2 DEF Recorded
          <5>2. ex[file.name] = Append(<<>>, file.content)
            BY <1>6, <2>2, <2>7, <4>2, <5>1 DEF Recorded
          <5>3. ex[file.name] = <<file.content>>
            BY <5>2
          <5> QED
            BY <1>3, <5>3
        <4> QED
          BY <4>1, <4>2
      <3>6. ex = [f \in Schema!Names |-> ex[f]]
        BY <2>2, <2>7 DEF Recorded
      <3>7. \A f \in Schema!Names : f \notin DOMAIN rs => ex[f] = <<>>
        BY <2>7, <3>1, <3>2 DEF Recorded
      <3>8. ASSUME NEW f \in Schema!Names \cap DOMAIN rs
            PROVE  \E x : ex[f] = <<x>> /\ (program = "runner" => x \in {NoValue, rs[f]})
        <4>1. CASE f = file.name
          BY <3>4, <3>5, <4>1
        <4>2. CASE f # file.name
          BY <2>7, <3>1, <3>2, <3>3, <4>2 DEF Recorded
        <4> QED
          BY <4>1, <4>2
      <3> QED
        BY <3>6, <3>7, <3>8 DEF Recorded
    <2>10. Covered(a.files, a.next, rs, ex)
      <3>1. ASSUME NEW m \in 1..a.next
            PROVE  /\ a.files[m].name \in DOMAIN rs
                   /\ program = "runner" => ex[a.files[m].name] \in {<<NoValue>>, <<a.files[m].content>>}
        <4>1. CASE m = a.next
          <5>1. a.files[m] = file
            BY <1>2, <4>1
          <5>2. file.name \in DOMAIN rs /\ rs[file.name] = recorded
            BY <2>1
          <5> QED
            BY <1>3, <1>6, <2>9, <5>1, <5>2 DEF Recorded
        <4>2. CASE m # a.next
          <5>1. m \in 1..(a.next - 1)
            BY <1>5, <4>2
          <5>2. PICK g : g = a.files[m]
            OBVIOUS
          <5>3. g.name \in DOMAIN a.rows /\ (program = "runner" => a.executed[g.name] \in {<<NoValue>>, <<g.content>>})
            BY <1>1, <1>4, <5>1, <5>2 DEF MigratesWell, Covered
          <5>4. g.name \in Schema!Names
            BY <1>4, <1>5, <5>1, <5>2 DEF Schema!Names
          <5>5. ex[g.name] = a.executed[g.name]
            BY <2>2, <2>7, <5>3, <5>4 DEF Recorded
          <5> QED
            BY <2>1, <5>2, <5>3, <5>5
        <4> QED
          BY <4>1, <4>2
      <3> QED
        BY <3>1 DEF Covered
    <2>11. inst'[i] = b /\ \A j \in Callers \ {i} : inst'[j] = inst[j]
      BY <2>4 DEF SchemaInvariant
    <2>12. MigratesWell(i)'
      <3>1. DOMAIN migrated' \subseteq DOMAIN b.rows
        BY <1>1, <1>4, <2>1, <2>5, <2>6 DEF MigratesWell
      <3>2. \A f \in Schema!Names \cap DOMAIN migrated' : b.executed[f] = executed'[f]
        <4>1. \A f \in Schema!Names \cap DOMAIN migrated : f \in DOMAIN a.rows /\ a.executed[f] = executed[f]
          BY <1>1, <1>4 DEF MigratesWell
        <4>2. \A f \in Schema!Names \cap DOMAIN a.rows : ex[f] = a.executed[f]
          BY <2>2, <2>7 DEF Recorded
        <4> QED
          BY <2>5, <2>6, <4>1, <4>2
      <3>3. Recorded(b.rows, b.executed)'
        BY <2>5, <2>6, <2>9 DEF Recorded
      <3>4. Covered(b.files, b.next - 1, b.rows, b.executed)'
        <4>1. b.next - 1 = a.next
          BY <1>5, <2>6
        <4> QED
          BY <2>5, <2>6, <2>10, <4>1 DEF Covered
      <3>5. lockHolder' = i /\ b.next \in Nat \ {0} /\ b.next <= Len(b.files) + 1
        BY <1>4, <1>5, <2>5, <2>6 DEF MigratesWell
      <3> QED
        BY <2>6, <2>11, <3>1, <3>2, <3>3, <3>4, <3>5 DEF MigratesWell
    <2>13. InstanceFits(i)'
      BY <1>4, <2>6, <2>11, <2>12 DEF InstanceFits, Schema!At
    <2>14. ASSUME NEW j \in Callers \ {i} PROVE InstanceFits(j)'
      <3>1. inst'[j] = inst[j] /\ InstanceFits(j)
        BY <2>11 DEF SchemaInvariant
      <3>2. ~Schema!At(j, "migrating")
        BY <1>4, <3>1 DEF InstanceFits, MigratesWell
      <3>3. ASSUME Schema!At(j, "serving") PROVE Covered(inst[j].files, Len(inst[j].files), migrated, executed)'
        BY <2>5, <3>1, <3>3 DEF InstanceFits, Covered
      <3> QED
        BY <3>1, <3>2, <3>3 DEF InstanceFits, Schema!At
    <2>15. inst' = [j \in Callers |-> inst'[j]]
      BY <2>4 DEF SchemaInvariant
    <2>16. Recorded(migrated, executed)'
      BY <2>5 DEF SchemaInvariant, Recorded
    <2> QED
      BY <2>13, <2>14, <2>15, <2>16 DEF SchemaInvariant
  <1> QED
    BY <1>7, <1>8

\* The transaction's rows and executions are everybody's: what was recorded stays so.
LEMMA SchemaCommitKeeps ==
  ASSUME SchemaInvariant, NEW i \in Callers, Schema!Commit(i) PROVE SchemaInvariant'
  <1>1. PICK a : a = inst[i]
    OBVIOUS
  <1>2. /\ a.at = "migrating" /\ a.next > Len(a.files) /\ a.files \in Releases
        /\ MigratesWell(i)
    BY <1>1 DEF Schema!Commit, Schema!At, SchemaInvariant, InstanceFits
  <1>3. /\ migrated' = a.rows /\ executed' = a.executed /\ UNCHANGED program
        /\ inst' = [inst EXCEPT ![i] = [at |-> "serving", files |-> a.files]]
    BY <1>1 DEF Schema!Commit, Schema!Go
  <1>4. PICK b : b = [at |-> "serving", files |-> a.files]
    OBVIOUS
  <1>5. b.at = "serving" /\ b.files = a.files
    BY <1>4
  <1>6. inst'[i] = b /\ \A j \in Callers \ {i} : inst'[j] = inst[j]
    BY <1>3, <1>4 DEF SchemaInvariant
  <1>7. Len(a.files) \in Nat /\ DOMAIN a.files = 1..Len(a.files) /\ a.next - 1 = Len(a.files)
    BY <1>1, <1>2, SchemaAssumption DEF MigratesWell
  <1>8. InstanceFits(i)'
    <2>1. Covered(a.files, Len(a.files), a.rows, a.executed)
      BY <1>1, <1>2, <1>7 DEF MigratesWell
    <2>2. Covered(b.files, Len(b.files), migrated, executed)'
      BY <1>3, <1>5, <2>1 DEF Covered
    <2> QED
      BY <1>2, <1>5, <1>6, <2>2 DEF InstanceFits, Schema!At
  <1>9. Recorded(migrated, executed)'
    BY <1>1, <1>2, <1>3 DEF MigratesWell, Recorded
  <1>10. ASSUME NEW j \in Callers \ {i} PROVE InstanceFits(j)'
    <2>1. inst'[j] = inst[j] /\ InstanceFits(j)
      BY <1>6 DEF SchemaInvariant
    <2>2. ~Schema!At(j, "migrating")
      BY <1>2, <2>1 DEF InstanceFits, MigratesWell
    <2>3. ASSUME Schema!At(j, "serving") PROVE Covered(inst[j].files, Len(inst[j].files), migrated, executed)'
      <3>1. PICK files \in Releases : files = inst[j].files
        BY <2>1, <2>3 DEF InstanceFits, Schema!At
      <3>2. Covered(files, Len(files), migrated, executed) /\ DOMAIN files = 1..Len(files)
        BY <2>1, <2>3, <3>1, SchemaAssumption DEF InstanceFits
      <3>3. \A m \in 1..Len(files) : files[m].name \in Schema!Names
        BY <3>1, <3>2 DEF Schema!Names
      <3>4. /\ DOMAIN migrated \subseteq DOMAIN a.rows
            /\ \A f \in Schema!Names \cap DOMAIN migrated : a.executed[f] = executed[f]
        BY <1>1, <1>2 DEF MigratesWell
      <3>5. Covered(files, Len(files), a.rows, a.executed)
        BY <3>2, <3>3, <3>4 DEF Covered
      <3>6. Covered(files, Len(files), migrated, executed)'
        BY <1>3, <3>5 DEF Covered
      <3> QED
        BY <2>1, <3>1, <3>6
    <2> QED
      BY <2>1, <2>2, <2>3 DEF InstanceFits, Schema!At
  <1> QED
    BY <1>3, <1>8, <1>9, <1>10 DEF SchemaInvariant

LEMMA SchemaStep ==
  ASSUME SchemaInvariant, [Schema!Next]_(Schema!vars) PROVE SchemaInvariant'
  <1>1. CASE UNCHANGED Schema!vars
    <2>1. UNCHANGED <<program, migrated, executed, inst, lockHolder>>
      BY <1>1 DEF Schema!vars
    <2>2. Recorded(migrated, executed)'
      BY <2>1 DEF SchemaInvariant, Recorded
    <2>3. ASSUME NEW i \in Callers PROVE InstanceFits(i)'
      BY <2>1 DEF SchemaInvariant, InstanceFits, MigratesWell, Recorded, Covered, Schema!At
    <2> QED
      BY <2>1, <2>2, <2>3 DEF SchemaInvariant
  <1>2. ASSUME NEW i \in Callers, Schema!Crash(i) PROVE SchemaInvariant'
    BY <1>2, RollbackKeepsSchema DEF Schema!Crash
  <1>3. ASSUME NEW i \in Callers, Schema!Stop(i) PROVE SchemaInvariant'
    <2>1. Schema!Down.at = "down"
      BY DEF Schema!Down
    <2> QED
      BY <1>3, <2>1, StepAside DEF Schema!Stop, Schema!Go
  <1> QED
    BY <1>1, <1>2, <1>3, CreateTableKeepsSchema, LockKeepsSchema, MigrateKeepsSchema,
       SchemaCommitKeeps, StartKeepsSchema DEF Schema!Next

LEMMA SchemaSafety == ASSUME SchemaInvariant PROVE Schema!SchemaIsRecorded
  <1>1. Schema!ExecutedOnce
    <2>1. ASSUME NEW f \in Schema!Names PROVE Len(executed[f]) = IF f \in DOMAIN migrated THEN 1 ELSE 0
      <3>1. CASE f \in DOMAIN migrated
        <4>1. PICK x : executed[f] = <<x>>
          BY <3>1 DEF SchemaInvariant, Recorded
        <4> QED
          BY <3>1, <4>1
      <3>2. CASE f \notin DOMAIN migrated
        BY <3>2 DEF SchemaInvariant, Recorded
      <3> QED
        BY <3>1, <3>2
    <2> QED
      BY <2>1 DEF Schema!ExecutedOnce
  <1>2. Schema!ServesMigrated
    BY SchemaAssumption DEF SchemaInvariant, InstanceFits, Covered, Schema!ServesMigrated, Schema!At
  <1> QED
    BY <1>1, <1>2 DEF Schema!SchemaIsRecorded

-----------------------------------------------------------------------------
(* ReferencePipeline: a snapshot is the one of its decision; a document has*)
(* the content of the last object of its evidence.                         *)

Dossier == [status : {"APPROVED", "INVALIDATED"}, snapshot : Dossiers]

PipelineInvariant ==
  /\ decisions \in [Ids -> Dossier \cup {NoValue}]
  /\ snapshots = [d \in Ids |-> snapshots[d]] /\ compared = [d \in Ids |-> compared[d]]
  /\ documents = [e \in Ids |-> documents[e]]
  /\ objects \in Seq([evidence : Ids, content : Dossiers])
  /\ \A d \in Ids : decisions[d] # NoValue => snapshots[d] = decisions[d].snapshot
  /\ Pipeline!DecisionsStand /\ Pipeline!EvidenceIsStored

LEMMA PipelineInitially == ASSUME Pipeline!Init PROVE PipelineInvariant
  BY DEF Pipeline!Init, Pipeline!Empty, PipelineInvariant, Pipeline!DecisionsStand, Pipeline!EvidenceIsStored,
         Pipeline!Case

\* The steps which leave the evidence, or the decisions, as they are.
LEMMA EvidenceStays ==
  ASSUME PipelineInvariant, UNCHANGED <<objects, documents>> PROVE Pipeline!EvidenceIsStored'
  BY DEF PipelineInvariant, Pipeline!EvidenceIsStored, Pipeline!Case

LEMMA AddEvidenceKeeps ==
  ASSUME PipelineInvariant, NEW e \in Ids, NEW r \in Ids, NEW p \in Dossiers,
         Pipeline!AddEvidence(e, r, p)
  PROVE  PipelineInvariant'
  <1>1. PICK object : object = [evidence |-> e, content |-> p]
    OBVIOUS
  <1>2. object \in [evidence : Ids, content : Dossiers] /\ object.evidence = e /\ object.content = p
    BY <1>1
  <1>3. /\ objects' = Append(objects, object) /\ documents' = [documents EXCEPT ![e] = p]
        /\ UNCHANGED <<decisions, snapshots, compared>>
    BY <1>1 DEF Pipeline!AddEvidence
  <1>4. PICK last \in Nat : last = Len(objects)
    BY DEF PipelineInvariant
  <1>5. /\ objects' \in Seq([evidence : Ids, content : Dossiers])
        /\ DOMAIN objects = 1..last /\ DOMAIN objects' = 1..(last + 1)
        /\ objects'[last + 1] = object /\ \A n \in 1..last : objects'[n] = objects[n]
    BY <1>2, <1>3, <1>4 DEF PipelineInvariant
  <1>6. /\ documents' = [f \in Ids |-> documents'[f]] /\ documents'[e] = p
        /\ \A f \in Ids : f # e => documents'[f] = documents[f]
    BY <1>3 DEF PipelineInvariant
  <1>7. Pipeline!EvidenceIsStored'
    <2> DEFINE Own(f) == {n \in DOMAIN objects : objects[n].evidence = f}
    <2>1. \A f \in Ids :
            /\ Own(f) = {} => documents[f] = NoValue
            /\ \A n \in Own(f) : (\A m \in Own(f) : m <= n) => documents[f] = objects[n].content
            /\ documents[f] # NoValue <=> Own(f) # {}
      BY DEF PipelineInvariant, Pipeline!EvidenceIsStored, Pipeline!Case
    <2>2. Own(e)' = Own(e) \cup {last + 1} /\ \A f \in Ids : f # e => Own(f)' = Own(f)
      BY <1>2, <1>5
    <2>3. \A f : Own(f) \subseteq 1..last
      BY <1>5
    <2>4. \A f \in Ids :
            /\ Own(f)' = {} => documents'[f] = NoValue
            /\ \A n \in Own(f)' : (\A m \in Own(f)' : m <= n) => documents'[f] = objects'[n].content
            /\ documents'[f] # NoValue <=> Own(f)' # {}
      <3>1. ASSUME NEW n \in Own(e)', \A m \in Own(e)' : m <= n PROVE documents'[e] = objects'[n].content
        <4>1. n \in 1..(last + 1) /\ last + 1 <= n
          BY <1>5, <2>2, <3>1
        <4>2. n = last + 1
          BY <1>4, <4>1
        <4> QED
          BY <1>2, <1>5, <1>6, <4>2
      <3>2. p # NoValue /\ Own(e)' # {}
        BY <2>2, PipelineAssumption
      <3>3. ASSUME NEW f \in Ids, f # e
            PROVE  /\ Own(f)' = {} => documents'[f] = NoValue
                   /\ \A n \in Own(f)' : (\A m \in Own(f)' : m <= n) => documents'[f] = objects'[n].content
                   /\ documents'[f] # NoValue <=> Own(f)' # {}
        <4>1. Own(f)' = Own(f) /\ documents'[f] = documents[f] /\ \A n \in Own(f) : objects'[n] = objects[n]
          BY <1>5, <1>6, <2>2, <2>3, <3>3
        <4> HIDE DEF Own
        <4> QED
          BY <2>1, <4>1
      <3> HIDE DEF Own
      <3> QED
        BY <1>6, <3>1, <3>2, <3>3
    <2>5. \A f : Own(f)' = {n \in DOMAIN objects' : objects'[n].evidence = f}
      OBVIOUS
    <2> QED
      BY <2>4, <2>5 DEF Pipeline!EvidenceIsStored, Pipeline!Case
  <1>8. Pipeline!DecisionsStand'
    BY <1>3 DEF PipelineInvariant, Pipeline!DecisionsStand
  <1> QED
    BY <1>3, <1>5, <1>6, <1>7, <1>8 DEF PipelineInvariant

LEMMA FreezeKeeps ==
  ASSUME PipelineInvariant, NEW d \in Ids, NEW p \in Dossiers, Pipeline!FreezeAndApprove(d, p)
  PROVE  PipelineInvariant'
  <1>1. PICK decision : decision = [status |-> "APPROVED", snapshot |-> p]
    OBVIOUS
  <1>2. decision \in Dossier /\ decision.status = "APPROVED" /\ decision.snapshot = p
    BY <1>1 DEF Dossier
  <1>3. /\ decisions' = [decisions EXCEPT ![d] = decision] /\ snapshots' = [snapshots EXCEPT ![d] = p]
        /\ compared' = [compared EXCEPT ![d] = {}] /\ UNCHANGED <<objects, documents>>
    BY <1>1 DEF Pipeline!FreezeAndApprove
  <1>4. \A e \in Ids :
          /\ decisions'[e] = IF e = d THEN decision ELSE decisions[e]
          /\ snapshots'[e] = IF e = d THEN p ELSE snapshots[e]
          /\ compared'[e] = IF e = d THEN {} ELSE compared[e]
    BY <1>3 DEF PipelineInvariant
  <1>5. Pipeline!DecisionsStand'
    BY <1>2, <1>4 DEF PipelineInvariant, Pipeline!DecisionsStand
  <1> QED
    BY <1>2, <1>3, <1>4, <1>5, EvidenceStays DEF PipelineInvariant

LEMMA InvalidateKeeps ==
  ASSUME PipelineInvariant, NEW d \in Ids, NEW p \in Dossiers, Pipeline!InvalidateModified(d, p)
  PROVE  PipelineInvariant'
  <1>1. /\ decisions[d] # NoValue /\ compared' = [compared EXCEPT ![d] = @ \cup {p}]
        /\ decisions' = IF snapshots[d] = p \/ decisions[d].status # "APPROVED" THEN decisions
                        ELSE [decisions EXCEPT ![d].status = "INVALIDATED"]
        /\ UNCHANGED <<snapshots, objects, documents>>
    BY DEF Pipeline!InvalidateModified, Pipeline!Matches
  <1>2. decisions[d] \in Dossier /\ snapshots[d] = decisions[d].snapshot
    BY <1>1 DEF PipelineInvariant
  <1>3. \A e \in Ids : IF e = d THEN compared'[e] = compared[e] \cup {p} ELSE compared'[e] = compared[e]
    BY <1>1 DEF PipelineInvariant
  <1>4. decisions[d].status = "APPROVED" <=> compared[d] \subseteq {decisions[d].snapshot}
    BY <1>1 DEF PipelineInvariant, Pipeline!DecisionsStand
  <1>5. CASE snapshots[d] = p \/ decisions[d].status # "APPROVED"
    <2>1. decisions' = decisions
      BY <1>1, <1>5
    <2>2. Pipeline!DecisionsStand'
      BY <1>2, <1>3, <1>4, <1>5, <2>1 DEF PipelineInvariant, Pipeline!DecisionsStand
    <2> QED
      BY <1>1, <2>1, <2>2, EvidenceStays DEF PipelineInvariant
  <1>6. CASE ~(snapshots[d] = p \/ decisions[d].status # "APPROVED")
    <2>1. decisions' = [decisions EXCEPT ![d].status = "INVALIDATED"]
      BY <1>1, <1>6
    <2>2. /\ decisions' \in [Ids -> Dossier \cup {NoValue}]
          /\ decisions'[d].status = "INVALIDATED" /\ decisions'[d].snapshot = decisions[d].snapshot
          /\ \A e \in Ids : e # d => decisions'[e] = decisions[e]
      BY <1>2, <2>1 DEF PipelineInvariant, Dossier
    <2>3. Pipeline!DecisionsStand'
      <3>1. decisions'[d].status # "APPROVED"
        BY <2>2
      <3>2. p \in compared'[d] /\ p # decisions'[d].snapshot
        BY <1>2, <1>3, <1>6, <2>2
      <3>3. (decisions'[d].status = "APPROVED") <=> (compared'[d] \subseteq {decisions'[d].snapshot})
        BY <3>1, <3>2
      <3>4. \A e \in Ids : e # d => decisions'[e] = decisions[e] /\ compared'[e] = compared[e]
        BY <1>3, <2>2
      <3>5. \A e \in Ids : e # d /\ decisions'[e] # NoValue =>
              (decisions'[e].status = "APPROVED") <=> (compared'[e] \subseteq {decisions'[e].snapshot})
        BY <3>4 DEF PipelineInvariant, Pipeline!DecisionsStand
      <3> QED
        BY <3>3, <3>5 DEF Pipeline!DecisionsStand
    <2>4. \A e \in Ids : decisions'[e] # NoValue => snapshots'[e] = decisions'[e].snapshot
      BY <1>1, <1>2, <2>2 DEF PipelineInvariant
    <2> QED
      BY <1>1, <2>2, <2>3, <2>4, EvidenceStays DEF PipelineInvariant
  <1> QED
    BY <1>5, <1>6

LEMMA PipelineStep ==
  ASSUME PipelineInvariant, [Pipeline!Next]_(Pipeline!vars) PROVE PipelineInvariant'
  <1>1. CASE UNCHANGED <<objects, documents, decisions, snapshots, compared>>
    BY <1>1, EvidenceStays DEF PipelineInvariant, Pipeline!DecisionsStand
  <1> QED
    BY <1>1, AddEvidenceKeeps, FreezeKeeps, InvalidateKeeps
    DEF Pipeline!Next, Pipeline!vars, Pipeline!RecordExternal, Pipeline!RecordOutcome, Pipeline!Ingest,
        Pipeline!PrepareAndApprove

LEMMA PipelineSafety == ASSUME PipelineInvariant PROVE Pipeline!PipelineAgrees
  BY DEF PipelineInvariant, Pipeline!PipelineAgrees

-----------------------------------------------------------------------------
(* PrivacyWorkflow: with a repository the rows have what was answered, and *)
(* a copy is of somebody who has a row; without one a process has its own. *)

PrivacyIds == {"row", "own"} \X Privacy!Kinds \X Nat
PrivacyStatuses == {"RECEIVED", "GRANTED", "WITHDRAWN"} \cup RequestStatuses
PrivacyRow == [id : PrivacyIds, kind : Privacy!Kinds, user : Users \cup {NoValue},
               status : PrivacyStatuses, note : Notes \cup {NoValue}]
Adding == [pc : {"insert", "keep"}, key : PrivacyIds, entry : PrivacyRow]
Merging == [pc : {"merge"}, id : PrivacyIds, status : RequestStatuses, note : Notes]

StoresAreTables ==
  /\ privacyStore = [s \in Servers |-> privacyStore[s]]
  /\ \A s \in Servers : privacyStore[s] = [k \in Privacy!Kinds |-> privacyStore[s][k]]

PrivacyTypes ==
  /\ durable \in BOOLEAN /\ posted \in Nat
  /\ privacyRows \in [Privacy!Kinds -> Seq(PrivacyRow)]
  /\ \A k \in Privacy!Kinds : \A n \in DOMAIN privacyRows[k] :
       privacyRows[k][n].id = <<"row", k, n>> /\ privacyRows[k][n].kind = k
  /\ privacyAct \in [Subjects -> {Privacy!Idle} \cup Adding \cup Merging]
  /\ StoresAreTables
  /\ \A s \in Servers, k \in Privacy!Kinds : \A x \in DOMAIN privacyStore[s][k] :
       privacyStore[s][k][x] \in PrivacyRow
  /\ \A x \in DOMAIN told : told[x] \in PrivacyRow /\ told[x].id = x

\* With a repository: what was answered is in the table, an entry to be kept has its row,
\* and each entry kept is of somebody who has a row of that kind.
EntriesHaveRows ==
  durable =>
    /\ \A x \in DOMAIN told : \E k \in Privacy!Kinds : \E n \in DOMAIN privacyRows[k] :
         x = <<"row", k, n>> /\ told[x] = privacyRows[k][n]
    /\ \A t \in Subjects : privacyAct[t].pc = "keep" =>
         \E n \in DOMAIN privacyRows[privacyAct[t].entry.kind] :
           /\ privacyAct[t].entry.id = <<"row", privacyAct[t].entry.kind, n>>
           /\ privacyRows[privacyAct[t].entry.kind][n].user = privacyAct[t].entry.user
    /\ \A s \in Servers, k \in Privacy!Kinds : \A x \in DOMAIN privacyStore[s][k] :
         privacyStore[s][k][x].user \in Users =>
           \E n \in DOMAIN privacyRows[k] : privacyRows[k][n].user = privacyStore[s][k][x].user

\* Without one: an entry is in one process only, as it was answered.
EntriesAreOwn ==
  ~durable =>
    /\ \A k \in Privacy!Kinds : privacyRows[k] = <<>>
    /\ \A t \in Subjects : privacyAct[t] = Privacy!Idle
    /\ \A s \in Servers, k \in Privacy!Kinds : \A x \in DOMAIN privacyStore[s][k] :
         /\ x \in DOMAIN told /\ told[x] = privacyStore[s][k][x]
         /\ \E n \in Nat : n < posted /\ x = <<"own", k, n>>
         /\ \A r \in Servers : x \in DOMAIN privacyStore[r][k] => r = s

PrivacyInvariant == PrivacyTypes /\ EntriesHaveRows /\ EntriesAreOwn

LEMMA IdleIsNoWork == Privacy!Idle.pc = "idle"
  BY DEF Privacy!Idle

LEMMA PrivacyInitially == ASSUME Privacy!Init PROVE PrivacyInvariant
  <1>1. \A k \in Privacy!Kinds : privacyRows[k] = <<>>
    BY DEF Privacy!Init
  <1>2. \A s \in Servers, k \in Privacy!Kinds : DOMAIN privacyStore[s][k] = {}
    BY DEF Privacy!Init
  <1>3. StoresAreTables
    BY DEF Privacy!Init, StoresAreTables
  <1>4. PrivacyTypes
    BY <1>1, <1>2, <1>3 DEF Privacy!Init, PrivacyTypes
  <1>5. EntriesHaveRows
    BY <1>1, <1>2, IdleIsNoWork DEF Privacy!Init, EntriesHaveRows
  <1>6. EntriesAreOwn
    BY <1>1, <1>2 DEF Privacy!Init, EntriesAreOwn
  <1> QED
    BY <1>4, <1>5, <1>6 DEF PrivacyInvariant

LEMMA NewEntryType ==
  ASSUME PrivacyTypes, NEW kind \in Privacy!Kinds, NEW user \in Users,
         NEW status \in {"RECEIVED", "GRANTED", "WITHDRAWN"}
  PROVE  /\ <<"own", kind, posted>> \in PrivacyIds
         /\ LET e == Privacy!Entry(<<"own", kind, posted>>, kind, user, status)
            IN  e \in PrivacyRow /\ e.id = <<"own", kind, posted>> /\ e.kind = kind /\ e.user = user
  <1>1. <<"own", kind, posted>> \in PrivacyIds
    BY DEF PrivacyIds, PrivacyTypes
  <1> QED
    BY <1>1 DEF Privacy!Entry, PrivacyRow, PrivacyStatuses

LEMMA UpdatedType ==
  ASSUME NEW row \in PrivacyRow, NEW status \in RequestStatuses, NEW note \in Notes
  PROVE  LET new == Privacy!Updated(row, status, note)
         IN  new \in PrivacyRow /\ new.id = row.id /\ new.kind = row.kind /\ new.user = row.user
  BY DEF Privacy!Updated, PrivacyRow, PrivacyStatuses

\* What a thread turns to keeps the types and, unless it is about to keep a copy, the rest.
LEMMA TurnsTo ==
  ASSUME PrivacyInvariant, durable, NEW t \in Subjects, NEW to \in {Privacy!Idle} \cup Adding \cup Merging,
         to.pc # "keep", Privacy!Go(t, to)
  PROVE  /\ privacyAct' \in [Subjects -> {Privacy!Idle} \cup Adding \cup Merging]
         /\ \A u \in Subjects : privacyAct'[u].pc = "keep" =>
              privacyAct[u].pc = "keep" /\ privacyAct'[u] = privacyAct[u]
  BY DEF PrivacyInvariant, PrivacyTypes, Privacy!Go

LEMMA PrivacyCreateKeeps ==
  ASSUME PrivacyInvariant, NEW t \in Subjects, NEW kind \in Privacy!Kinds, NEW user \in Users,
         NEW status \in {"RECEIVED", "GRANTED", "WITHDRAWN"}, Privacy!Create(t, kind, user, status)
  PROVE  PrivacyInvariant'
  <1>1. PICK own : own = <<"own", kind, posted>>
    OBVIOUS
  <1>2. PICK e : e = Privacy!Entry(own, kind, user, status)
    OBVIOUS
  <1>3. e \in PrivacyRow /\ own \in PrivacyIds /\ e.id = own /\ e.kind = kind /\ e.user = user
    BY <1>1, <1>2, NewEntryType DEF PrivacyInvariant
  <1>4. posted' = posted + 1 /\ UNCHANGED <<durable, privacyRows>> /\ posted \in Nat
    BY DEF Privacy!Create, PrivacyInvariant, PrivacyTypes
  <1>5. CASE durable
    <2>1. PICK to : to = [pc |-> "insert", key |-> own, entry |-> e]
      OBVIOUS
    <2>2. to \in Adding /\ to.pc = "insert"
      BY <1>3, <2>1 DEF Adding
    <2>3. Privacy!Go(t, to) /\ UNCHANGED <<privacyStore, told>>
      BY <1>1, <1>2, <1>5, <2>1 DEF Privacy!Create
    <2>4. /\ privacyAct' \in [Subjects -> {Privacy!Idle} \cup Adding \cup Merging]
          /\ \A u \in Subjects : privacyAct'[u].pc = "keep" =>
               privacyAct[u].pc = "keep" /\ privacyAct'[u] = privacyAct[u]
      BY <1>5, <2>2, <2>3, TurnsTo
    <2>5. PrivacyTypes'
      BY <1>4, <2>3, <2>4 DEF PrivacyInvariant, PrivacyTypes, StoresAreTables
    <2>6. EntriesHaveRows'
      BY <1>4, <1>5, <2>3, <2>4 DEF PrivacyInvariant, EntriesHaveRows
    <2> QED
      BY <1>4, <1>5, <2>5, <2>6 DEF PrivacyInvariant, EntriesAreOwn
  <1>6. CASE ~durable
    <2>1. PICK s \in Servers : s = ServerOfCaller[t]
      BY PrivacyAssumption
    <2>2. PICK f : f = Privacy!With(privacyStore[s][kind], own, e)
      OBVIOUS
    <2>3. /\ privacyStore' = [privacyStore EXCEPT ![s][kind] = f] /\ told' = Privacy!With(told, own, e)
          /\ UNCHANGED privacyAct
      <3>1. PICK g : g = privacyStore[s][kind]
        OBVIOUS
      <3>2. privacyStore' = [privacyStore EXCEPT ![s][kind] = Privacy!With(@, own, e)]
        BY <1>1, <1>2, <1>6, <2>1 DEF Privacy!Create
      <3>3. Privacy!Answered(e) /\ UNCHANGED privacyAct
        BY <1>1, <1>2, <1>6, <2>1 DEF Privacy!Create
      <3>4. [privacyStore EXCEPT ![s][kind] = Privacy!With(@, own, e)] = [privacyStore EXCEPT ![s][kind] = f]
        BY <2>2
      <3> QED
        BY <1>3, <3>2, <3>3, <3>4 DEF Privacy!Answered
    <2>4. /\ StoresAreTables' /\ privacyStore'[s][kind] = f
          /\ \A r \in Servers, j \in Privacy!Kinds :
               r # s \/ j # kind => privacyStore'[r][j] = privacyStore[r][j]
      BY <2>3 DEF PrivacyInvariant, PrivacyTypes, StoresAreTables
    <2>5. /\ DOMAIN f = DOMAIN privacyStore[s][kind] \cup {own} /\ f[own] = e
          /\ \A x \in DOMAIN privacyStore[s][kind] : x # own => f[x] = privacyStore[s][kind][x]
      BY <2>2 DEF Privacy!With
    <2>6. /\ DOMAIN told' = DOMAIN told \cup {own} /\ told'[own] = e
          /\ \A x \in DOMAIN told : x # own => told'[x] = told[x]
      BY <2>3 DEF Privacy!With
    <2>7. \A r \in Servers, j \in Privacy!Kinds : own \notin DOMAIN privacyStore[r][j]
      BY <1>1, <1>4, <1>6 DEF PrivacyInvariant, EntriesAreOwn
    <2>8. PrivacyTypes'
      <3>1. \A r \in Servers, j \in Privacy!Kinds : \A x \in DOMAIN privacyStore'[r][j] :
              privacyStore'[r][j][x] \in PrivacyRow
        BY <1>3, <2>4, <2>5 DEF PrivacyInvariant, PrivacyTypes
      <3>2. \A x \in DOMAIN told' : told'[x] \in PrivacyRow /\ told'[x].id = x
        BY <1>3, <2>6 DEF PrivacyInvariant, PrivacyTypes
      <3> QED
        BY <1>4, <2>3, <2>4, <3>1, <3>2 DEF PrivacyInvariant, PrivacyTypes
    <2>9. \A r \in Servers, j \in Privacy!Kinds : \A x \in DOMAIN privacyStore'[r][j] :
            \/ x = own /\ r = s /\ j = kind
            \/ x # own /\ x \in DOMAIN privacyStore[r][j] /\ privacyStore'[r][j][x] = privacyStore[r][j][x]
      BY <2>4, <2>5, <2>7
    <2>10. EntriesAreOwn'
      <3>1. ASSUME NEW r \in Servers, NEW j \in Privacy!Kinds, NEW x \in DOMAIN privacyStore'[r][j]
            PROVE  /\ x \in DOMAIN told' /\ told'[x] = privacyStore'[r][j][x]
                   /\ \E n \in Nat : n < posted' /\ x = <<"own", j, n>>
                   /\ \A q \in Servers : x \in DOMAIN privacyStore'[q][j] => q = r
        <4>1. CASE x = own /\ r = s /\ j = kind
          BY <1>1, <1>4, <2>4, <2>5, <2>6, <2>9, <4>1
        <4>2. CASE x # own /\ x \in DOMAIN privacyStore[r][j] /\ privacyStore'[r][j][x] = privacyStore[r][j][x]
          <5>1. /\ x \in DOMAIN told /\ told[x] = privacyStore[r][j][x]
                /\ \E n \in Nat : n < posted /\ x = <<"own", j, n>>
                /\ \A q \in Servers : x \in DOMAIN privacyStore[q][j] => q = r
            BY <1>6, <4>2 DEF PrivacyInvariant, EntriesAreOwn
          <5>2. \E n \in Nat : n < posted' /\ x = <<"own", j, n>>
            BY <1>4, <5>1
          <5> QED
            BY <2>6, <2>9, <4>2, <5>1, <5>2
        <4> QED
          BY <2>9, <3>1, <4>1, <4>2
      <3> QED
        BY <1>4, <1>6, <2>3, <3>1 DEF PrivacyInvariant, EntriesAreOwn
    <2> QED
      BY <1>4, <1>6, <2>8, <2>10 DEF PrivacyInvariant, EntriesHaveRows
  <1> QED
    BY <1>5, <1>6 DEF PrivacyInvariant, PrivacyTypes

LEMMA PrivacyInsertKeeps ==
  ASSUME PrivacyInvariant, NEW t \in Subjects, Privacy!Insert(t) PROVE PrivacyInvariant'
  <1>1. PICK old : old = privacyAct[t]
    OBVIOUS
  <1>2. old.pc = "insert" /\ durable /\ old \in Adding
    BY <1>1, IdleIsNoWork
    DEF Privacy!Insert, Privacy!At, PrivacyInvariant, PrivacyTypes, EntriesAreOwn, Merging
  <1>3. PICK k \in Privacy!Kinds : k = old.entry.kind
    BY <1>2 DEF Adding, PrivacyRow
  <1>4. PICK last \in Nat : last = Len(privacyRows[k])
    BY DEF PrivacyInvariant, PrivacyTypes
  <1>5. PICK row : row = [old.entry EXCEPT !.id = <<"row", k, last + 1>>]
    OBVIOUS
  <1>6. <<"row", k, last + 1>> \in PrivacyIds
    BY DEF PrivacyIds
  <1>7. row \in PrivacyRow /\ row.id = <<"row", k, last + 1>> /\ row.kind = k
    BY <1>2, <1>3, <1>5, <1>6 DEF Adding, PrivacyRow
  <1>8. PICK to : to = [old EXCEPT !.pc = "keep", !.entry = row]
    OBVIOUS
  <1>9. to \in Adding /\ to.pc = "keep" /\ to.entry = row
    BY <1>2, <1>7, <1>8 DEF Adding
  <1>10. /\ privacyRows' = [privacyRows EXCEPT ![k] = Append(@, row)]
         /\ privacyAct' = [privacyAct EXCEPT ![t] = to]
         /\ UNCHANGED <<durable, privacyStore, posted, told>>
    BY <1>1, <1>3, <1>4, <1>5, <1>8 DEF Privacy!Insert, Privacy!Go
  <1>11. /\ privacyAct' \in [Subjects -> {Privacy!Idle} \cup Adding \cup Merging] /\ privacyAct'[t] = to
         /\ \A u \in Subjects : u # t => privacyAct'[u] = privacyAct[u]
    BY <1>9, <1>10 DEF PrivacyInvariant, PrivacyTypes
  <1>12. PICK list \in Seq(PrivacyRow) : list = privacyRows[k]
    BY DEF PrivacyInvariant, PrivacyTypes
  <1>13. /\ Append(list, row) \in Seq(PrivacyRow) /\ DOMAIN Append(list, row) = 1..(last + 1)
         /\ DOMAIN list = 1..last /\ Append(list, row)[last + 1] = row
         /\ \A n \in 1..last : Append(list, row)[n] = list[n]
    BY <1>4, <1>7, <1>12
  <1>14. /\ privacyRows' \in [Privacy!Kinds -> Seq(PrivacyRow)] /\ privacyRows'[k] = Append(list, row)
         /\ \A j \in Privacy!Kinds : j # k => privacyRows'[j] = privacyRows[j]
    BY <1>10, <1>12, <1>13 DEF PrivacyInvariant, PrivacyTypes
  <1>15. \A j \in Privacy!Kinds : \A n \in DOMAIN privacyRows[j] :
           n \in DOMAIN privacyRows'[j] /\ privacyRows'[j][n] = privacyRows[j][n]
    BY <1>4, <1>12, <1>13, <1>14
  <1>16. \A j \in Privacy!Kinds : \A n \in DOMAIN privacyRows'[j] :
           privacyRows'[j][n].id = <<"row", j, n>> /\ privacyRows'[j][n].kind = j
    <2>1. \A n \in 1..(last + 1) : Append(list, row)[n].id = <<"row", k, n>> /\ Append(list, row)[n].kind = k
      <3>1. \A n \in 1..last : list[n].id = <<"row", k, n>> /\ list[n].kind = k
        BY <1>12, <1>13 DEF PrivacyInvariant, PrivacyTypes
      <3>2. \A n \in 1..(last + 1) : n = last + 1 \/ n \in 1..last
        BY <1>4
      <3> QED
        BY <1>7, <1>13, <3>1, <3>2
    <2>2. \A j \in Privacy!Kinds : \A n \in DOMAIN privacyRows[j] :
            privacyRows[j][n].id = <<"row", j, n>> /\ privacyRows[j][n].kind = j
      BY DEF PrivacyInvariant, PrivacyTypes
    <2>3. ASSUME NEW j \in Privacy!Kinds, NEW n \in DOMAIN privacyRows'[j]
          PROVE  privacyRows'[j][n].id = <<"row", j, n>> /\ privacyRows'[j][n].kind = j
      <3>1. CASE j = k
        BY <1>13, <1>14, <2>1, <2>3, <3>1
      <3>2. CASE j # k
        BY <1>14, <2>2, <2>3, <3>2
      <3> QED
        BY <3>1, <3>2
    <2> QED
      BY <2>3
  <1>17. PrivacyTypes'
    BY <1>10, <1>11, <1>14, <1>16 DEF PrivacyInvariant, PrivacyTypes, StoresAreTables
  <1>18. EntriesHaveRows'
    <2>1. \A x \in DOMAIN told' : \E j \in Privacy!Kinds : \E n \in DOMAIN privacyRows'[j] :
            x = <<"row", j, n>> /\ told'[x] = privacyRows'[j][n]
      <3>1. ASSUME NEW x \in DOMAIN told
            PROVE  \E j \in Privacy!Kinds : \E n \in DOMAIN privacyRows'[j] :
                     x = <<"row", j, n>> /\ told[x] = privacyRows'[j][n]
        <4>1. PICK j \in Privacy!Kinds : \E n \in DOMAIN privacyRows[j] :
                x = <<"row", j, n>> /\ told[x] = privacyRows[j][n]
          BY <1>2, <3>1 DEF PrivacyInvariant, EntriesHaveRows
        <4> QED
          BY <1>15, <4>1
      <3> QED
        BY <1>10, <3>1
    <2>2. ASSUME NEW u \in Subjects, privacyAct'[u].pc = "keep"
          PROVE  \E n \in DOMAIN privacyRows'[privacyAct'[u].entry.kind] :
                   /\ privacyAct'[u].entry.id = <<"row", privacyAct'[u].entry.kind, n>>
                   /\ privacyRows'[privacyAct'[u].entry.kind][n].user = privacyAct'[u].entry.user
      <3>1. CASE u = t
        <4>1. last + 1 \in DOMAIN privacyRows'[k] /\ privacyRows'[k][last + 1] = row
          BY <1>4, <1>13, <1>14
        <4> QED
          BY <1>7, <1>9, <1>11, <3>1, <4>1
      <3>2. CASE u # t
        <4>1. privacyAct'[u] = privacyAct[u] /\ privacyAct[u] \in Adding
          BY <1>11, <2>2, <3>2, IdleIsNoWork DEF PrivacyInvariant, PrivacyTypes, Merging
        <4>2. PICK j \in Privacy!Kinds : j = privacyAct[u].entry.kind
          BY <4>1 DEF Adding, PrivacyRow
        <4>3. PICK n \in DOMAIN privacyRows[j] :
                privacyAct[u].entry.id = <<"row", j, n>> /\ privacyRows[j][n].user = privacyAct[u].entry.user
          BY <1>2, <2>2, <4>1, <4>2 DEF PrivacyInvariant, EntriesHaveRows
        <4> QED
          BY <1>15, <4>1, <4>2, <4>3
      <3> QED
        BY <3>1, <3>2
    <2>3. \A s \in Servers, j \in Privacy!Kinds : \A x \in DOMAIN privacyStore[s][j] :
            privacyStore[s][j][x].user \in Users =>
              \E n \in DOMAIN privacyRows'[j] : privacyRows'[j][n].user = privacyStore[s][j][x].user
      <3>1. \A s \in Servers, j \in Privacy!Kinds : \A x \in DOMAIN privacyStore[s][j] :
              privacyStore[s][j][x].user \in Users =>
                \E n \in DOMAIN privacyRows[j] : privacyRows[j][n].user = privacyStore[s][j][x].user
        BY <1>2 DEF PrivacyInvariant, EntriesHaveRows
      <3> QED
        BY <1>15, <3>1
    <2> QED
      BY <1>10, <2>1, <2>2, <2>3 DEF EntriesHaveRows
  <1> QED
    BY <1>2, <1>10, <1>17, <1>18 DEF PrivacyInvariant, EntriesAreOwn

LEMMA PrivacyFaultKeeps ==
  ASSUME PrivacyInvariant, NEW t \in Subjects, Privacy!Fault(t) PROVE PrivacyInvariant'
  <1>1. durable
    BY IdleIsNoWork DEF Privacy!Fault, Privacy!At, PrivacyInvariant, PrivacyTypes, EntriesAreOwn
  <1>2. /\ Privacy!Go(t, Privacy!Idle) /\ UNCHANGED <<durable, privacyRows, privacyStore, posted, told>>
    BY DEF Privacy!Fault
  <1>3. /\ privacyAct' \in [Subjects -> {Privacy!Idle} \cup Adding \cup Merging]
        /\ \A u \in Subjects : privacyAct'[u].pc = "keep" =>
             privacyAct[u].pc = "keep" /\ privacyAct'[u] = privacyAct[u]
    BY <1>1, <1>2, TurnsTo, IdleIsNoWork
  <1>4. PrivacyTypes'
    BY <1>2, <1>3 DEF PrivacyInvariant, PrivacyTypes, StoresAreTables
  <1>5. EntriesHaveRows'
    BY <1>1, <1>2, <1>3 DEF PrivacyInvariant, EntriesHaveRows
  <1> QED
    BY <1>1, <1>2, <1>4, <1>5 DEF PrivacyInvariant, EntriesAreOwn

PutCopy(s, k, x, e) ==
  privacyStore' = [privacyStore EXCEPT ![s][k] = Privacy!With(privacyStore[s][k], x, e)]

\* A copy put in the store of one process, of nobody or of somebody with a row of its kind.
LEMMA CopyKeeps ==
  ASSUME PrivacyInvariant, durable, NEW s \in Servers, NEW k \in Privacy!Kinds, NEW x \in PrivacyIds,
         NEW e \in PrivacyRow,
         e.user \in Users => \E n \in DOMAIN privacyRows[k] : privacyRows[k][n].user = e.user,
         PutCopy(s, k, x, e)
  PROVE  /\ StoresAreTables'
         /\ \A r \in Servers, j \in Privacy!Kinds : \A y \in DOMAIN privacyStore'[r][j] :
              /\ privacyStore'[r][j][y] \in PrivacyRow
              /\ privacyStore'[r][j][y].user \in Users =>
                   \E n \in DOMAIN privacyRows[j] : privacyRows[j][n].user = privacyStore'[r][j][y].user
  <1>1. PICK f : f = Privacy!With(privacyStore[s][k], x, e)
    OBVIOUS
  <1>2. /\ DOMAIN f = DOMAIN privacyStore[s][k] \cup {x} /\ f[x] = e
        /\ \A y \in DOMAIN privacyStore[s][k] : y # x => f[y] = privacyStore[s][k][y]
    BY <1>1 DEF Privacy!With
  <1>3. privacyStore' = [privacyStore EXCEPT ![s][k] = f]
    BY <1>1 DEF PutCopy
  <1>4. /\ StoresAreTables' /\ privacyStore'[s][k] = f
        /\ \A r \in Servers, j \in Privacy!Kinds : r # s \/ j # k => privacyStore'[r][j] = privacyStore[r][j]
    <2>1. /\ privacyStore = [r \in Servers |-> privacyStore[r]]
          /\ \A r \in Servers : privacyStore[r] = [j \in Privacy!Kinds |-> privacyStore[r][j]]
      BY DEF PrivacyInvariant, PrivacyTypes, StoresAreTables
    <2>2. PICK g : g = [privacyStore[s] EXCEPT ![k] = f]
      OBVIOUS
    <2>3. privacyStore' = [privacyStore EXCEPT ![s] = g]
      BY <1>3, <2>2
    <2>4. g = [j \in Privacy!Kinds |-> g[j]] /\ g[k] = f
          /\ \A j \in Privacy!Kinds : j # k => g[j] = privacyStore[s][j]
      BY <2>1, <2>2
    <2>5. /\ privacyStore' = [r \in Servers |-> privacyStore'[r]] /\ privacyStore'[s] = g
          /\ \A r \in Servers : r # s => privacyStore'[r] = privacyStore[r]
      BY <2>1, <2>3
    <2> QED
      BY <2>1, <2>4, <2>5 DEF StoresAreTables
  <1>5. \A r \in Servers, j \in Privacy!Kinds : \A y \in DOMAIN privacyStore[r][j] :
          /\ privacyStore[r][j][y] \in PrivacyRow
          /\ privacyStore[r][j][y].user \in Users =>
               \E n \in DOMAIN privacyRows[j] : privacyRows[j][n].user = privacyStore[r][j][y].user
    BY DEF PrivacyInvariant, PrivacyTypes, EntriesHaveRows
  <1>6. \A y \in DOMAIN f :
          /\ f[y] \in PrivacyRow
          /\ f[y].user \in Users => \E n \in DOMAIN privacyRows[k] : privacyRows[k][n].user = f[y].user
    BY <1>2, <1>5
  <1> QED
    BY <1>4, <1>5, <1>6

LEMMA PrivacyKeepKeeps ==
  ASSUME PrivacyInvariant, NEW t \in Subjects, Privacy!Keep(t) PROVE PrivacyInvariant'
  <1>1. durable /\ privacyAct[t].pc = "keep" /\ privacyAct[t] \in Adding
    BY IdleIsNoWork
    DEF Privacy!Keep, Privacy!At, PrivacyInvariant, PrivacyTypes, EntriesAreOwn, Merging
  <1>2. PICK e \in PrivacyRow : e = privacyAct[t].entry
    BY <1>1 DEF Adding
  <1>3. PICK k \in Privacy!Kinds : k = e.kind
    BY DEF PrivacyRow
  <1>4. PICK n \in DOMAIN privacyRows[k] : e.id = <<"row", k, n>> /\ privacyRows[k][n].user = e.user
    BY <1>1, <1>2, <1>3 DEF PrivacyInvariant, EntriesHaveRows
  <1>5. e.id[3] = n
    BY <1>4
  <1>6. PICK s \in Servers : s = ServerOfCaller[t]
    BY PrivacyAssumption
  <1>7. /\ privacyStore' = [privacyStore EXCEPT ![s][k] = Privacy!With(@, privacyAct[t].key, e)]
        /\ told' = Privacy!With(told, e.id, privacyRows[k][n])
        /\ Privacy!Go(t, Privacy!Idle) /\ UNCHANGED <<durable, privacyRows, posted>>
    BY <1>2, <1>3, <1>5, <1>6 DEF Privacy!Keep
  <1>8. PutCopy(s, k, privacyAct[t].key, e)
    BY <1>7 DEF PutCopy, PrivacyInvariant, PrivacyTypes, StoresAreTables
  <1>9. /\ StoresAreTables'
        /\ \A r \in Servers, j \in Privacy!Kinds : \A y \in DOMAIN privacyStore'[r][j] :
             /\ privacyStore'[r][j][y] \in PrivacyRow
             /\ privacyStore'[r][j][y].user \in Users =>
                  \E m \in DOMAIN privacyRows[j] : privacyRows[j][m].user = privacyStore'[r][j][y].user
    <2>1. privacyAct[t].key \in PrivacyIds
      BY <1>1 DEF Adding
    <2> QED
      BY <1>1, <1>4, <1>7, <1>8, <2>1, CopyKeeps
  <1>10. /\ privacyAct' \in [Subjects -> {Privacy!Idle} \cup Adding \cup Merging]
         /\ \A u \in Subjects : privacyAct'[u].pc = "keep" =>
              privacyAct[u].pc = "keep" /\ privacyAct'[u] = privacyAct[u]
    BY <1>1, <1>7, TurnsTo, IdleIsNoWork
  <1>11. /\ DOMAIN told' = DOMAIN told \cup {e.id} /\ told'[e.id] = privacyRows[k][n]
         /\ \A x \in DOMAIN told : x # e.id => told'[x] = told[x]
    BY <1>7 DEF Privacy!With
  <1>12. privacyRows[k][n] \in PrivacyRow /\ privacyRows[k][n].id = e.id
    BY <1>4 DEF PrivacyInvariant, PrivacyTypes
  <1>13. PrivacyTypes'
    <2>1. \A x \in DOMAIN told' : told'[x] \in PrivacyRow /\ told'[x].id = x
      BY <1>11, <1>12 DEF PrivacyInvariant, PrivacyTypes
    <2> QED
      BY <1>7, <1>9, <1>10, <2>1 DEF PrivacyInvariant, PrivacyTypes
  <1>14. EntriesHaveRows'
    <2>1. \A x \in DOMAIN told' : \E j \in Privacy!Kinds : \E m \in DOMAIN privacyRows[j] :
            x = <<"row", j, m>> /\ told'[x] = privacyRows[j][m]
      BY <1>1, <1>4, <1>11 DEF PrivacyInvariant, EntriesHaveRows
    <2>2. \A u \in Subjects : privacyAct'[u].pc = "keep" =>
            \E m \in DOMAIN privacyRows[privacyAct'[u].entry.kind] :
              /\ privacyAct'[u].entry.id = <<"row", privacyAct'[u].entry.kind, m>>
              /\ privacyRows[privacyAct'[u].entry.kind][m].user = privacyAct'[u].entry.user
      BY <1>1, <1>10 DEF PrivacyInvariant, EntriesHaveRows
    <2> QED
      BY <1>7, <1>9, <2>1, <2>2 DEF EntriesHaveRows
  <1> QED
    BY <1>1, <1>7, <1>13, <1>14 DEF PrivacyInvariant, EntriesAreOwn

LEMMA MergeKeeps ==
  ASSUME PrivacyInvariant, NEW t \in Subjects, Privacy!Merge(t) PROVE PrivacyInvariant'
  <1>1. durable /\ privacyAct[t] \in Merging
    BY IdleIsNoWork
    DEF Privacy!Merge, Privacy!At, PrivacyInvariant, PrivacyTypes, EntriesAreOwn, Adding
  <1>2. PICK s \in Servers : s = ServerOfCaller[t]
    BY PrivacyAssumption
  <1>3. PICK id \in PrivacyIds, status \in RequestStatuses, note \in Notes :
          id = privacyAct[t].id /\ status = privacyAct[t].status /\ note = privacyAct[t].note
    BY <1>1 DEF Merging
  <1>4. PICK k \in Privacy!Kinds : k = "request"
    BY DEF Privacy!Kinds
  <1>5. PICK mine : mine = privacyStore[s][k]
    OBVIOUS
  <1>6. PICK known : known = IF id \in DOMAIN mine THEN mine[id] ELSE Privacy!Entry(id, "request", NoValue, NoValue)
    OBVIOUS
  <1>7. PICK e : e = Privacy!Updated(known, status, note)
    OBVIOUS
  <1>8. /\ privacyStore' = [privacyStore EXCEPT ![s][k] = Privacy!With(@, id, e)]
        /\ Privacy!Go(t, Privacy!Idle) /\ UNCHANGED <<durable, privacyRows, posted, told>>
    BY <1>2, <1>3, <1>4, <1>5, <1>6, <1>7 DEF Privacy!Merge
  <1>9. PutCopy(s, k, id, e)
    BY <1>8 DEF PutCopy, PrivacyInvariant, PrivacyTypes, StoresAreTables
  <1>10. e \in PrivacyRow /\ (e.user \in Users => \E n \in DOMAIN privacyRows[k] : privacyRows[k][n].user = e.user)
    <2>1. CASE id \in DOMAIN mine
      <3>1. /\ known = mine[id] /\ known \in PrivacyRow
            /\ known.user \in Users => \E n \in DOMAIN privacyRows[k] : privacyRows[k][n].user = known.user
        BY <1>1, <1>5, <1>6, <2>1 DEF PrivacyInvariant, PrivacyTypes, EntriesHaveRows
      <3> QED
        BY <1>7, <3>1, UpdatedType
    <2>2. CASE id \notin DOMAIN mine
      <3>1. known = [id |-> id, kind |-> "request", user |-> NoValue, status |-> NoValue, note |-> NoValue]
        BY <1>6, <2>2 DEF Privacy!Entry
      <3>2. e = [id |-> id, kind |-> "request", user |-> NoValue, status |-> status, note |-> note]
        BY <1>7, <3>1 DEF Privacy!Updated
      <3>3. e \in PrivacyRow /\ e.user = NoValue
        BY <1>4, <3>2 DEF PrivacyRow, PrivacyStatuses
      <3> QED
        BY <3>3, PrivacyAssumption
    <2> QED
      BY <2>1, <2>2
  <1>11. /\ StoresAreTables'
         /\ \A r \in Servers, j \in Privacy!Kinds : \A y \in DOMAIN privacyStore'[r][j] :
              /\ privacyStore'[r][j][y] \in PrivacyRow
              /\ privacyStore'[r][j][y].user \in Users =>
                   \E m \in DOMAIN privacyRows[j] : privacyRows[j][m].user = privacyStore'[r][j][y].user
    BY <1>1, <1>8, <1>9, <1>10, CopyKeeps
  <1>12. /\ privacyAct' \in [Subjects -> {Privacy!Idle} \cup Adding \cup Merging]
         /\ \A u \in Subjects : privacyAct'[u].pc = "keep" =>
              privacyAct[u].pc = "keep" /\ privacyAct'[u] = privacyAct[u]
    BY <1>1, <1>8, TurnsTo, IdleIsNoWork
  <1>13. PrivacyTypes'
    BY <1>8, <1>11, <1>12 DEF PrivacyInvariant, PrivacyTypes
  <1>14. EntriesHaveRows'
    <2>1. \A u \in Subjects : privacyAct'[u].pc = "keep" =>
            \E m \in DOMAIN privacyRows[privacyAct'[u].entry.kind] :
              /\ privacyAct'[u].entry.id = <<"row", privacyAct'[u].entry.kind, m>>
              /\ privacyRows[privacyAct'[u].entry.kind][m].user = privacyAct'[u].entry.user
      BY <1>1, <1>12 DEF PrivacyInvariant, EntriesHaveRows
    <2>2. \A x \in DOMAIN told : \E j \in Privacy!Kinds : \E m \in DOMAIN privacyRows[j] :
            x = <<"row", j, m>> /\ told[x] = privacyRows[j][m]
      BY <1>1 DEF PrivacyInvariant, EntriesHaveRows
    <2> QED
      BY <1>8, <1>11, <2>1, <2>2 DEF EntriesHaveRows
  <1> QED
    BY <1>1, <1>8, <1>13, <1>14 DEF PrivacyInvariant, EntriesAreOwn

LEMMA PatchRowKeeps ==
  ASSUME PrivacyInvariant, durable, NEW t \in Subjects, NEW e \in Privacy!Known, NEW status \in RequestStatuses,
         NEW note \in Notes, Privacy!Patch(t, e, status, note)
  PROVE  PrivacyInvariant'
  <1>1. PICK k \in Privacy!Kinds : k = "request"
    BY DEF Privacy!Kinds
  <1>2. PICK n \in DOMAIN privacyRows[k] : e = privacyRows[k][n] /\ e.id = <<"row", k, n>>
    <2>1. CASE e \in {told[x] : x \in DOMAIN told}
      <3>1. PICK x \in DOMAIN told : e = told[x]
        BY <2>1
      <3>2. PICK j \in Privacy!Kinds : \E n \in DOMAIN privacyRows[j] : x = <<"row", j, n>> /\ e = privacyRows[j][n]
        BY <3>1 DEF PrivacyInvariant, EntriesHaveRows
      <3>3. PICK n \in DOMAIN privacyRows[j] : e = privacyRows[j][n]
        BY <3>2
      <3>4. e.kind = j /\ e.id = <<"row", j, n>> /\ e.kind = "request"
        BY <3>3 DEF Privacy!Patch, PrivacyInvariant, PrivacyTypes
      <3> QED
        BY <1>1, <3>3, <3>4
    <2>2. CASE e \in {privacyRows["request"][n] : n \in DOMAIN privacyRows["request"]}
      BY <1>1, <2>2 DEF PrivacyInvariant, PrivacyTypes
    <2> QED
      BY <2>1, <2>2 DEF Privacy!Known
  <1>3. e.id[3] = n
    BY <1>2
  <1>4. PICK row : row = Privacy!Updated(e, status, note)
    OBVIOUS
  <1>5. e \in PrivacyRow
    BY <1>2 DEF PrivacyInvariant, PrivacyTypes
  <1>6. row \in PrivacyRow /\ row.id = e.id /\ row.kind = e.kind /\ row.user = e.user
    BY <1>4, <1>5, UpdatedType
  <1>7. PICK to : to = [pc |-> "merge", id |-> e.id, status |-> status, note |-> note]
    OBVIOUS
  <1>8. to \in Merging /\ to.pc = "merge"
    BY <1>5, <1>7 DEF Merging, PrivacyRow
  <1>9. /\ privacyRows' = [privacyRows EXCEPT ![k][n] = row] /\ Privacy!Go(t, to)
        /\ told' = IF e.id \in DOMAIN told
                     THEN [told EXCEPT ![e.id] = Privacy!Updated(@, status, note)] ELSE told
        /\ UNCHANGED <<durable, privacyStore, posted>>
    <2>1. /\ privacyRows' = [privacyRows EXCEPT !["request"][e.id[3]] = Privacy!Updated(@, status, note)]
          /\ Privacy!Go(t, to) /\ UNCHANGED <<durable, privacyStore, posted>>
      BY <1>7 DEF Privacy!Patch
    <2>2. told' = IF e.id \in DOMAIN told /\ (durable \/ e.id \in DOMAIN privacyStore[ServerOfCaller[t]]["request"])
                    THEN [told EXCEPT ![e.id] = Privacy!Updated(@, status, note)] ELSE told
      BY DEF Privacy!Patch
    <2>3. privacyRows' = [privacyRows EXCEPT ![k][n] = Privacy!Updated(privacyRows[k][n], status, note)]
      BY <1>1, <1>2, <1>3, <2>1 DEF PrivacyInvariant, PrivacyTypes
    <2> QED
      BY <1>2, <1>4, <2>1, <2>2, <2>3
  <1>10. /\ privacyAct' \in [Subjects -> {Privacy!Idle} \cup Adding \cup Merging]
         /\ \A u \in Subjects : privacyAct'[u].pc = "keep" =>
              privacyAct[u].pc = "keep" /\ privacyAct'[u] = privacyAct[u]
    BY <1>8, <1>9, TurnsTo
  <1>11. PICK list \in Seq(PrivacyRow) : list = privacyRows[k]
    BY DEF PrivacyInvariant, PrivacyTypes
  <1>12. PICK next : next = [list EXCEPT ![n] = row]
    OBVIOUS
  <1>13. /\ next \in Seq(PrivacyRow) /\ DOMAIN next = DOMAIN list /\ next[n] = row
         /\ \A m \in DOMAIN list : m # n => next[m] = list[m]
    BY <1>2, <1>6, <1>11, <1>12
  <1>14. privacyRows' = [privacyRows EXCEPT ![k] = next]
    BY <1>9, <1>11, <1>12
  <1>15. /\ privacyRows' \in [Privacy!Kinds -> Seq(PrivacyRow)] /\ privacyRows'[k] = next
         /\ \A j \in Privacy!Kinds : j # k => privacyRows'[j] = privacyRows[j]
    BY <1>13, <1>14 DEF PrivacyInvariant, PrivacyTypes
  <1>16. \A j \in Privacy!Kinds : DOMAIN privacyRows'[j] = DOMAIN privacyRows[j]
           /\ \A m \in DOMAIN privacyRows[j] : \/ privacyRows'[j][m] = privacyRows[j][m] /\ (j # k \/ m # n)
                                               \/ privacyRows'[j][m] = row /\ j = k /\ m = n
    BY <1>11, <1>13, <1>15
  <1>17. \A j \in Privacy!Kinds : \A m \in DOMAIN privacyRows[j] :
           privacyRows'[j][m].user = privacyRows[j][m].user /\ privacyRows'[j][m].id = privacyRows[j][m].id
           /\ privacyRows'[j][m].kind = privacyRows[j][m].kind
    BY <1>2, <1>6, <1>16
  <1>18. /\ DOMAIN told' = DOMAIN told
         /\ \A x \in DOMAIN told : x # e.id => told'[x] = told[x]
         /\ e.id \in DOMAIN told => told'[e.id] = row
    <2>1. e.id \in DOMAIN told => told[e.id] = e
      <3>1. ASSUME e.id \in DOMAIN told PROVE told[e.id] = e
        <4>1. PICK j \in Privacy!Kinds : \E m \in DOMAIN privacyRows[j] :
                e.id = <<"row", j, m>> /\ told[e.id] = privacyRows[j][m]
          BY <3>1 DEF PrivacyInvariant, EntriesHaveRows
        <4>2. PICK m \in DOMAIN privacyRows[j] : e.id = <<"row", j, m>> /\ told[e.id] = privacyRows[j][m]
          BY <4>1
        <4>3. j = k /\ m = n
          BY <1>2, <4>2
        <4> QED
          BY <1>2, <4>2, <4>3
      <3> QED
        BY <3>1
    <2>2. CASE e.id \in DOMAIN told
      <3>1. told' = [told EXCEPT ![e.id] = row]
        BY <1>4, <1>9, <2>1, <2>2
      <3> QED
        BY <2>2, <3>1
    <2>3. CASE e.id \notin DOMAIN told
      BY <1>9, <2>3
    <2> QED
      BY <2>2, <2>3
  <1>19. PrivacyTypes'
    <2>1. \A j \in Privacy!Kinds : \A m \in DOMAIN privacyRows'[j] :
            privacyRows'[j][m].id = <<"row", j, m>> /\ privacyRows'[j][m].kind = j
      BY <1>16, <1>17 DEF PrivacyInvariant, PrivacyTypes
    <2>2. \A x \in DOMAIN told' : told'[x] \in PrivacyRow /\ told'[x].id = x
      BY <1>6, <1>18 DEF PrivacyInvariant, PrivacyTypes
    <2> QED
      BY <1>9, <1>10, <1>15, <2>1, <2>2 DEF PrivacyInvariant, PrivacyTypes, StoresAreTables
  <1>20. EntriesHaveRows'
    <2>1. ASSUME NEW x \in DOMAIN told
          PROVE  \E j \in Privacy!Kinds : \E m \in DOMAIN privacyRows[j] :
                   x = <<"row", j, m>> /\ told'[x] = privacyRows'[j][m]
      <3>1. CASE x = e.id
        BY <1>2, <1>16, <1>18, <2>1, <3>1
      <3>2. CASE x # e.id
        <4>1. PICK j \in Privacy!Kinds : \E m \in DOMAIN privacyRows[j] :
                x = <<"row", j, m>> /\ told[x] = privacyRows[j][m]
          BY <2>1 DEF PrivacyInvariant, EntriesHaveRows
        <4>2. PICK m \in DOMAIN privacyRows[j] : x = <<"row", j, m>> /\ told[x] = privacyRows[j][m]
          BY <4>1
        <4>3. privacyRows'[j][m] = privacyRows[j][m]
          BY <1>2, <1>16, <3>2, <4>2
        <4> QED
          BY <1>18, <2>1, <3>2, <4>2, <4>3
      <3> QED
        BY <3>1, <3>2
    <2>2. ASSUME NEW u \in Subjects, privacyAct'[u].pc = "keep"
          PROVE  \E m \in DOMAIN privacyRows'[privacyAct'[u].entry.kind] :
                   /\ privacyAct'[u].entry.id = <<"row", privacyAct'[u].entry.kind, m>>
                   /\ privacyRows'[privacyAct'[u].entry.kind][m].user = privacyAct'[u].entry.user
      <3>1. privacyAct'[u] = privacyAct[u] /\ privacyAct[u] \in Adding
        BY <1>10, <2>2, IdleIsNoWork DEF PrivacyInvariant, PrivacyTypes, Merging
      <3>2. PICK j \in Privacy!Kinds : j = privacyAct[u].entry.kind
        BY <3>1 DEF Adding, PrivacyRow
      <3>3. PICK m \in DOMAIN privacyRows[j] :
              privacyAct[u].entry.id = <<"row", j, m>> /\ privacyRows[j][m].user = privacyAct[u].entry.user
        BY <1>10, <2>2, <3>2 DEF PrivacyInvariant, EntriesHaveRows
      <3> QED
        BY <1>16, <1>17, <3>1, <3>2, <3>3
    <2>3. \A s \in Servers, j \in Privacy!Kinds : \A x \in DOMAIN privacyStore[s][j] :
            privacyStore[s][j][x].user \in Users =>
              \E m \in DOMAIN privacyRows'[j] : privacyRows'[j][m].user = privacyStore[s][j][x].user
      <3>1. \A s \in Servers, j \in Privacy!Kinds : \A x \in DOMAIN privacyStore[s][j] :
              privacyStore[s][j][x].user \in Users =>
                \E m \in DOMAIN privacyRows[j] : privacyRows[j][m].user = privacyStore[s][j][x].user
        BY DEF PrivacyInvariant, EntriesHaveRows
      <3> QED
        BY <1>16, <1>17, <3>1
    <2> QED
      BY <1>9, <1>16, <1>18, <2>1, <2>2, <2>3 DEF EntriesHaveRows
  <1> QED
    BY <1>9, <1>19, <1>20 DEF PrivacyInvariant, EntriesAreOwn

LEMMA PatchEntryKeeps ==
  ASSUME PrivacyInvariant, ~durable, NEW t \in Subjects, NEW e \in Privacy!Known,
         NEW status \in RequestStatuses, NEW note \in Notes, Privacy!Patch(t, e, status, note)
  PROVE  PrivacyInvariant'
  <1>1. PICK k \in Privacy!Kinds : k = "request"
    BY DEF Privacy!Kinds
  <1>2. PICK s \in Servers : s = ServerOfCaller[t]
    BY PrivacyAssumption
  <1>3. PICK id \in DOMAIN told : e = told[id] /\ id = e.id
    <2>1. privacyRows["request"] = <<>>
      BY <1>1 DEF PrivacyInvariant, EntriesAreOwn
    <2>2. PICK id \in DOMAIN told : e = told[id]
      BY <2>1 DEF Privacy!Known
    <2> QED
      BY <2>2 DEF PrivacyInvariant, PrivacyTypes
  <1>4. UNCHANGED <<durable, privacyRows, privacyAct, posted>>
    BY DEF Privacy!Patch
  <1>5. CASE id \notin DOMAIN privacyStore[s][k]
    <2>1. UNCHANGED <<told, privacyStore>>
      BY <1>1, <1>2, <1>3, <1>5 DEF Privacy!Patch
    <2>2. PrivacyTypes'
      BY <1>4, <2>1 DEF PrivacyInvariant, PrivacyTypes, StoresAreTables
    <2>3. EntriesAreOwn'
      BY <1>4, <2>1 DEF PrivacyInvariant, EntriesAreOwn
    <2> QED
      BY <1>4, <2>2, <2>3 DEF PrivacyInvariant, EntriesHaveRows
  <1>6. CASE id \in DOMAIN privacyStore[s][k]
    <2>1. privacyStore[s][k][id] = e /\ e \in PrivacyRow
      BY <1>3, <1>6 DEF PrivacyInvariant, PrivacyTypes, EntriesAreOwn
    <2>2. PICK new : new = Privacy!Updated(e, status, note)
      OBVIOUS
    <2>3. new \in PrivacyRow /\ new.id = id /\ new.user = e.user
      BY <1>3, <2>1, <2>2, UpdatedType
    <2>4. told' = [told EXCEPT ![id] = new]
      <3>1. told' = [told EXCEPT ![id] = Privacy!Updated(@, status, note)]
        BY <1>1, <1>2, <1>3, <1>6 DEF Privacy!Patch
      <3> QED
        BY <1>3, <2>2, <3>1
    <2>5. PICK f : f = [privacyStore[s][k] EXCEPT ![id] = new]
      OBVIOUS
    <2>6. privacyStore' = [privacyStore EXCEPT ![s][k] = f]
      <3>1. privacyStore' = [privacyStore EXCEPT ![s][k][id] = Privacy!Updated(@, status, note)]
        BY <1>1, <1>2, <1>3, <1>6 DEF Privacy!Patch
      <3>2. [privacyStore EXCEPT ![s][k][id] = Privacy!Updated(@, status, note)]
              = [privacyStore EXCEPT ![s][k] = [privacyStore[s][k] EXCEPT ![id] = Privacy!Updated(privacyStore[s][k][id], status, note)]]
        BY DEF PrivacyInvariant, PrivacyTypes, StoresAreTables
      <3> QED
        BY <2>1, <2>2, <2>5, <3>1, <3>2
    <2>7. /\ StoresAreTables' /\ privacyStore'[s][k] = f
          /\ \A r \in Servers, j \in Privacy!Kinds : r # s \/ j # k => privacyStore'[r][j] = privacyStore[r][j]
      BY <2>6 DEF PrivacyInvariant, PrivacyTypes, StoresAreTables
    <2>8. /\ DOMAIN f = DOMAIN privacyStore[s][k] /\ f[id] = new
          /\ \A x \in DOMAIN f : x # id => f[x] = privacyStore[s][k][x]
      BY <1>6, <2>5
    <2>9. /\ DOMAIN told' = DOMAIN told /\ told'[id] = new
          /\ \A x \in DOMAIN told : x # id => told'[x] = told[x]
      BY <1>3, <2>4
    <2>10. \A r \in Servers, j \in Privacy!Kinds : id \in DOMAIN privacyStore[r][j] => r = s /\ j = k
      <3>1. \A r \in Servers, j \in Privacy!Kinds : \A x \in DOMAIN privacyStore[r][j] :
              /\ \E n \in Nat : n < posted /\ x = <<"own", j, n>>
              /\ x[2] = j
        BY DEF PrivacyInvariant, EntriesAreOwn
      <3>2. \A r \in Servers, j \in Privacy!Kinds : id \in DOMAIN privacyStore[r][j] => j = k
        BY <1>6, <3>1
      <3> QED
        BY <1>6, <3>2 DEF PrivacyInvariant, EntriesAreOwn
    <2>11. \A r \in Servers, j \in Privacy!Kinds : DOMAIN privacyStore'[r][j] = DOMAIN privacyStore[r][j]
             /\ \A x \in DOMAIN privacyStore[r][j] :
                  \/ x = id /\ privacyStore'[r][j][x] = new
                  \/ x # id /\ privacyStore'[r][j][x] = privacyStore[r][j][x]
      BY <2>7, <2>8, <2>10
    <2>12. PrivacyTypes'
      <3>1. \A r \in Servers, j \in Privacy!Kinds : \A x \in DOMAIN privacyStore'[r][j] :
              privacyStore'[r][j][x] \in PrivacyRow
        <4>1. \A r \in Servers, j \in Privacy!Kinds : \A x \in DOMAIN privacyStore[r][j] :
                privacyStore[r][j][x] \in PrivacyRow
          BY DEF PrivacyInvariant, PrivacyTypes
        <4> QED
          BY <2>3, <2>11, <4>1
      <3>2. \A x \in DOMAIN told' : told'[x] \in PrivacyRow /\ told'[x].id = x
        BY <2>3, <2>9 DEF PrivacyInvariant, PrivacyTypes
      <3> QED
        BY <1>4, <2>7, <3>1, <3>2 DEF PrivacyInvariant, PrivacyTypes
    <2>13. EntriesAreOwn'
      <3>1. ASSUME NEW r \in Servers, NEW j \in Privacy!Kinds, NEW x \in DOMAIN privacyStore[r][j]
            PROVE  /\ x \in DOMAIN told' /\ told'[x] = privacyStore'[r][j][x]
                   /\ \E n \in Nat : n < posted /\ x = <<"own", j, n>>
                   /\ \A q \in Servers : x \in DOMAIN privacyStore'[q][j] => q = r
        <4>1. /\ x \in DOMAIN told /\ told[x] = privacyStore[r][j][x]
              /\ \E n \in Nat : n < posted /\ x = <<"own", j, n>>
              /\ \A q \in Servers : x \in DOMAIN privacyStore[q][j] => q = r
          BY <3>1 DEF PrivacyInvariant, EntriesAreOwn
        <4> QED
          BY <2>9, <2>11, <3>1, <4>1
      <3> QED
        BY <1>4, <2>11, <3>1 DEF PrivacyInvariant, EntriesAreOwn
    <2> QED
      BY <1>4, <2>12, <2>13 DEF PrivacyInvariant, EntriesHaveRows
  <1> QED
    BY <1>5, <1>6

LEMMA PrivacyRestartKeeps ==
  ASSUME PrivacyInvariant, NEW s \in Servers, Privacy!Restart(s) PROVE PrivacyInvariant'
  <1>1. /\ privacyStore' = [privacyStore EXCEPT ![s] = [k \in Privacy!Kinds |-> [x \in {} |-> NoValue]]]
        /\ privacyAct' = [t \in Subjects |-> IF ServerOfCaller[t] = s THEN Privacy!Idle ELSE privacyAct[t]]
        /\ UNCHANGED <<durable, privacyRows, posted>>
    BY DEF Privacy!Restart
  <1>2. /\ StoresAreTables' /\ \A k \in Privacy!Kinds : DOMAIN privacyStore'[s][k] = {}
        /\ \A r \in Servers : r # s => privacyStore'[r] = privacyStore[r]
    BY <1>1 DEF PrivacyInvariant, PrivacyTypes, StoresAreTables
  <1>3. /\ privacyAct' \in [Subjects -> {Privacy!Idle} \cup Adding \cup Merging]
        /\ \A t \in Subjects : privacyAct'[t] = Privacy!Idle \/ privacyAct'[t] = privacyAct[t]
    BY <1>1 DEF PrivacyInvariant, PrivacyTypes
  <1>4. /\ DOMAIN told' \subseteq DOMAIN told /\ \A x \in DOMAIN told' : told'[x] = told[x]
        /\ durable => told' = told
        /\ ~durable => \A x \in DOMAIN told :
             (\A k \in Privacy!Kinds : x \notin DOMAIN privacyStore[s][k]) => x \in DOMAIN told'
    <2>1. CASE durable
      BY <2>1 DEF Privacy!Restart
    <2>2. CASE ~durable
      <3>1. PICK lost : lost = UNION {DOMAIN privacyStore[s][k] : k \in Privacy!Kinds}
        OBVIOUS
      <3>2. told' = [x \in (DOMAIN told) \ lost |-> told[x]]
        BY <2>2, <3>1 DEF Privacy!Restart
      <3>3. \A x : x \in lost => \E k \in Privacy!Kinds : x \in DOMAIN privacyStore[s][k]
        BY <3>1
      <3> QED
        BY <2>2, <3>2, <3>3
    <2> QED
      BY <2>1, <2>2
  <1>5. \A r \in Servers, k \in Privacy!Kinds : \A x \in DOMAIN privacyStore'[r][k] :
          r # s /\ x \in DOMAIN privacyStore[r][k] /\ privacyStore'[r][k] = privacyStore[r][k]
    BY <1>2
  <1>6. PrivacyTypes'
    <2>1. \A r \in Servers, k \in Privacy!Kinds : \A x \in DOMAIN privacyStore'[r][k] :
            privacyStore'[r][k][x] \in PrivacyRow
      BY <1>5 DEF PrivacyInvariant, PrivacyTypes
    <2>2. \A x \in DOMAIN told' : told'[x] \in PrivacyRow /\ told'[x].id = x
      BY <1>4 DEF PrivacyInvariant, PrivacyTypes
    <2> QED
      BY <1>1, <1>2, <1>3, <2>1, <2>2 DEF PrivacyInvariant, PrivacyTypes
  <1>7. EntriesHaveRows'
    <2>1. SUFFICES ASSUME durable PROVE EntriesHaveRows'
      BY <1>1 DEF EntriesHaveRows
    <2>2. \A r \in Servers, k \in Privacy!Kinds : \A x \in DOMAIN privacyStore'[r][k] :
            privacyStore'[r][k][x].user \in Users =>
              \E n \in DOMAIN privacyRows[k] : privacyRows[k][n].user = privacyStore'[r][k][x].user
      BY <1>5, <2>1 DEF PrivacyInvariant, EntriesHaveRows
    <2>3. \A t \in Subjects : privacyAct'[t].pc = "keep" =>
            \E n \in DOMAIN privacyRows[privacyAct'[t].entry.kind] :
              /\ privacyAct'[t].entry.id = <<"row", privacyAct'[t].entry.kind, n>>
              /\ privacyRows[privacyAct'[t].entry.kind][n].user = privacyAct'[t].entry.user
      BY <1>3, <2>1, IdleIsNoWork DEF PrivacyInvariant, EntriesHaveRows
    <2>4. \A x \in DOMAIN told' : \E k \in Privacy!Kinds : \E n \in DOMAIN privacyRows[k] :
            x = <<"row", k, n>> /\ told'[x] = privacyRows[k][n]
      BY <1>4, <2>1 DEF PrivacyInvariant, EntriesHaveRows
    <2> QED
      BY <1>1, <2>2, <2>3, <2>4 DEF EntriesHaveRows
  <1>8. EntriesAreOwn'
    <2>1. SUFFICES ASSUME ~durable PROVE EntriesAreOwn'
      BY <1>1 DEF EntriesAreOwn
    <2>2. ASSUME NEW r \in Servers, NEW k \in Privacy!Kinds, NEW x \in DOMAIN privacyStore'[r][k]
          PROVE  /\ x \in DOMAIN told' /\ told'[x] = privacyStore'[r][k][x]
                 /\ \E n \in Nat : n < posted /\ x = <<"own", k, n>>
                 /\ \A q \in Servers : x \in DOMAIN privacyStore'[q][k] => q = r
      <3>1. r # s /\ x \in DOMAIN privacyStore[r][k] /\ privacyStore'[r][k] = privacyStore[r][k]
        BY <1>5, <2>2
      <3>2. /\ x \in DOMAIN told /\ told[x] = privacyStore[r][k][x]
            /\ \E n \in Nat : n < posted /\ x = <<"own", k, n>>
            /\ \A q \in Servers : x \in DOMAIN privacyStore[q][k] => q = r
        BY <2>1, <3>1 DEF PrivacyInvariant, EntriesAreOwn
      <3>3. \A j \in Privacy!Kinds : x \notin DOMAIN privacyStore[s][j]
        <4>1. SUFFICES ASSUME NEW j \in Privacy!Kinds, x \in DOMAIN privacyStore[s][j] PROVE FALSE
          OBVIOUS
        <4>2. PICK n \in Nat : x = <<"own", j, n>>
          BY <2>1, <4>1 DEF PrivacyInvariant, EntriesAreOwn
        <4>3. j = k
          BY <3>2, <4>2
        <4> QED
          BY <3>1, <3>2, <4>1, <4>3
      <3>4. x \in DOMAIN told' /\ told'[x] = told[x]
        BY <1>4, <2>1, <3>2, <3>3
      <3>5. \A q \in Servers : x \in DOMAIN privacyStore'[q][k] => q = r
        BY <1>5, <3>2
      <3> QED
        BY <3>1, <3>2, <3>4, <3>5
    <2> QED
      BY <1>1, <1>3, <2>1, <2>2 DEF PrivacyInvariant, EntriesAreOwn
  <1> QED
    BY <1>6, <1>7, <1>8 DEF PrivacyInvariant

LEMMA PrivacyStep ==
  ASSUME PrivacyInvariant, [Privacy!Next]_(Privacy!vars) PROVE PrivacyInvariant'
  <1>1. CASE UNCHANGED Privacy!vars
    BY <1>1 DEF Privacy!vars, PrivacyInvariant, PrivacyTypes, StoresAreTables, EntriesHaveRows, EntriesAreOwn
  <1>2. ASSUME NEW t \in Subjects, NEW u \in Users, Privacy!PostRequest(t, u) PROVE PrivacyInvariant'
    BY <1>2, PrivacyCreateKeeps DEF Privacy!PostRequest, Privacy!Kinds
  <1>3. ASSUME NEW t \in Subjects, NEW u \in Users, NEW granted \in BOOLEAN, Privacy!PostConsent(t, u, granted)
        PROVE  PrivacyInvariant'
    <2>1. "consent" \in Privacy!Kinds
      BY DEF Privacy!Kinds
    <2>2. PICK status \in {"RECEIVED", "GRANTED", "WITHDRAWN"} : Privacy!Create(t, "consent", u, status)
      BY <1>3 DEF Privacy!PostConsent
    <2> QED
      BY <2>1, <2>2, PrivacyCreateKeeps
  <1>4. ASSUME NEW t \in Subjects, NEW e \in Privacy!Known, NEW status \in RequestStatuses, NEW note \in Notes,
               Privacy!Patch(t, e, status, note)
        PROVE  PrivacyInvariant'
    BY <1>4, PatchRowKeeps, PatchEntryKeeps
  <1> QED
    BY <1>1, <1>2, <1>3, <1>4, PrivacyInsertKeeps, PrivacyKeepKeeps, MergeKeeps, PrivacyFaultKeeps, PrivacyRestartKeeps
    DEF Privacy!Next

LEMMA PrivacySafety ==
  ASSUME PrivacyInvariant PROVE Privacy!ExportIsComplete
  <1>1. \A set : Privacy!Cardinality(set) = Cardinality(set)
    BY Zenon DEF Privacy!Cardinality, Cardinality
  <1> SUFFICES ASSUME NEW s \in Servers, NEW u \in Users
               PROVE  LET sh == Privacy!Exported(s, u)  Of(id) == {x \in sh : x[2].id = id} IN
                      /\ \A x \in sh : x[2].user = u /\ Privacy!Cardinality(Of(x[2].id)) = 1
                      /\ \A id \in DOMAIN told :
                           told[id].user = u =>
                             \/ \E x \in Of(id) : x[2] = told[id]
                             \/ ~durable /\ id \notin DOMAIN privacyStore[s]["request"]
                                                      \cup DOMAIN privacyStore[s]["consent"]
    BY DEF Privacy!ExportIsComplete
  <1>2. PICK sh : sh = Privacy!Exported(s, u)
    OBVIOUS
  <1>3. sh = Privacy!Shown(s, "request", u) \cup Privacy!Shown(s, "consent", u)
        /\ "request" \in Privacy!Kinds /\ "consent" \in Privacy!Kinds
    BY <1>2 DEF Privacy!Exported, Privacy!Kinds
  <1>4. ASSUME durable
        PROVE  \A k \in Privacy!Kinds :
                 Privacy!Shown(s, k, u) = {<<privacyRows[k][n].id, privacyRows[k][n]>> :
                                             n \in {m \in DOMAIN privacyRows[k] : privacyRows[k][m].user = u}}
    <2>1. SUFFICES ASSUME NEW k \in Privacy!Kinds PROVE Privacy!Shown(s, k, u) = Privacy!RowsOf(k, u)
      BY DEF Privacy!RowsOf
    <2>2. CASE Privacy!RowsOf(k, u) # {}
      BY <1>4, <2>2 DEF Privacy!Shown
    <2>3. CASE Privacy!RowsOf(k, u) = {}
      <3>1. \A n \in DOMAIN privacyRows[k] : privacyRows[k][n].user # u
        BY <2>3 DEF Privacy!RowsOf
      <3>2. \A x \in DOMAIN privacyStore[s][k] : privacyStore[s][k][x].user # u
        BY <1>4, <3>1 DEF PrivacyInvariant, EntriesHaveRows
      <3>3. Privacy!EntriesOf(s, k, u) = {}
        BY <3>2 DEF Privacy!EntriesOf
      <3> QED
        BY <2>3, <3>3 DEF Privacy!Shown
    <2> QED
      BY <2>2, <2>3
  <1>5. ASSUME ~durable
        PROVE  \A k \in Privacy!Kinds :
                 Privacy!Shown(s, k, u) = {<<x, privacyStore[s][k][x]>> :
                                             x \in {y \in DOMAIN privacyStore[s][k] : privacyStore[s][k][y].user = u}}
    BY <1>5 DEF Privacy!Shown, Privacy!EntriesOf
  \* An entry is shown with its id, and an id with one entry.
  <1>6. \A x \in sh : x[2].user = u /\ x[2].id = x[1]
    <2>1. CASE durable
      BY <1>3, <1>4, <2>1
    <2>2. CASE ~durable
      <3>1. \A k \in Privacy!Kinds : \A x \in DOMAIN privacyStore[s][k] : privacyStore[s][k][x].id = x
        BY <2>2 DEF PrivacyInvariant, PrivacyTypes, EntriesAreOwn
      <3> QED
        BY <1>3, <1>5, <2>2, <3>1
    <2> QED
      BY <2>1, <2>2
  <1>7. \A x \in sh, y \in sh : x[1] = y[1] => x = y
    <2>1. CASE durable
      <3>1. \A x \in sh : \E k \in Privacy!Kinds : \E n \in DOMAIN privacyRows[k] :
              x = <<<<"row", k, n>>, privacyRows[k][n]>>
        <4>1. \A x \in sh : \E k \in Privacy!Kinds : \E n \in DOMAIN privacyRows[k] :
                x = <<privacyRows[k][n].id, privacyRows[k][n]>>
          BY <1>3, <1>4, <2>1
        <4>2. \A k \in Privacy!Kinds : \A n \in DOMAIN privacyRows[k] : privacyRows[k][n].id = <<"row", k, n>>
          BY DEF PrivacyInvariant, PrivacyTypes
        <4>3. ASSUME NEW x \in sh
              PROVE  \E k \in Privacy!Kinds : \E n \in DOMAIN privacyRows[k] :
                       x = <<<<"row", k, n>>, privacyRows[k][n]>>
          <5>1. PICK k \in Privacy!Kinds : \E n \in DOMAIN privacyRows[k] :
                  x = <<privacyRows[k][n].id, privacyRows[k][n]>>
            BY <4>1
          <5>2. PICK n \in DOMAIN privacyRows[k] : x = <<privacyRows[k][n].id, privacyRows[k][n]>>
            BY <5>1
          <5>3. x = <<<<"row", k, n>>, privacyRows[k][n]>>
            BY <4>2, <5>2
          <5> QED
            BY <5>3
        <4> QED
          BY <4>3
      <3>2. \A x \in sh : x[1] = <<"row", x[1][2], x[1][3]>> /\ x[2] = privacyRows[x[1][2]][x[1][3]]
                          /\ x = <<x[1], x[2]>>
        BY <3>1
      <3> QED
        BY <3>2
    <2>2. CASE ~durable
      <3>1. \A x \in sh : \E k \in Privacy!Kinds : \E i \in DOMAIN privacyStore[s][k] :
              x = <<i, privacyStore[s][k][i]>>
        BY <1>3, <1>5, <2>2
      <3>2. \A k \in Privacy!Kinds : \A i \in DOMAIN privacyStore[s][k] : told[i] = privacyStore[s][k][i]
        BY <2>2 DEF PrivacyInvariant, EntriesAreOwn
      <3>3. \A x \in sh : x = <<x[1], told[x[1]]>>
        BY <3>1, <3>2
      <3> QED
        BY <3>3
    <2> QED
      BY <2>1, <2>2
  <1>8. ASSUME NEW x \in sh PROVE Cardinality({y \in sh : y[2].id = x[2].id}) = 1
    <2>1. {y \in sh : y[2].id = x[2].id} = {x}
      BY <1>6, <1>7
    <2> QED
      BY <2>1, FS_Singleton
  <1>9. ASSUME NEW id \in DOMAIN told, told[id].user = u
        PROVE  \/ \E x \in sh : x[2].id = id /\ x[2] = told[id]
               \/ ~durable /\ id \notin DOMAIN privacyStore[s]["request"] \cup DOMAIN privacyStore[s]["consent"]
    <2>1. told[id].id = id
      BY DEF PrivacyInvariant, PrivacyTypes
    <2>2. CASE durable
      <3>1. PICK k \in Privacy!Kinds : \E n \in DOMAIN privacyRows[k] :
              id = <<"row", k, n>> /\ told[id] = privacyRows[k][n]
        BY <2>2 DEF PrivacyInvariant, EntriesHaveRows
      <3>2. <<told[id].id, told[id]>> \in Privacy!Shown(s, k, u)
        BY <1>4, <1>9, <2>2, <3>1
      <3>3. <<told[id].id, told[id]>> \in sh
        BY <1>3, <3>1, <3>2 DEF Privacy!Kinds
      <3> QED
        BY <2>1, <3>3
    <2>3. CASE ~durable /\ id \in DOMAIN privacyStore[s]["request"] \cup DOMAIN privacyStore[s]["consent"]
      <3>1. PICK k \in Privacy!Kinds : id \in DOMAIN privacyStore[s][k]
        BY <1>3, <2>3
      <3>2. privacyStore[s][k][id] = told[id]
        BY <2>3, <3>1 DEF PrivacyInvariant, EntriesAreOwn
      <3>3. <<id, told[id]>> \in Privacy!Shown(s, k, u)
        BY <1>5, <1>9, <2>3, <3>1, <3>2
      <3>4. <<id, told[id]>> \in sh
        BY <1>3, <3>1, <3>3 DEF Privacy!Kinds
      <3> QED
        BY <2>1, <3>4
    <2> QED
      BY <2>2, <2>3
  <1> QED
    BY <1>1, <1>2, <1>8, <1>6, <1>9

-----------------------------------------------------------------------------
(***************************************************************************)
(* The services together: a step of theirs is a step of one part, and the  *)
(* others keep still, so each part's invariant holds of the whole.         *)
(***************************************************************************)

LEMMA PartsStart ==
  ASSUME ServicesInit
  PROVE  /\ Desk!Init /\ Breaker!Init /\ Barrier!Init /\ Gate!Init /\ Rate!Init
         /\ Report!Init /\ Push!Init /\ Policy!Init /\ Checklist!Init /\ Intake!Init
         /\ Schema!Init /\ Pipeline!Init /\ Privacy!Init
  BY DEF ServicesInit, Started

LEMMA DeskMoves == ASSUME [ServicesNext]_services PROVE [Desk!Next]_(Desk!vars)
  BY DEF ServicesNext, Rest, services, Desk!vars, deskVars

LEMMA BreakerMoves == ASSUME [ServicesNext]_services PROVE [Breaker!Next]_(Breaker!vars)
  BY DEF ServicesNext, Rest, services, Breaker!vars, breakerVars

LEMMA BarrierMoves == ASSUME [ServicesNext]_services PROVE [Barrier!Next]_(Barrier!vars)
  BY DEF ServicesNext, Rest, services, Barrier!vars, barrierVars

LEMMA GateMoves == ASSUME [ServicesNext]_services PROVE [Gate!Next]_(Gate!vars)
  BY DEF ServicesNext, Rest, services, Gate!vars, gateVars

LEMMA RateMoves == ASSUME [ServicesNext]_services PROVE [Rate!Next]_(Rate!vars)
  BY DEF ServicesNext, Rest, services, Rate!vars, rateVars

LEMMA ReportMoves == ASSUME [ServicesNext]_services PROVE [Report!Next]_(Report!vars)
  BY DEF ServicesNext, Rest, services, Report!vars, reportVars

LEMMA PushMoves == ASSUME [ServicesNext]_services PROVE [Push!Next]_(Push!vars)
  BY DEF ServicesNext, Rest, services, Push!vars, pushVars

LEMMA PolicyMoves == ASSUME [ServicesNext]_services PROVE [Policy!Next]_(Policy!vars)
  BY DEF ServicesNext, Rest, services, Policy!vars, policyVars

LEMMA ChecklistMoves == ASSUME [ServicesNext]_services PROVE [Checklist!Next]_(Checklist!vars)
  BY DEF ServicesNext, Rest, services, Checklist!vars, checklistVars

LEMMA IntakeMoves == ASSUME [ServicesNext]_services PROVE [Intake!Next]_(Intake!vars)
  BY DEF ServicesNext, Rest, services, Intake!vars, intakeVars

LEMMA SchemaMoves == ASSUME [ServicesNext]_services PROVE [Schema!Next]_(Schema!vars)
  BY DEF ServicesNext, Rest, services, Schema!vars, schemaVars

LEMMA PipelineMoves == ASSUME [ServicesNext]_services PROVE [Pipeline!Next]_(Pipeline!vars)
  BY DEF ServicesNext, Rest, services, Pipeline!vars, pipelineVars

LEMMA PrivacyMoves == ASSUME [ServicesNext]_services PROVE [Privacy!Next]_(Privacy!vars)
  BY DEF ServicesNext, Rest, services, Privacy!vars, privacyVars

-----------------------------------------------------------------------------
GuardsInvariant == BreakerInvariant /\ BarrierInvariant /\ GateInvariant /\ RateInvariant
RecordsInvariant == ChecklistInvariant /\ PipelineInvariant /\ PrivacyInvariant

\* However calls interleave and however long they take: a half-open circuit sends one
\* probe at a time, unless a call from before is still in flight; a key executes within
\* one retry budget and gives one answer; no more threads are in the gate than its limit;
\* and a client that was not evicted is let through at most RateLimit times in any window.
THEOREM CallsStayGuarded == ServicesSpec => []CallsAreGuarded
  <1>1. ServicesInit => GuardsInvariant
    BY PartsStart, BreakerInitially, BarrierInitially, GateInitially, RateInitially DEF GuardsInvariant
  <1>2. GuardsInvariant /\ [ServicesNext]_services => GuardsInvariant'
    <2> SUFFICES ASSUME GuardsInvariant, [ServicesNext]_services PROVE GuardsInvariant'
      OBVIOUS
    <2>1. BreakerInvariant' /\ BarrierInvariant'
      BY BreakerMoves, BreakerStep, BarrierMoves, BarrierStep DEF GuardsInvariant
    <2>2. GateInvariant' /\ RateInvariant'
      BY GateMoves, GateStep, RateMoves, RateStep DEF GuardsInvariant
    <2> QED
      BY <2>1, <2>2 DEF GuardsInvariant
  <1>3. GuardsInvariant => CallsAreGuarded
    BY BreakerSafety, BarrierSafety, GateSafety, RateSafety DEF GuardsInvariant, CallsAreGuarded
  <1> QED
    BY <1>1, <1>2, <1>3, PTL DEF ServicesSpec

\* An event whose push was acknowledged is recorded and has its job, however often it was
\* delivered and whichever transactions were rolled back; and a job is claimed once.
THEOREM PushedStaysQueued == ServicesSpec => []PushedIsQueued
  <1>1. ServicesInit => PushInvariant
    BY PartsStart, PushInitially
  <1>2. PushInvariant /\ [ServicesNext]_services => PushInvariant'
    BY PushMoves, PushStep
  <1>3. PushInvariant => PushedIsQueued
    BY PushSafety DEF PushedIsQueued
  <1> QED
    BY <1>1, <1>2, <1>3, PTL DEF ServicesSpec

\* While one process alone has served claims and no two writes crossed, the row names the
\* user that process last said holds the case; and a notification goes out or is held as
\* its organisation's row says, but for an older copy, crossed requests or another run.
THEOREM CopiesStayInAgreement == ServicesSpec => []CopiesAgree
  <1>1. ServicesInit => DeskInvariant /\ PolicyInvariant
    BY PartsStart, DeskInitially, PolicyInitially
  <1>2. DeskInvariant /\ PolicyInvariant /\ [ServicesNext]_services => DeskInvariant' /\ PolicyInvariant'
    BY DeskMoves, DeskStep, PolicyMoves, PolicyStep
  <1>3. DeskInvariant /\ PolicyInvariant => CopiesAgree
    BY DeskSafety, PolicySafety DEF CopiesAgree
  <1> QED
    BY <1>1, <1>2, <1>3, PTL DEF ServicesSpec

\* A case that was answered as created is in the table, once for its key and its review,
\* with the review, unless that insertion failed or is under way; and a process keeps no
\* other: whatever the requests of the processes and their retries did.
THEOREM CasesStayStored == ServicesSpec => []CasesAreStored
  <1>1. ServicesInit => IntakeInvariant
    BY PartsStart, IntakeInitially
  <1>2. IntakeInvariant /\ [ServicesNext]_services => IntakeInvariant'
    BY IntakeMoves, IntakeStep
  <1>3. IntakeInvariant => CasesAreStored
    BY IntakeSafety DEF CasesAreStored
  <1> QED
    BY <1>1, <1>2, <1>3, PTL DEF ServicesSpec

\* A file is recorded if and only if it was executed, and then once, and no instance
\* serves before all files of its release were, for any releases and instances.
THEOREM SchemaStaysRecorded == ServicesSpec => []SchemaIsRecorded
  <1>1. ServicesInit => SchemaInvariant
    BY PartsStart, SchemaInitially
  <1>2. SchemaInvariant /\ [ServicesNext]_services => SchemaInvariant'
    BY SchemaMoves, SchemaStep
  <1>3. SchemaInvariant => SchemaIsRecorded
    BY SchemaSafety DEF SchemaIsRecorded
  <1> QED
    BY <1>1, <1>2, <1>3, PTL DEF ServicesSpec

\* A case is shown as ready only when its items are done; a decision stands as long as it
\* was compared with its own dossier only, and evidence has the content of its last
\* object; and an export has each request and choice of the person, and nothing else.
THEOREM RecordsStayInAgreement == ServicesSpec => []RecordsAgree
  <1>1. ServicesInit => RecordsInvariant
    BY PartsStart, ChecklistInitially, PipelineInitially, PrivacyInitially DEF RecordsInvariant
  <1>2. RecordsInvariant /\ [ServicesNext]_services => RecordsInvariant'
    <2> SUFFICES ASSUME RecordsInvariant, [ServicesNext]_services PROVE RecordsInvariant'
      OBVIOUS
    <2>1. ChecklistInvariant' /\ PipelineInvariant' /\ PrivacyInvariant'
      BY ChecklistMoves, ChecklistStep, PipelineMoves, PipelineStep, PrivacyMoves, PrivacyStep
         DEF RecordsInvariant
    <2> QED
      BY <2>1 DEF RecordsInvariant
  <1>3. RecordsInvariant => RecordsAgree
    BY ChecklistSafety, PipelineSafety, PrivacySafety DEF RecordsInvariant, RecordsAgree
  <1> QED
    BY <1>1, <1>2, <1>3, PTL DEF ServicesSpec

\* A resolved escalation is opened again only from a copy from before its resolution, and
\* what is submitted is the text last approved, under the name of who approved it.
THEOREM StandingStaysKept == ServicesSpec => StandingIsKept
  <1>1. ServicesInit => DeskInvariant /\ ReportInvariant
    BY PartsStart, DeskInitially, ReportInitially
  <1>2. DeskInvariant /\ ReportInvariant /\ [ServicesNext]_services => DeskInvariant' /\ ReportInvariant'
    BY DeskMoves, DeskStep, ReportMoves, ReportStep
  <1>3. DeskInvariant /\ ReportInvariant /\ [ServicesNext]_services
          => [Desk!OpenedFromCopy /\ Report!SubmitsWhatWasApproved]_services
    BY DeskMoves, DeskReopens, ReportMoves, ReportSubmits
  <1> QED
    BY <1>1, <1>2, <1>3, PTL DEF ServicesSpec, StandingIsKept
=============================================================================
