------------------------- MODULE PostgresQueueProofs -------------------------
(***************************************************************************)
(* Theorems about PostgresQueue, for any jobs, keys, limits, producers,    *)
(* workers and any number of leases that run out.                          *)
(*                                                                         *)
(* What carries them is LocksHold: the rows a claim has locked stay as it  *)
(* saw them until it commits, and no two claims have one in common.        *)
(***************************************************************************)
EXTENDS PostgresQueue, SequenceTheorems, FiniteSetTheorems, TLAPS

\* No two processes pass the same worker_id.
DistinctWorkerIds == \A v, w \in Workers : IdOf[v] = IdOf[w] => v = w

Claiming(w) == run[w].at = "claiming"
Held(w) == run[w].recovered \cup {run[w].job}

\* What a claim has locked is as it was when it chose it.
ClaimHolds(w) ==
  Claiming(w) =>
    /\ \A i \in run[w].recovered : Expired(i)
    /\ run[w].job \in run[w].recovered \/ (jobs[run[w].job].status = "pending" /\ jobs[run[w].job].due)
    /\ run[w].attempt = jobs[run[w].job].attempt + 1

LocksHold ==
  \A w \in Workers :
    /\ ClaimHolds(w)
    /\ \A v \in Workers : v # w /\ Claiming(v) /\ Claiming(w) => Held(v) \cap Held(w) = {}

\* A run that has its lease counted is of an attempt the row has counted.
RunsAreCounted ==
  \A w \in Workers :
    run[w].at \notin {"idle", "claiming"} => run[w].attempt <= jobs[run[w].job].attempt

\* An absent row has no attempts, and an idle process no job.
RowsBegin ==
  /\ \A j \in Jobs : ~Present(j) => jobs[j].attempt = 0
  /\ \A w \in Workers : run[w].at = "idle" => run[w] = Idle

QueueInv == TypeOK /\ LocksHold /\ RunsAreCounted /\ RowsBegin

-----------------------------------------------------------------------------
(* Types. *)

LEMMA NoRowType == NoRow \in Job /\ Idle \in Run /\ Idle.at = "idle" /\ NotEnqueuing \in Producer
  BY DEF NoRow, Job, Idle, Run, NotEnqueuing, Producer

LEMMA LeasedType ==
  ASSUME NEW r \in Job, NEW w \in Workers, NEW n \in Nat
  PROVE  /\ Leased(r, w, n) \in Job
         /\ Leased(r, w, n).status = "processing" /\ Leased(r, w, n).worker = IdOf[w]
         /\ Leased(r, w, n).attempt = n /\ Leased(r, w, n).key = r.key
         /\ Leased(r, w, n).limit = r.limit
  BY DEF Leased, Job, Statuses, WorkerIds

LEMMA ReleasedType ==
  ASSUME NEW r \in Job, NEW s \in Statuses, NEW d \in BOOLEAN
  PROVE  /\ Released(r, s, d) \in Job
         /\ Released(r, s, d).status = s /\ Released(r, s, d).attempt = r.attempt
         /\ Released(r, s, d).key = r.key /\ Released(r, s, d).limit = r.limit
  BY DEF Released, Job

LEMMA LoggedType ==
  ASSUME NEW l \in Seq(Event), NEW type \in EventTypes, NEW from \in Statuses \cup {"absent"},
         NEW to \in Statuses, NEW n \in Nat, NEW id \in WorkerIds \cup {None}
  PROVE  Logged(l, type, from, to, n, id) \in Seq(Event)
  BY DEF Logged, Event

LEMMA Owner == \A w \in Workers : IdOf[w] \in WorkerIds /\ IdOf[w] # None
  BY NoneAssumption DEF WorkerIds

\* A run in its places.
LEMMA RunType ==
  ASSUME TypeOK, NEW w \in Workers
  PROVE  /\ run[w] \in Run /\ run[w].attempt \in Nat /\ run[w].recovered \subseteq Jobs
         /\ run[w].at # "idle" => run[w].job \in Jobs /\ jobs[run[w].job] \in Job
  BY DEF TypeOK, Run

\* A run that ends.
LEMMA EndsType ==
  ASSUME TypeOK, NEW w \in Workers, run' = [run EXCEPT ![w] = Idle]
  PROVE  /\ run' \in [Workers -> Run] /\ \A v \in Workers : run'[v].at # "idle" => run'[v].job \in Jobs
         /\ run'[w] = Idle /\ \A v \in Workers \ {w} : run'[v] = run[v]
  BY NoRowType DEF TypeOK

-----------------------------------------------------------------------------
(* What each action does to one row and one run. *)

\* The rows of Q are untouched.
Untouched(Q) == \A j \in Q : jobs'[j] = jobs[j]

LEMMA InsertDoes ==
  ASSUME TypeOK, NEW p \in Producers, NEW j \in Jobs, Insert(p, j)
  PROVE  /\ TypeOK' /\ UNCHANGED run /\ Untouched(Jobs \ {j})
         /\ ~Present(j) /\ ~Violates(prod[p].key)
         /\ jobs'[j] \in Job /\ jobs'[j].status = "pending" /\ jobs'[j].key = prod[p].key
         /\ jobs'[j].attempt = 0 /\ jobs'[j].limit \in Nat \ {0}
         /\ log' = [log EXCEPT ![j] = Logged(@, "enqueued", "absent", "pending", 0, None)]
  <1>1. PICK n \in Limits :
          jobs' = [jobs EXCEPT ![j] = [NoRow EXCEPT !.status = "pending", !.key = prod[p].key,
                                                    !.limit = n, !.due = TRUE]]
    BY DEF Insert
  <1> DEFINE row == [NoRow EXCEPT !.status = "pending", !.key = prod[p].key, !.limit = n, !.due = TRUE]
  <1>2. prod[p].key \in Keys \cup {None} /\ n \in Nat \ {0}
    BY LimitsAssumption DEF TypeOK, Producer
  <1>3. /\ row \in Job /\ row.status = "pending" /\ row.key = prod[p].key
        /\ row.attempt = 0 /\ row.limit = n
    BY <1>2 DEF NoRow, Job, Statuses
  <1> HIDE DEF row
  <1>4. jobs' = [jobs EXCEPT ![j] = row]
    BY <1>1 DEF row
  <1>5. jobs' \in [Jobs -> Job] /\ jobs'[j] = row /\ Untouched(Jobs \ {j})
    BY <1>3, <1>4 DEF TypeOK, Untouched
  <1>6. Logged(log[j], "enqueued", "absent", "pending", 0, None) \in Seq(Event)
    BY LoggedType DEF TypeOK, EventTypes, Statuses
  <1>7. log' \in [Jobs -> Seq(Event)]
    BY <1>6 DEF Insert, TypeOK
  <1>8. prod' \in [Producers -> Producer]
    BY NoRowType DEF Insert, TypeOK
  <1>9. TypeOK'
    BY <1>5, <1>7, <1>8 DEF Insert, TypeOK
  <1> QED
    BY <1>2, <1>3, <1>5, <1>9 DEF Insert

LEMMA EnqueueDoes ==
  ASSUME TypeOK, NEW p \in Producers,
         (\E k \in Keys \cup {None} : LookUp(p, k)) \/ InsertRaises(p) \/ EnqueueEnds(p)
  PROVE  TypeOK' /\ UNCHANGED <<jobs, log, run, expiries>>
  <1>1. CASE \E k \in Keys \cup {None} : LookUp(p, k)
    <2>1. PICK k \in Keys \cup {None} : LookUp(p, k)
      BY <1>1
    <2>2. [at |-> "inserting", key |-> k] \in Producer
      BY DEF Producer
    <2> QED
      BY <2>1, <2>2 DEF LookUp, TypeOK
  <1>2. CASE InsertRaises(p)
    <2>1. [prod[p] EXCEPT !.at = "raised"] \in Producer
      BY DEF TypeOK, Producer
    <2> QED
      BY <1>2, <2>1 DEF InsertRaises, TypeOK
  <1>3. CASE EnqueueEnds(p)
    BY <1>3, NoRowType DEF EnqueueEnds, TypeOK
  <1> QED
    BY <1>1, <1>2, <1>3 DEF LookUp, InsertRaises, EnqueueEnds, TypeOK

LEMMA TimeDoes ==
  ASSUME TypeOK, NEW j \in Jobs, BecomesDue(j) \/ LeaseRunsOut(j)
  PROVE  /\ TypeOK' /\ UNCHANGED <<log, run>> /\ Untouched(Jobs \ {j})
         /\ jobs'[j].status = jobs[j].status /\ jobs'[j].worker = jobs[j].worker
         /\ jobs'[j].attempt = jobs[j].attempt /\ jobs'[j].key = jobs[j].key
         /\ jobs'[j].limit = jobs[j].limit
         /\ \/ jobs[j].status = "pending" /\ ~jobs[j].due
            \/ jobs[j].status = "processing" /\ ~jobs[j].lapsed
  <1>1. jobs[j] \in Job /\ jobs \in [Jobs -> Job]
    BY DEF TypeOK
  <1>2. PICK row \in Job : /\ jobs' = [jobs EXCEPT ![j] = row]
                           /\ row.status = jobs[j].status /\ row.worker = jobs[j].worker
                           /\ row.attempt = jobs[j].attempt /\ row.key = jobs[j].key
                           /\ row.limit = jobs[j].limit
    <2>1. CASE BecomesDue(j)
      <3>1. [jobs[j] EXCEPT !.due = TRUE] \in Job
        BY <1>1 DEF Job
      <3> QED
        BY <1>1, <2>1, <3>1 DEF BecomesDue, Job
    <2>2. CASE LeaseRunsOut(j)
      <3>1. [jobs[j] EXCEPT !.lapsed = TRUE] \in Job
        BY <1>1 DEF Job
      <3> QED
        BY <1>1, <2>2, <3>1 DEF LeaseRunsOut, Job
    <2> QED
      BY <2>1, <2>2
  <1>3. expiries' \in [Jobs -> Nat]
    BY DEF BecomesDue, LeaseRunsOut, TypeOK
  <1>4. TypeOK'
    BY <1>1, <1>2, <1>3 DEF BecomesDue, LeaseRunsOut, TypeOK
  <1> QED
    BY <1>1, <1>2, <1>4 DEF BecomesDue, LeaseRunsOut, Untouched

LEMMA RecoverDoes ==
  ASSUME TypeOK, RecoverExpiredLeases
  PROVE  /\ TypeOK' /\ UNCHANGED run
         /\ \A j \in Jobs : Expired(j) =>
              ~Locked(j) /\ jobs'[j] = Released(jobs[j], "pending", TRUE)
         /\ \A j \in Jobs : ~Expired(j) => jobs'[j] = jobs[j]
  <1>1. \A j \in Jobs : /\ jobs[j] \in Job /\ Released(jobs[j], "pending", TRUE) \in Job
                        /\ log[j] \in Seq(Event) /\ jobs[j].attempt \in Nat
    BY ReleasedType DEF TypeOK, Statuses, Job
  <1>2. jobs' \in [Jobs -> Job]
    BY <1>1 DEF RecoverExpiredLeases
  <1>3. \A j \in Jobs :
          Logged(log[j], "lease_expired", "processing", "pending", jobs[j].attempt, None) \in Seq(Event)
    BY <1>1, LoggedType DEF EventTypes, Statuses
  <1>4. log' \in [Jobs -> Seq(Event)]
    BY <1>1, <1>3 DEF RecoverExpiredLeases
  <1>5. TypeOK'
    BY <1>2, <1>4 DEF RecoverExpiredLeases, TypeOK
  <1> QED
    BY <1>5 DEF RecoverExpiredLeases

LEMMA ClaimBeginsDoes ==
  ASSUME TypeOK, NEW w \in Workers, ClaimBegins(w)
  PROVE  /\ TypeOK' /\ UNCHANGED <<jobs, log>>
         /\ run[w].at = "idle" /\ \A v \in Workers \ {w} : run'[v] = run[v]
         /\ \E j \in Ready :
              run'[w] = [at |-> "claiming", job |-> j, attempt |-> jobs[j].attempt + 1,
                         recovered |-> {i \in Jobs : Expired(i)}]
         /\ \A j \in Jobs : Expired(j) => ~Locked(j)
  <1>1. PICK j \in Ready :
          run' = [run EXCEPT ![w] = [at |-> "claiming", job |-> j, attempt |-> jobs[j].attempt + 1,
                                     recovered |-> {i \in Jobs : Expired(i)}]]
    BY DEF ClaimBegins
  <1>2. j \in Jobs /\ jobs[j].attempt + 1 \in Nat
    BY DEF Ready, TypeOK, Job
  <1>3. [at |-> "claiming", job |-> j, attempt |-> jobs[j].attempt + 1,
         recovered |-> {i \in Jobs : Expired(i)}] \in Run
    BY <1>2 DEF Run
  <1>4. /\ run' \in [Workers -> Run] /\ \A v \in Workers : run'[v].at # "idle" => run'[v].job \in Jobs
        /\ \A v \in Workers \ {w} : run'[v] = run[v]
        /\ run'[w] = [at |-> "claiming", job |-> j, attempt |-> jobs[j].attempt + 1,
                      recovered |-> {i \in Jobs : Expired(i)}]
    BY <1>1, <1>2, <1>3 DEF TypeOK
  <1>5. TypeOK'
    BY <1>4 DEF ClaimBegins, TypeOK
  <1> QED
    BY <1>4, <1>5 DEF ClaimBegins

LEMMA ClaimCommitsDoes ==
  ASSUME TypeOK, NEW w \in Workers, ClaimCommits(w)
  PROVE  /\ TypeOK'
         /\ run'[w].at = "handling" /\ run'[w].job = run[w].job /\ run'[w].attempt = run[w].attempt
         /\ \A v \in Workers \ {w} : run'[v] = run[v]
         /\ run[w].job \in Jobs /\ Claiming(w)
         /\ jobs'[run[w].job] = Leased(jobs[run[w].job], w, run[w].attempt)
         /\ \A i \in Jobs \ {run[w].job} :
              jobs'[i] = IF i \in run[w].recovered THEN Released(jobs[i], "pending", TRUE) ELSE jobs[i]
         /\ log' = [log EXCEPT ![run[w].job] =
                      Logged(@, "claimed", "pending", "processing", run[w].attempt, IdOf[w])]
  <1> DEFINE j == run[w].job
             n == run[w].attempt
  <1>1. run[w] \in Run /\ j \in Jobs /\ n \in Nat
    BY RunType DEF ClaimCommits
  <1>2. \A i \in Jobs : /\ jobs[i] \in Job /\ Leased(jobs[i], w, n) \in Job
                        /\ Released(jobs[i], "pending", TRUE) \in Job
    BY <1>1, LeasedType, ReleasedType DEF TypeOK, Statuses
  <1>3. jobs' \in [Jobs -> Job]
    BY <1>2 DEF ClaimCommits
  <1>4. Logged(log[j], "claimed", "pending", "processing", n, IdOf[w]) \in Seq(Event)
    BY <1>1, LoggedType, Owner DEF TypeOK, EventTypes, Statuses
  <1>5. log' \in [Jobs -> Seq(Event)]
    BY <1>1, <1>4 DEF ClaimCommits, TypeOK
  <1>6. run' = [run EXCEPT ![w] = [[run[w] EXCEPT !.at = "handling"] EXCEPT !.recovered = {}]]
    BY <1>1 DEF ClaimCommits, TypeOK, Run
  <1>7. /\ run'[w].at = "handling" /\ run'[w].job = j /\ run'[w].attempt = n
        /\ run' \in [Workers -> Run] /\ \A v \in Workers \ {w} : run'[v] = run[v]
    BY <1>1, <1>6 DEF TypeOK, Run
  <1>8. \A v \in Workers : run'[v].at # "idle" => run'[v].job \in Jobs
    BY <1>1, <1>7 DEF TypeOK
  <1>9. TypeOK'
    BY <1>3, <1>5, <1>7, <1>8 DEF ClaimCommits, TypeOK
  <1> QED
    BY <1>1, <1>7, <1>9 DEF ClaimCommits, Claiming

LEMMA HandlerEndsDoes ==
  ASSUME TypeOK, NEW w \in Workers, HandlerEnds(w)
  PROVE  /\ TypeOK' /\ UNCHANGED <<jobs, log>> /\ run[w].at = "handling"
         /\ run'[w].at \in {"returned", "raised"} /\ run'[w].job = run[w].job
         /\ run'[w].attempt = run[w].attempt /\ \A v \in Workers \ {w} : run'[v] = run[v]
  <1>1. /\ run' \in [Workers -> Run]
        /\ run'[w].at \in {"returned", "raised"} /\ run'[w].job = run[w].job
        /\ run'[w].attempt = run[w].attempt /\ \A v \in Workers \ {w} : run'[v] = run[v]
    BY DEF HandlerEnds, TypeOK, Run
  <1>2. \A v \in Workers : run'[v].at # "idle" => run'[v].job \in Jobs
    BY <1>1 DEF TypeOK, HandlerEnds
  <1> QED
    BY <1>1, <1>2 DEF HandlerEnds, TypeOK

LEMMA EndsDoes ==
  ASSUME TypeOK, NEW w \in Workers, Refused(w) \/ Crash(w)
  PROVE  /\ TypeOK' /\ UNCHANGED <<jobs, log>> /\ run'[w] = Idle
         /\ \A v \in Workers \ {w} : run'[v] = run[v]
  BY EndsType DEF Refused, Crash, TypeOK

\* Complete and Fail.
LEMMA SettleDoes ==
  ASSUME TypeOK, NEW w \in Workers, Complete(w) \/ Fail(w)
  PROVE  /\ TypeOK' /\ run'[w] = Idle /\ \A v \in Workers \ {w} : run'[v] = run[v]
         /\ run[w].job \in Jobs /\ run[w].at \in {"returned", "raised"}
         /\ ~Locked(run[w].job) /\ Owned(run[w].job, w) /\ Untouched(Jobs \ {run[w].job})
         /\ \E status \in Statuses \ {"processing"}, type \in EventTypes \ {"claimed"}, due \in BOOLEAN :
              /\ jobs'[run[w].job] = Released(jobs[run[w].job], status, due)
              /\ log' = [log EXCEPT ![run[w].job] =
                           Logged(@, type, "processing", status, jobs[run[w].job].attempt, IdOf[w])]
              /\ Complete(w) => status = "completed"
              /\ Fail(w) => status = IF Exhausted(run[w].job) THEN "failed" ELSE "pending"
  <1> DEFINE j == run[w].job
  <1>1. j \in Jobs /\ jobs[j] \in Job /\ jobs[j].attempt \in Nat /\ jobs[j].due \in BOOLEAN
    BY RunType DEF Complete, Fail, Job
  <1>2. PICK status \in Statuses \ {"processing"}, type \in EventTypes \ {"claimed"}, due \in BOOLEAN :
          /\ Settle(w, status, type, due)
          /\ Complete(w) => status = "completed"
          /\ Fail(w) => status = IF Exhausted(j) THEN "failed" ELSE "pending"
    <2>1. CASE Complete(w)
      BY <1>1, <2>1 DEF Complete, Fail, Statuses, EventTypes
    <2>2. CASE Fail(w)
      BY <2>2 DEF Complete, Fail, Statuses, EventTypes
    <2> QED
      BY <2>1, <2>2
  <1>3. Released(jobs[j], status, due) \in Job
    BY <1>1, ReleasedType
  <1>4. /\ jobs' = [jobs EXCEPT ![j] = Released(jobs[j], status, due)]
        /\ log' = [log EXCEPT ![j] = Logged(log[j], type, "processing", status, jobs[j].attempt, IdOf[w])]
        /\ run' = [run EXCEPT ![w] = Idle] /\ UNCHANGED <<prod, expiries>>
    BY <1>1, <1>2 DEF Settle, TypeOK
  <1>5. jobs' \in [Jobs -> Job] /\ jobs'[j] = Released(jobs[j], status, due) /\ Untouched(Jobs \ {j})
    BY <1>1, <1>3, <1>4 DEF TypeOK, Untouched
  <1>6. Logged(log[j], type, "processing", status, jobs[j].attempt, IdOf[w]) \in Seq(Event)
    BY <1>1, LoggedType, Owner DEF TypeOK, Statuses
  <1>7. log' \in [Jobs -> Seq(Event)]
    BY <1>1, <1>4, <1>6 DEF TypeOK
  <1>8. TypeOK'
    BY <1>4, <1>5, <1>7, EndsType DEF TypeOK
  <1> QED
    BY <1>1, <1>2, <1>4, <1>5, <1>8, EndsType DEF Complete, Fail

-----------------------------------------------------------------------------
(* What a step does to one row, and to one run. *)

RowKept(j) ==
  /\ jobs'[j].status = jobs[j].status /\ jobs'[j].worker = jobs[j].worker
  /\ jobs'[j].attempt = jobs[j].attempt /\ jobs'[j].key = jobs[j].key
  /\ jobs'[j].limit = jobs[j].limit
  /\ log'[j] = log[j]

RowBegun(j) ==
  /\ ~Present(j)
  /\ jobs'[j].status = "pending" /\ jobs'[j].attempt = 0 /\ jobs'[j].limit \in Nat \ {0}
  /\ ~Violates(jobs'[j].key) /\ Untouched(Jobs \ {j})
  /\ log'[j] = Logged(log[j], "enqueued", "absent", "pending", 0, None)

RowRecovered(j) ==
  /\ Expired(j) /\ jobs'[j] = Released(jobs[j], "pending", TRUE)
  /\ \/ log'[j] = log[j]
     \/ log'[j] = Logged(log[j], "lease_expired", "processing", "pending", jobs[j].attempt, None)

RowTaken(j, w) ==
  /\ Claiming(w) /\ run[w].job = j /\ run[w].attempt = jobs[j].attempt + 1
  /\ run'[w].at = "handling" /\ run'[w].job = j /\ run'[w].attempt = run[w].attempt
  /\ Expired(j) \/ jobs[j].status = "pending"
  /\ jobs'[j] = Leased(jobs[j], w, jobs[j].attempt + 1)
  /\ log'[j] = Logged(log[j], "claimed", "pending", "processing", jobs[j].attempt + 1, IdOf[w])

RowSettled(j, w) ==
  /\ run[w].at \in {"returned", "raised"} /\ run[w].job = j /\ Owned(j, w) /\ run'[w] = Idle
  /\ \E status \in Statuses \ {"processing"}, type \in EventTypes \ {"claimed"}, due \in BOOLEAN :
       /\ jobs'[j] = Released(jobs[j], status, due)
       /\ log'[j] = Logged(log[j], type, "processing", status, jobs[j].attempt, IdOf[w])

RowStep(j) ==
  \/ RowKept(j) \/ RowBegun(j) \/ RowRecovered(j)
  \/ \E w \in Workers : RowTaken(j, w) \/ RowSettled(j, w)

RunKept(w) == run'[w] = run[w]
RunBegins(w) ==
  /\ run[w].at = "idle" /\ run'[w].at = "claiming" /\ UNCHANGED <<jobs, log>>
  /\ \E j \in Ready :
       run'[w] = [at |-> "claiming", job |-> j, attempt |-> jobs[j].attempt + 1,
                  recovered |-> {i \in Jobs : Expired(i)}]
  /\ \A j \in Jobs : Expired(j) => ~Locked(j)
  /\ \A v \in Workers \ {w} : RunKept(v)
RunTakes(w) == RowTaken(run[w].job, w)
RunReturns(w) ==
  /\ run[w].at = "handling" /\ run'[w].at \in {"returned", "raised"}
  /\ run'[w].job = run[w].job /\ run'[w].attempt = run[w].attempt
RunEnds(w) == run'[w] = Idle /\ (UNCHANGED jobs \/ RowSettled(run[w].job, w))

RunStep(w) == RunKept(w) \/ RunBegins(w) \/ RunTakes(w) \/ RunReturns(w) \/ RunEnds(w)

\* What a claim has locked, nobody else writes.
LockedStay == \A w \in Workers : Claiming(w) /\ RunKept(w) => Untouched(Held(w))

LEMMA HeldRows ==
  ASSUME TypeOK, LocksHold, NEW w \in Workers, Claiming(w), NEW i \in Held(w)
  PROVE  /\ i \in Jobs /\ Locked(i)
         /\ Expired(i) \/ (jobs[i].status = "pending" /\ jobs[i].due)
  BY RunType DEF Claiming, Held, LocksHold, ClaimHolds, Locked

LEMMA SameRows ==
  ASSUME UNCHANGED <<jobs, log>>
  PROVE  /\ \A j \in Jobs : RowStep(j)
         /\ LockedStay
  BY DEF RowStep, RowKept, LockedStay, Untouched

Steps == TypeOK' /\ (\A j \in Jobs : RowStep(j)) /\ (\A w \in Workers : RunStep(w)) /\ LockedStay

LEMMA InsertSteps ==
  ASSUME TypeOK, LocksHold, NEW p \in Producers, NEW j \in Jobs, Insert(p, j)
  PROVE  Steps
  <1>1. /\ TypeOK' /\ UNCHANGED run /\ Untouched(Jobs \ {j}) /\ ~Present(j)
        /\ ~Violates(prod[p].key) /\ jobs'[j].key = prod[p].key
        /\ jobs'[j].status = "pending" /\ jobs'[j].attempt = 0 /\ jobs'[j].limit \in Nat \ {0}
        /\ log' = [log EXCEPT ![j] = Logged(@, "enqueued", "absent", "pending", 0, None)]
    BY InsertDoes
  <1>2. RowBegun(j)
    BY <1>1 DEF RowBegun, TypeOK
  <1>3. \A i \in Jobs \ {j} : RowKept(i)
    BY <1>1 DEF RowKept, Untouched, TypeOK
  <1>4. \A w \in Workers : Claiming(w) => Untouched(Held(w))
    BY <1>1, HeldRows DEF Untouched, Present, Expired
  <1> QED
    BY <1>1, <1>2, <1>3, <1>4 DEF Steps, RowStep, RunStep, RunKept, LockedStay

LEMMA TimeSteps ==
  ASSUME TypeOK, LocksHold, NEW j \in Jobs, BecomesDue(j) \/ LeaseRunsOut(j)
  PROVE  Steps
  <1>1. /\ TypeOK' /\ UNCHANGED <<log, run>> /\ Untouched(Jobs \ {j})
        /\ jobs'[j].status = jobs[j].status /\ jobs'[j].worker = jobs[j].worker
        /\ jobs'[j].attempt = jobs[j].attempt /\ jobs'[j].key = jobs[j].key
        /\ jobs'[j].limit = jobs[j].limit
        /\ \/ jobs[j].status = "pending" /\ ~jobs[j].due
           \/ jobs[j].status = "processing" /\ ~jobs[j].lapsed
    BY TimeDoes
  <1>2. \A i \in Jobs : RowKept(i)
    BY <1>1 DEF RowKept, Untouched
  <1>3. \A w \in Workers : Claiming(w) => Untouched(Held(w))
    BY <1>1, HeldRows DEF Untouched, Expired
  <1> QED
    BY <1>1, <1>2, <1>3 DEF Steps, RowStep, RunStep, RunKept, LockedStay

LEMMA RecoverSteps ==
  ASSUME TypeOK, LocksHold, RecoverExpiredLeases
  PROVE  Steps
  <1>1. /\ TypeOK' /\ UNCHANGED run
        /\ \A j \in Jobs : Expired(j) => ~Locked(j) /\ jobs'[j] = Released(jobs[j], "pending", TRUE)
        /\ \A j \in Jobs : ~Expired(j) => jobs'[j] = jobs[j]
    BY RecoverDoes
  <1>2. ASSUME NEW j \in Jobs PROVE RowKept(j) \/ RowRecovered(j)
    BY <1>1 DEF RecoverExpiredLeases, RowKept, RowRecovered
  <1>3. \A w \in Workers : Claiming(w) => Untouched(Held(w))
    BY <1>1, HeldRows DEF Untouched
  <1> QED
    BY <1>1, <1>2, <1>3 DEF Steps, RowStep, RunStep, RunKept, LockedStay

LEMMA ClaimBeginsSteps ==
  ASSUME TypeOK, NEW w \in Workers, ClaimBegins(w)
  PROVE  Steps /\ RunBegins(w)
  <1>1. /\ TypeOK' /\ UNCHANGED <<jobs, log>>
        /\ run[w].at = "idle" /\ \A v \in Workers \ {w} : run'[v] = run[v]
        /\ \E j \in Ready :
             run'[w] = [at |-> "claiming", job |-> j, attempt |-> jobs[j].attempt + 1,
                        recovered |-> {i \in Jobs : Expired(i)}]
        /\ \A j \in Jobs : Expired(j) => ~Locked(j)
    BY ClaimBeginsDoes
  <1>2. run'[w].at = "claiming"
    BY <1>1
  <1>3. RunBegins(w)
    BY <1>1, <1>2 DEF RunBegins, RunKept
  <1> QED
    BY <1>1, <1>3, SameRows DEF Steps, RunStep, RunKept

LEMMA ClaimCommitsSteps ==
  ASSUME TypeOK, LocksHold, NEW w \in Workers, ClaimCommits(w)
  PROVE  Steps
  <1> DEFINE j == run[w].job
  <1>1. /\ TypeOK'
        /\ run'[w].at = "handling" /\ run'[w].job = j /\ run'[w].attempt = run[w].attempt
        /\ \A v \in Workers \ {w} : run'[v] = run[v]
        /\ j \in Jobs /\ Claiming(w)
        /\ jobs'[j] = Leased(jobs[j], w, run[w].attempt)
        /\ \A i \in Jobs \ {j} :
             jobs'[i] = IF i \in run[w].recovered THEN Released(jobs[i], "pending", TRUE) ELSE jobs[i]
        /\ log' = [log EXCEPT ![j] =
                     Logged(@, "claimed", "pending", "processing", run[w].attempt, IdOf[w])]
    BY ClaimCommitsDoes
  <1>2. /\ \A i \in run[w].recovered : Expired(i)
        /\ Expired(j) \/ jobs[j].status = "pending"
        /\ run[w].attempt = jobs[j].attempt + 1
    BY <1>1 DEF LocksHold, ClaimHolds
  <1>3. RowTaken(j, w)
    BY <1>1, <1>2 DEF RowTaken, TypeOK
  <1>4. ASSUME NEW i \in Jobs \ {j} PROVE RowKept(i) \/ RowRecovered(i)
    BY <1>1, <1>2 DEF RowKept, RowRecovered, TypeOK
  <1>5. ASSUME NEW v \in Workers, Claiming(v), RunKept(v) PROVE Untouched(Held(v))
    <2>1. v # w
      BY <1>1, <1>5 DEF RunKept, Claiming
    <2>2. Held(v) \cap Held(w) = {}
      BY <1>1, <1>5, <2>1 DEF LocksHold
    <2>3. Held(v) \subseteq Jobs
      BY <1>5, HeldRows
    <2> QED
      BY <1>1, <2>2, <2>3 DEF Untouched, Held
  <1>6. \A v \in Workers : RunStep(v)
    BY <1>1, <1>3 DEF RunStep, RunTakes, RunKept
  <1> QED
    BY <1>1, <1>3, <1>4, <1>5, <1>6 DEF Steps, RowStep, LockedStay

LEMMA SettleSteps ==
  ASSUME TypeOK, LocksHold, NEW w \in Workers, Complete(w) \/ Fail(w)
  PROVE  Steps
  <1> DEFINE j == run[w].job
  <1>1. /\ TypeOK' /\ run'[w] = Idle /\ \A v \in Workers \ {w} : run'[v] = run[v]
        /\ j \in Jobs /\ run[w].at \in {"returned", "raised"}
        /\ ~Locked(j) /\ Owned(j, w) /\ Untouched(Jobs \ {j})
        /\ \E status \in Statuses \ {"processing"}, type \in EventTypes \ {"claimed"}, due \in BOOLEAN :
             /\ jobs'[j] = Released(jobs[j], status, due)
             /\ log' = [log EXCEPT ![j] =
                          Logged(@, type, "processing", status, jobs[j].attempt, IdOf[w])]
    BY SettleDoes
  <1>2. RowSettled(j, w)
    BY <1>1 DEF RowSettled, TypeOK
  <1>3. \A i \in Jobs \ {j} : RowKept(i)
    BY <1>1 DEF RowKept, Untouched, TypeOK
  <1>4. \A v \in Workers : Claiming(v) => Untouched(Held(v))
    BY <1>1, HeldRows DEF Untouched
  <1>5. \A v \in Workers : RunStep(v)
    BY <1>1, <1>2 DEF RunStep, RunEnds, RunKept
  <1> QED
    BY <1>1, <1>2, <1>3, <1>4, <1>5 DEF Steps, RowStep, LockedStay

LEMMA NextSteps == ASSUME TypeOK, LocksHold, [Next]_vars PROVE Steps
  <1>1. ASSUME NEW p \in Producers, EnqueueStep(p) PROVE Steps
    <2>1. CASE \E j \in Jobs : Insert(p, j)
      BY <2>1, InsertSteps
    <2>2. CASE (\E k \in Keys \cup {None} : LookUp(p, k)) \/ InsertRaises(p) \/ EnqueueEnds(p)
      BY <2>2, EnqueueDoes, SameRows DEF Steps, RunStep, RunKept
    <2> QED
      BY <1>1, <2>1, <2>2 DEF EnqueueStep
  <1>2. ASSUME NEW w \in Workers, HandlerEnds(w) PROVE Steps
    BY <1>2, HandlerEndsDoes, SameRows DEF Steps, RunStep, RunKept, RunReturns
  <1>3. ASSUME NEW w \in Workers, Refused(w) \/ Crash(w) PROVE Steps
    BY <1>3, EndsDoes, SameRows DEF Steps, RunStep, RunKept, RunEnds
  <1>4. CASE UNCHANGED vars
    BY <1>4, SameRows DEF vars, TypeOK, Steps, RunStep, RunKept
  <1> QED
    BY <1>1, <1>2, <1>3, <1>4, TimeSteps, RecoverSteps, ClaimBeginsSteps, ClaimCommitsSteps,
       SettleSteps DEF Next, WorkerStep

-----------------------------------------------------------------------------
(* The inductive invariant. *)

LEMMA InitQueue == Init => QueueInv
  <1> SUFFICES ASSUME Init PROVE QueueInv
    OBVIOUS
  <1>1. TypeOK
    BY NoRowType DEF Init, TypeOK
  <1>2. \A j \in Jobs : jobs[j] = NoRow /\ jobs[j].attempt = 0
    BY DEF Init, NoRow
  <1>3. \A w \in Workers : run[w] = Idle /\ run[w].at = "idle"
    BY NoRowType DEF Init
  <1>4. \A w \in Workers : ~Claiming(w)
    BY <1>3 DEF Claiming
  <1>5. LocksHold
    BY <1>4 DEF LocksHold, ClaimHolds
  <1>6. RunsAreCounted
    BY <1>3 DEF RunsAreCounted
  <1>7. RowsBegin
    BY <1>2, <1>3 DEF RowsBegin
  <1> QED
    BY <1>1, <1>5, <1>6, <1>7 DEF QueueInv

\* Attempts are never taken back.
LEMMA AttemptsGrow ==
  ASSUME TypeOK, RowsBegin, NEW j \in Jobs, RowStep(j)
  PROVE  jobs[j].attempt \in Nat /\ jobs[j].attempt <= jobs'[j].attempt
  <1>1. jobs[j] \in Job /\ jobs[j].attempt \in Nat
    BY DEF TypeOK, Job
  <1>2. CASE RowKept(j)
    BY <1>1, <1>2 DEF RowKept
  <1>3. CASE RowBegun(j)
    BY <1>1, <1>3 DEF RowBegun, RowsBegin
  <1>4. CASE RowRecovered(j)
    <2>1. "pending" \in Statuses /\ TRUE \in BOOLEAN
      BY DEF Statuses
    <2>2. Released(jobs[j], "pending", TRUE).attempt = jobs[j].attempt
      BY <1>1, <2>1, ReleasedType
    <2>3. jobs'[j] = Released(jobs[j], "pending", TRUE)
      BY <1>4 DEF RowRecovered
    <2>4. jobs'[j].attempt = jobs[j].attempt
      BY <2>2, <2>3
    <2> QED
      BY <1>1, <2>4
  <1>5. ASSUME NEW w \in Workers, RowTaken(j, w) PROVE jobs[j].attempt <= jobs'[j].attempt
    BY <1>1, <1>5, LeasedType DEF RowTaken
  <1>6. ASSUME NEW w \in Workers, RowSettled(j, w) PROVE jobs[j].attempt <= jobs'[j].attempt
    BY <1>1, <1>6, ReleasedType DEF RowSettled
  <1> QED
    BY <1>1, <1>2, <1>3, <1>4, <1>5, <1>6 DEF RowStep

\* A claim that goes on still has its rows as it found them.
LEMMA ClaimStaysStep ==
  ASSUME TypeOK, LocksHold, Steps, NEW w \in Workers, RunKept(w)
  PROVE  ClaimHolds(w)'
  <1> SUFFICES ASSUME Claiming(w) PROVE ClaimHolds(w)'
    BY DEF ClaimHolds, Claiming, RunKept
  <1>1. Untouched(Held(w)) /\ ClaimHolds(w)
    BY DEF Steps, LockedStay, LocksHold
  <1> QED
    BY <1>1 DEF ClaimHolds, Untouched, Held, RunKept, Claiming, Expired

LEMMA ClaimBeginsStep ==
  ASSUME TypeOK, NEW w \in Workers, RunBegins(w)
  PROVE  /\ ClaimHolds(w)'
         /\ \A i \in Held(w)' : ~Locked(i)
         /\ run'[w].attempt = jobs[run'[w].job].attempt + 1 /\ run'[w].job \in Jobs
  <1>1. PICK j \in Ready :
          run'[w] = [at |-> "claiming", job |-> j, attempt |-> jobs[j].attempt + 1,
                     recovered |-> {i \in Jobs : Expired(i)}]
    BY DEF RunBegins
  <1>2. /\ run'[w].job = j /\ run'[w].attempt = jobs[j].attempt + 1
        /\ run'[w].recovered = {i \in Jobs : Expired(i)}
    BY <1>1
  <1>3. j \in Jobs /\ ~Locked(j) /\ (Expired(j) \/ (jobs[j].status = "pending" /\ jobs[j].due))
    BY DEF Ready
  <1>4. \A i \in Held(w)' : ~Locked(i)
    BY <1>2, <1>3 DEF Held, RunBegins
  <1> QED
    BY <1>2, <1>3, <1>4 DEF ClaimHolds, Claiming, Expired, RunBegins

LEMMA LocksStep == ASSUME TypeOK, LocksHold, Steps PROVE LocksHold'
  <1>1. ASSUME NEW w \in Workers PROVE ClaimHolds(w)'
    <2>1. CASE RunKept(w)
      BY <2>1, ClaimStaysStep
    <2>2. CASE RunBegins(w)
      BY <2>2, ClaimBeginsStep
    <2>3. CASE RunTakes(w) \/ RunReturns(w) \/ RunEnds(w)
      BY <2>3, NoRowType DEF RunTakes, RowTaken, RunReturns, RunEnds, ClaimHolds, Claiming
    <2> QED
      BY <2>1, <2>2, <2>3 DEF Steps, RunStep
  <1>2. ASSUME NEW v \in Workers, NEW w \in Workers, v # w, Claiming(v)', Claiming(w)'
        PROVE  Held(v)' \cap Held(w)' = {}
    <2>1. \A u \in Workers : Claiming(u)' => RunKept(u) \/ RunBegins(u)
      BY NoRowType DEF Steps, RunStep, RunTakes, RowTaken, RunReturns, RunEnds, Claiming
    <2>2. CASE RunKept(v) /\ RunKept(w)
      BY <1>2, <2>2 DEF LocksHold, RunKept, Held, Claiming
    <2>3. ASSUME NEW b \in {v, w}, NEW k \in {v, w}, b # k, RunBegins(b) PROVE Held(b)' \cap Held(k)' = {}
      <3>1. RunKept(k)
        BY <2>3 DEF RunBegins
      <3>2. Claiming(k) /\ Held(k)' = Held(k)
        BY <1>2, <3>1 DEF RunKept, Claiming, Held
      <3>3. \A i \in Held(k) : Locked(i)
        BY <3>2 DEF Locked, Held, Claiming
      <3> QED
        BY <2>3, <3>2, <3>3, ClaimBeginsStep
    <2> QED
      BY <1>2, <2>1, <2>2, <2>3
  <1> QED
    BY <1>1, <1>2 DEF LocksHold

LEMMA CountedStep ==
  ASSUME TypeOK, RunsAreCounted, RowsBegin, Steps
  PROVE  RunsAreCounted'
  <1> SUFFICES ASSUME NEW w \in Workers, run'[w].at \notin {"idle", "claiming"}
               PROVE  run'[w].attempt <= jobs'[run'[w].job].attempt
    BY DEF RunsAreCounted
  <1>1. run'[w].job \in Jobs /\ run'[w].attempt \in Nat
    BY DEF Steps, TypeOK, Run
  <1>2. CASE RunTakes(w)
    <2>1. jobs[run[w].job] \in Job /\ jobs[run[w].job].attempt + 1 \in Nat
      BY <1>1, <1>2 DEF RunTakes, RowTaken, TypeOK, Job
    <2> QED
      BY <1>1, <1>2, <2>1, LeasedType DEF RunTakes, RowTaken
  <1>3. CASE RunKept(w) \/ RunReturns(w)
    <2>1. run[w].at \notin {"idle", "claiming"} /\ run'[w].job = run[w].job /\ run'[w].attempt = run[w].attempt
      BY <1>3 DEF RunKept, RunReturns
    <2>2. run[w].attempt <= jobs[run[w].job].attempt
      BY <2>1 DEF RunsAreCounted
    <2>3. /\ jobs[run[w].job].attempt \in Nat
          /\ jobs[run[w].job].attempt <= jobs'[run[w].job].attempt
      BY <1>1, <2>1, AttemptsGrow DEF Steps
    <2>4. jobs'[run[w].job].attempt \in Nat
      BY <1>1, <2>1 DEF Steps, TypeOK, Job
    <2> QED
      BY <1>1, <2>1, <2>2, <2>3, <2>4
  <1>4. CASE RunBegins(w) \/ RunEnds(w)
    BY <1>4, NoRowType DEF RunBegins, RunEnds
  <1> QED
    BY <1>2, <1>3, <1>4 DEF Steps, RunStep

LEMMA RowsBeginStep == ASSUME TypeOK, RowsBegin, Steps PROVE RowsBegin'
  <1>1. ASSUME NEW j \in Jobs, ~Present(j)' PROVE jobs'[j].attempt = 0
    <2>1. jobs[j] \in Job /\ jobs[j].attempt \in Nat /\ jobs[j].attempt + 1 \in Nat
      BY DEF TypeOK, Job
    <2>2. ~RowBegun(j)
      BY <1>1 DEF RowBegun, Present
    <2>3. ~RowRecovered(j)
      BY <1>1, <2>1, ReleasedType DEF RowRecovered, Present, Statuses
    <2>4. \A w \in Workers : ~RowTaken(j, w)
      BY <1>1, <2>1, LeasedType DEF RowTaken, Present
    <2>5. \A w \in Workers : ~RowSettled(j, w)
      <3> SUFFICES ASSUME NEW w \in Workers, RowSettled(j, w) PROVE FALSE
        OBVIOUS
      <3>1. PICK status \in Statuses, due \in BOOLEAN : jobs'[j] = Released(jobs[j], status, due)
        BY DEF RowSettled
      <3>2. jobs'[j].status = status
        BY <2>1, <3>1, ReleasedType
      <3> QED
        BY <1>1, <3>2 DEF Present, Statuses
    <2>6. RowKept(j)
      BY <2>2, <2>3, <2>4, <2>5 DEF Steps, RowStep
    <2> QED
      BY <1>1, <2>6 DEF RowKept, RowsBegin, Present
  <1>2. ASSUME NEW w \in Workers, run'[w].at = "idle" PROVE run'[w] = Idle
    BY <1>2 DEF Steps, RunStep, RunKept, RowsBegin, RunBegins, RunTakes, RowTaken, RunReturns, RunEnds
  <1> QED
    BY <1>1, <1>2 DEF RowsBegin

\* The locks hold, the attempts are counted.
LEMMA QueueInvariant == Spec => []QueueInv
  <1>1. QueueInv /\ [Next]_vars => QueueInv'
    <2> SUFFICES ASSUME QueueInv, [Next]_vars PROVE QueueInv'
      OBVIOUS
    <2>1. Steps
      BY NextSteps DEF QueueInv
    <2> QED
      BY <2>1, LocksStep, CountedStep, RowsBeginStep DEF QueueInv, Steps
  <1> QED
    BY <1>1, InitQueue, PTL DEF Spec

-----------------------------------------------------------------------------
(* One row for a key, one run for an attempt. *)

LEMMA KeyKept ==
  ASSUME TypeOK, NEW j \in Jobs, RowStep(j), ~RowBegun(j)
  PROVE  jobs'[j].key = jobs[j].key /\ (Present(j)' => Present(j))
  <1>1. jobs[j] \in Job /\ jobs[j].attempt + 1 \in Nat
    BY DEF TypeOK, Job
  <1>2. CASE RowKept(j)
    BY <1>2 DEF RowKept, Present
  <1>3. CASE RowRecovered(j)
    <2>1. jobs'[j] = Released(jobs[j], "pending", TRUE) /\ Present(j)
      BY <1>3 DEF RowRecovered, Expired, Present
    <2>2. "pending" \in Statuses
      BY DEF Statuses
    <2>3. Released(jobs[j], "pending", TRUE).key = jobs[j].key
      BY <1>1, <2>2, ReleasedType
    <2> QED
      BY <2>1, <2>3
  <1>4. ASSUME NEW w \in Workers, RowTaken(j, w)
        PROVE  jobs'[j].key = jobs[j].key /\ Present(j)
    <2>1. jobs'[j] = Leased(jobs[j], w, jobs[j].attempt + 1) /\ Present(j)
      BY <1>4 DEF RowTaken, Expired, Present
    <2> QED
      BY <1>1, <2>1, LeasedType
  <1>5. ASSUME NEW w \in Workers, RowSettled(j, w)
        PROVE  jobs'[j].key = jobs[j].key /\ Present(j)
    <2>1. PICK status \in Statuses, due \in BOOLEAN : jobs'[j] = Released(jobs[j], status, due)
      BY <1>5 DEF RowSettled
    <2>2. Present(j)
      BY <1>5 DEF RowSettled, Owned, Present
    <2> QED
      BY <1>1, <2>1, <2>2, ReleasedType
  <1> QED
    BY <1>2, <1>3, <1>4, <1>5 DEF RowStep

LEMMA KeysStep == ASSUME TypeOK, OneJobPerKey, Steps PROVE OneJobPerKey'
  <1>1. SUFFICES ASSUME NEW i \in Jobs, NEW j \in Jobs, Present(i)', Present(j)',
                        jobs'[i].key # None, jobs'[i].key = jobs'[j].key, i # j
                 PROVE  FALSE
    BY DEF OneJobPerKey
  <1>2. ASSUME NEW a \in {i, j}, NEW b \in {i, j}, a # b, RowBegun(a) PROVE FALSE
    <2>1. jobs'[b] = jobs[b] /\ ~Violates(jobs'[a].key)
      BY <1>2 DEF RowBegun, Untouched
    <2>2. Present(b) /\ jobs[b].key = jobs'[a].key /\ jobs'[a].key # None
      BY <1>1, <1>2, <2>1 DEF Present
    <2>3. HasKey(jobs'[a].key, b)
      BY <2>2 DEF HasKey
    <2> QED
      BY <2>1, <2>3 DEF Violates
  <1>3. RowStep(i) /\ RowStep(j) /\ ~RowBegun(i) /\ ~RowBegun(j)
    BY <1>1, <1>2 DEF Steps
  <1>4. Present(i) /\ Present(j) /\ jobs'[i].key = jobs[i].key /\ jobs'[j].key = jobs[j].key
    BY <1>1, <1>3, KeyKept
  <1> QED
    BY <1>1, <1>4 DEF OneJobPerKey

\* Two runs of one job: at most one of them is a claim that has not committed.
LEMMA NewAttempt ==
  ASSUME QueueInv, Steps, NEW w \in Workers, NEW v \in Workers, v # w, RunBegins(w),
         run[v].at # "idle", run[v].job = run'[w].job
  PROVE  run[v].attempt # run'[w].attempt
  <1> DEFINE j == run'[w].job
  <1>1. j \in Jobs /\ run'[w].attempt = jobs[j].attempt + 1 /\ j \in Held(w)' /\ ~Locked(j)
    BY ClaimBeginsStep DEF QueueInv, Held
  <1>2. ~Claiming(v)
    BY <1>1 DEF Locked, Claiming
  <1>3. run[v].attempt <= jobs[j].attempt
    BY <1>2 DEF QueueInv, RunsAreCounted, Claiming
  <1>4. jobs[j].attempt \in Nat /\ run[v].attempt \in Nat
    BY <1>1 DEF QueueInv, TypeOK, Job, Run
  <1> QED
    BY <1>1, <1>3, <1>4

LEMMA ExclusiveStep ==
  ASSUME QueueInv, AttemptsAreExclusive, Steps
  PROVE  AttemptsAreExclusive'
  <1>1. SUFFICES ASSUME NEW v \in Workers, NEW w \in Workers, v # w, run'[v].at # "idle",
                        run'[v].job = run'[w].job
                 PROVE  run'[v].attempt # run'[w].attempt
    BY DEF AttemptsAreExclusive
  <1>2. run'[v].job \in Jobs /\ None \notin Jobs
    BY <1>1, NoneAssumption DEF Steps, TypeOK
  <1>3. run'[w].at # "idle"
    <2>1. ASSUME run'[w].at = "idle" PROVE run'[w].job = None
      <3>1. RowsBegin'
        BY RowsBeginStep DEF QueueInv
      <3> QED
        BY <2>1, <3>1 DEF RowsBegin, Idle
    <2> QED
      BY <1>1, <1>2, <2>1
  <1>4. \A u \in {v, w} :
          \/ RunBegins(u)
          \/ run[u].at # "idle" /\ run'[u].job = run[u].job /\ run'[u].attempt = run[u].attempt
    <2> SUFFICES ASSUME NEW u \in {v, w}, ~RunBegins(u)
                 PROVE  run[u].at # "idle" /\ run'[u].job = run[u].job /\ run'[u].attempt = run[u].attempt
      OBVIOUS
    <2>1. RunKept(u) \/ RunTakes(u) \/ RunReturns(u)
      BY <1>1, <1>3, NoRowType DEF Steps, RunStep, RunEnds
    <2> QED
      BY <1>1, <1>3, <2>1 DEF RunKept, RunTakes, RowTaken, Claiming, RunReturns
  <1>5. ASSUME NEW a \in {v, w}, NEW b \in {v, w}, a # b, RunBegins(a)
        PROVE  run'[a].attempt # run'[b].attempt
    <2>1. run'[b] = run[b]
      BY <1>5 DEF RunBegins, RunKept
    <2> QED
      BY <1>1, <1>3, <1>5, <2>1, NewAttempt
  <1> QED
    BY <1>1, <1>4, <1>5 DEF AttemptsAreExclusive

\* Concurrent transactions share neither a key nor an attempt: enqueue's second
\* look is the UNIQUE constraint, and claim chooses its row under the locks of
\* FOR UPDATE SKIP LOCKED, so that no other claim reads the attempt it is about
\* to count until that is committed.
THEOREM TransactionsAreExclusive == Spec => []RowsAreExclusive
  <1>1. Init => RowsAreExclusive
    <2> SUFFICES ASSUME Init PROVE RowsAreExclusive
      OBVIOUS
    <2>1. TypeOK
      BY InitQueue DEF QueueInv
    <2>2. \A j \in Jobs : ~Present(j)
      BY DEF Init, NoRow, Present
    <2>3. \A w \in Workers : run[w].at = "idle"
      BY NoRowType DEF Init
    <2> QED
      BY <2>1, <2>2, <2>3 DEF RowsAreExclusive, OneJobPerKey, AttemptsAreExclusive
  <1>2. QueueInv /\ RowsAreExclusive /\ [Next]_vars => RowsAreExclusive'
    <2> SUFFICES ASSUME QueueInv, RowsAreExclusive, [Next]_vars PROVE RowsAreExclusive'
      OBVIOUS
    <2>1. Steps
      BY NextSteps DEF QueueInv
    <2> QED
      BY <2>1, KeysStep, ExclusiveStep DEF QueueInv, RowsAreExclusive, Steps
  <1> QED
    BY <1>1, <1>2, QueueInvariant, PTL DEF Spec

-----------------------------------------------------------------------------
(* The runs that lost their lease. *)

\* The row a process still owns is leased to the run the process is in.
OwnersRun ==
  \A w \in Workers :
    run[w].at \in {"handling", "returned", "raised"} /\ Owned(run[w].job, w)
      => run[w].attempt = jobs[run[w].job].attempt

LEMMA OwnersStep ==
  ASSUME DistinctWorkerIds, TypeOK, OwnersRun, Steps
  PROVE  OwnersRun'
  <1> SUFFICES ASSUME NEW w \in Workers, run'[w].at \in {"handling", "returned", "raised"},
                      Owned(run[w].job, w)', RowTaken(run[w].job, w) \/ RunKept(w) \/ RunReturns(w)
               PROVE  run'[w].attempt = jobs'[run'[w].job].attempt
    <2>1. \A w \in Workers : run'[w].at \in {"handling", "returned", "raised"} =>
            RowTaken(run[w].job, w) \/ RunKept(w) \/ RunReturns(w)
      BY NoRowType DEF Steps, RunStep, RunBegins, RunEnds, RunTakes
    <2>2. \A w \in Workers : RowTaken(run[w].job, w) \/ RunKept(w) \/ RunReturns(w)
                               => run'[w].job = run[w].job
      BY DEF RowTaken, RunKept, RunReturns
    <2> QED
      BY <2>1, <2>2 DEF OwnersRun, Owned
  <1> DEFINE j == run[w].job
  <1>1. run'[w].job = j /\ run'[w].attempt = run[w].attempt /\ j \in Jobs
    BY DEF RowTaken, RunKept, RunReturns, Steps, TypeOK
  <1>2. jobs[j] \in Job /\ jobs[j].attempt + 1 \in Nat
    BY <1>1 DEF TypeOK, Job
  <1>3. jobs'[j].status = "processing" /\ jobs'[j].worker = IdOf[w]
    BY <1>1 DEF Owned
  <1>4. CASE RowTaken(j, w)
    <2>1. Leased(jobs[j], w, jobs[j].attempt + 1).attempt = jobs[j].attempt + 1
      BY <1>2, LeasedType
    <2> QED
      BY <1>1, <1>4, <2>1 DEF RowTaken
  <1>5. CASE RunKept(w) \/ RunReturns(w)
    <2>1. run[w].at \in {"handling", "returned", "raised"}
      BY <1>5 DEF RunKept, RunReturns
    <2>2. ~RowBegun(j)
      BY <1>3 DEF RowBegun
    <2>3. ~RowRecovered(j)
      <3>1. "pending" \in Statuses
        BY DEF Statuses
      <3>2. Released(jobs[j], "pending", TRUE).status = "pending"
        BY <1>2, <3>1, ReleasedType
      <3> QED
        BY <1>3, <3>2 DEF RowRecovered
    <2>4. ASSUME NEW v \in Workers PROVE ~RowTaken(j, v)
      <3> SUFFICES ASSUME RowTaken(j, v) PROVE FALSE
        OBVIOUS
      <3>1. Leased(jobs[j], v, jobs[j].attempt + 1).worker = IdOf[v]
        BY <1>2, LeasedType
      <3>2. jobs'[j].worker = IdOf[v] /\ run[v].at = "claiming"
        BY <3>1 DEF RowTaken, Claiming
      <3>3. IdOf[v] = IdOf[w] /\ v # w
        BY <1>3, <2>1, <3>2
      <3> QED
        BY <3>3 DEF DistinctWorkerIds
    <2>5. ASSUME NEW v \in Workers PROVE ~RowSettled(j, v)
      <3> SUFFICES ASSUME RowSettled(j, v) PROVE FALSE
        OBVIOUS
      <3>1. PICK status \in Statuses \ {"processing"}, due \in BOOLEAN :
              jobs'[j] = Released(jobs[j], status, due)
        BY DEF RowSettled
      <3>2. Released(jobs[j], status, due).status = status
        BY <1>2, <3>1, ReleasedType
      <3> QED
        BY <1>3, <3>1, <3>2
    <2>6. RowKept(j)
      BY <1>1, <2>2, <2>3, <2>4, <2>5 DEF Steps, RowStep
    <2>7. Owned(j, w)
      BY <1>3, <2>6 DEF RowKept, Owned
    <2>8. run[w].attempt = jobs[j].attempt
      BY <2>1, <2>7 DEF OwnersRun
    <2> QED
      BY <1>1, <2>6, <2>8 DEF RowKept
  <1> QED
    BY <1>4, <1>5

LEMMA OwnersInvariant == ASSUME DistinctWorkerIds PROVE Spec => [](QueueInv /\ OwnersRun)
  <1>1. Init => OwnersRun
    BY NoRowType DEF Init, OwnersRun
  <1>2. QueueInv /\ OwnersRun /\ [Next]_vars => OwnersRun'
    BY NextSteps, OwnersStep DEF QueueInv
  <1> QED
    BY <1>1, <1>2, QueueInvariant, PTL DEF Spec

\* If no two processes share a worker_id, complete and fail record only the
\* outcome of the attempt the row counts: WHERE worker_id=%s is a fence,
\* although it names the process and not the attempt, since a process runs one
\* attempt at a time and gives up its row before it claims again.
THEOREM OutcomesAreOfTheLease ==
  ASSUME DistinctWorkerIds
  PROVE  Spec => StaleRunsAreRefused
  <1>1. ASSUME QueueInv, OwnersRun, [Next]_vars, NEW w \in Workers,
               run[w].at # "idle", run'[w].at = "idle", jobs'[run[w].job] # jobs[run[w].job]
        PROVE  run[w].attempt = jobs[run[w].job].attempt
    <2>1. RunStep(w)
      BY <1>1, NextSteps DEF QueueInv, Steps
    <2>2. RunEnds(w)
      BY <1>1, <2>1 DEF RunStep, RunKept, RunBegins, RunTakes, RowTaken, RunReturns
    <2>3. RowSettled(run[w].job, w)
      BY <1>1, <2>2 DEF RunEnds
    <2> QED
      BY <1>1, <2>3 DEF RowSettled, OwnersRun
  <1>2. QueueInv /\ OwnersRun /\ [Next]_vars
          => [\A w \in Workers :
                run[w].at # "idle" /\ run'[w].at = "idle" /\ jobs'[run[w].job] # jobs[run[w].job]
                  => run[w].attempt = jobs[run[w].job].attempt]_vars
    BY <1>1
  <1> QED
    BY <1>2, OwnersInvariant, PTL DEF Spec, StaleRunsAreRefused

-----------------------------------------------------------------------------
(* The trail. *)

LEMMA NoEvents == LastStatus(<<>>) = "absent" /\ Attempts(<<>>) = 0
  BY FS_EmptySet DEF LastStatus, Attempts

LEMMA OneMoreEvent ==
  ASSUME NEW l \in Seq(Event), NEW e \in Event
  PROVE  /\ LastStatus(Append(l, e)) = e.to
         /\ Attempts(l) \in Nat
         /\ Attempts(Append(l, e)) = IF e.type = "claimed" THEN Attempts(l) + 1 ELSE Attempts(l)
  <1> DEFINE C == {i \in DOMAIN l : l[i].type = "claimed"}
             D == {i \in DOMAIN Append(l, e) : Append(l, e)[i].type = "claimed"}
             n == Len(l) + 1
  <1>1. /\ Append(l, e) # <<>> /\ Len(Append(l, e)) = n /\ Append(l, e)[n] = e
        /\ DOMAIN l = 1..Len(l) /\ DOMAIN Append(l, e) = 1..n /\ Len(l) \in Nat
        /\ \A i \in 1..Len(l) : Append(l, e)[i] = l[i]
    OBVIOUS
  <1>2. IsFiniteSet(C) /\ n \notin C
    <2>1. IsFiniteSet(1..Len(l))
      BY <1>1, FS_Interval
    <2> QED
      BY <1>1, <2>1, FS_Subset
  <1>3. Cardinality(C) \in Nat
    BY <1>2, FS_CardinalityType
  <1>4. e.type = "claimed" => D = C \cup {n}
    BY <1>1
  <1>5. e.type # "claimed" => D = C
    BY <1>1
  <1>6. Cardinality(C \cup {n}) = Cardinality(C) + 1
    BY <1>2, FS_AddElement
  <1> QED
    BY <1>1, <1>3, <1>4, <1>5, <1>6 DEF LastStatus, Attempts

TrailFits(j) ==
  /\ Attempts(log[j]) = jobs[j].attempt
  /\ LastStatus(log[j]) # jobs[j].status
       => jobs[j].status = "pending" /\ LastStatus(log[j]) = "processing"

LEMMA LoggedFacts ==
  ASSUME NEW l \in Seq(Event), NEW type \in EventTypes, NEW from \in Statuses \cup {"absent"},
         NEW to \in Statuses, NEW n \in Nat, NEW id \in WorkerIds \cup {None}
  PROVE  /\ LastStatus(Logged(l, type, from, to, n, id)) = to
         /\ Attempts(l) \in Nat
         /\ Attempts(Logged(l, type, from, to, n, id)) = IF type = "claimed" THEN Attempts(l) + 1
                                                                             ELSE Attempts(l)
  <1> DEFINE e == [type |-> type, from |-> from, to |-> to, attempt |-> n, worker |-> id]
  <1>1. e \in Event /\ e.type = type /\ e.to = to
    BY DEF Event
  <1> HIDE DEF e
  <1>2. /\ LastStatus(Append(l, e)) = e.to
        /\ Attempts(l) \in Nat
        /\ Attempts(Append(l, e)) = IF e.type = "claimed" THEN Attempts(l) + 1 ELSE Attempts(l)
    BY <1>1, OneMoreEvent
  <1>3. Logged(l, type, from, to, n, id) = Append(l, e)
    BY DEF Logged, e
  <1> QED
    BY <1>1, <1>2, <1>3

LEMMA TrailStep ==
  ASSUME QueueInv, NEW j \in Jobs, TrailFits(j), RowStep(j)
  PROVE  TrailFits(j)'
  <1>1. /\ jobs[j] \in Job /\ log[j] \in Seq(Event) /\ jobs[j].attempt \in Nat
        /\ jobs[j].attempt + 1 \in Nat /\ None \in WorkerIds \cup {None}
        /\ TRUE \in BOOLEAN /\ {"pending", "processing"} \subseteq Statuses
    BY DEF QueueInv, TypeOK, Job, Statuses
  <1>2. CASE RowKept(j)
    BY <1>2 DEF RowKept, TrailFits
  <1>3. CASE RowBegun(j)
    <2> DEFINE l == Logged(log[j], "enqueued", "absent", "pending", 0, None)
    <2>1. LastStatus(l) = "pending" /\ Attempts(l) = Attempts(log[j])
      <3>1. \A from \in Statuses \cup {"absent"} :
              LET m == Logged(log[j], "enqueued", from, "pending", 0, None)
              IN LastStatus(m) = "pending" /\ Attempts(m) = Attempts(log[j])
        BY <1>1, LoggedFacts DEF EventTypes
      <3> QED
        BY <3>1
    <2>2. Attempts(log[j]) = 0
      BY <1>3 DEF RowBegun, QueueInv, RowsBegin, TrailFits
    <2> QED
      BY <1>3, <2>1, <2>2 DEF RowBegun, TrailFits
  <1>4. CASE RowRecovered(j)
    <2> DEFINE l == Logged(log[j], "lease_expired", "processing", "pending", jobs[j].attempt, None)
    <2>1. LastStatus(l) = "pending" /\ Attempts(l) = Attempts(log[j])
      BY <1>1, LoggedFacts DEF EventTypes
    <2>2. LastStatus(log[j]) = "processing" /\ Attempts(log[j]) = jobs[j].attempt
      BY <1>4 DEF RowRecovered, Expired, TrailFits
    <2>3. jobs'[j].status = "pending" /\ jobs'[j].attempt = jobs[j].attempt
      <3>1. jobs'[j] = Released(jobs[j], "pending", TRUE)
        BY <1>4 DEF RowRecovered
      <3>2. /\ Released(jobs[j], "pending", TRUE).status = "pending"
            /\ Released(jobs[j], "pending", TRUE).attempt = jobs[j].attempt
        BY <1>1, ReleasedType
      <3> QED
        BY <3>1, <3>2
    <2>4. log'[j] = log[j] \/ log'[j] = l
      BY <1>4 DEF RowRecovered
    <2> HIDE DEF l
    <2> QED
      BY <2>1, <2>2, <2>3, <2>4 DEF TrailFits
  <1>5. ASSUME NEW w \in Workers, RowTaken(j, w) PROVE TrailFits(j)'
    <2> DEFINE n == jobs[j].attempt + 1
               l == Logged(log[j], "claimed", "pending", "processing", n, IdOf[w])
    <2>1. LastStatus(l) = "processing" /\ Attempts(l) = Attempts(log[j]) + 1
      BY <1>1, LoggedFacts, Owner DEF EventTypes
    <2>2. Leased(jobs[j], w, n).status = "processing" /\ Leased(jobs[j], w, n).attempt = n
      BY <1>1, LeasedType
    <2>3. jobs'[j].status = "processing" /\ jobs'[j].attempt = n /\ log'[j] = l
      BY <1>5, <2>2 DEF RowTaken
    <2>4. Attempts(log[j]) = jobs[j].attempt
      BY DEF TrailFits
    <2> HIDE DEF l
    <2> QED
      BY <2>1, <2>3, <2>4 DEF TrailFits
  <1>6. ASSUME NEW w \in Workers, RowSettled(j, w) PROVE TrailFits(j)'
    <2>1. PICK status \in Statuses \ {"processing"}, type \in EventTypes \ {"claimed"}, due \in BOOLEAN :
            /\ jobs'[j] = Released(jobs[j], status, due)
            /\ log'[j] = Logged(log[j], type, "processing", status, jobs[j].attempt, IdOf[w])
      BY <1>6 DEF RowSettled
    <2> DEFINE l == Logged(log[j], type, "processing", status, jobs[j].attempt, IdOf[w])
    <2>2. LastStatus(l) = status /\ Attempts(l) = Attempts(log[j])
      BY <1>1, LoggedFacts, Owner
    <2>3. /\ Released(jobs[j], status, due).status = status
          /\ Released(jobs[j], status, due).attempt = jobs[j].attempt
      BY <1>1, ReleasedType
    <2> HIDE DEF l
    <2>4. jobs'[j].status = status /\ jobs'[j].attempt = jobs[j].attempt /\ log'[j] = l
      BY <2>1, <2>3 DEF l
    <2> QED
      BY <2>2, <2>4 DEF TrailFits
  <1> QED
    BY <1>2, <1>3, <1>4, <1>5, <1>6 DEF RowStep

\* Although a lease that claim recovers leaves no event, the trail counts every
\* attempt, and is behind its row only while a job waits after such a lease.
THEOREM TrailsTellOutcomes == Spec => []TrailTellsOutcome
  <1>1. TrailTellsOutcome <=> \A j \in Jobs : TrailFits(j)
    BY DEF TrailTellsOutcome, TrailFits
  <1>2. Init => TrailTellsOutcome
    <2> SUFFICES ASSUME Init, NEW j \in Jobs PROVE TrailFits(j)
      BY <1>1
    <2>1. jobs[j].status = "absent" /\ jobs[j].attempt = 0 /\ log[j] = <<>>
      BY DEF Init, NoRow
    <2> QED
      BY <2>1, NoEvents DEF TrailFits
  <1>3. QueueInv /\ TrailTellsOutcome /\ [Next]_vars => TrailTellsOutcome'
    <2> SUFFICES ASSUME QueueInv, TrailTellsOutcome, [Next]_vars, NEW j \in Jobs PROVE TrailFits(j)'
      BY DEF TrailTellsOutcome, TrailFits
    <2>1. RowStep(j)
      BY NextSteps DEF QueueInv, Steps
    <2> QED
      BY <1>1, <2>1, TrailStep
  <1> QED
    BY <1>2, <1>3, QueueInvariant, PTL DEF Spec

-----------------------------------------------------------------------------
(* The queue implements JobLifecycle. *)

Phase == [j \in Jobs |-> PhaseOf(j)]
Tries == [j \in Jobs |-> jobs[j].attempt]
Allowance == [j \in Jobs |-> jobs[j].limit]

LEMMA PhaseFacts ==
  ASSUME TypeOK, NEW j \in Jobs
  PROVE  /\ jobs[j].status = "absent" <=> PhaseOf(j) = "absent"
         /\ jobs[j].status = "pending" <=> PhaseOf(j) = "waiting"
         /\ jobs[j].status = "processing" <=> PhaseOf(j) = "leased"
         /\ jobs[j].status = "completed" <=> PhaseOf(j) = "done"
         /\ jobs[j].status = "failed" <=> PhaseOf(j) = "dead"
  <1>1. jobs[j].status \in Statuses \cup {"absent"}
    BY DEF TypeOK, Job
  <1> QED
    BY <1>1 DEF PhaseOf, Statuses

LEMMA NextPhaseFacts ==
  ASSUME NEW j \in Jobs
  PROVE  /\ jobs'[j].status = "pending" => PhaseOf(j)' = "waiting"
         /\ jobs'[j].status = "processing" => PhaseOf(j)' = "leased"
         /\ jobs'[j].status = "completed" => PhaseOf(j)' = "done"
         /\ jobs'[j].status = "failed" => PhaseOf(j)' = "dead"
         /\ jobs'[j].status = jobs[j].status => PhaseOf(j)' = PhaseOf(j)
  BY DEF PhaseOf

\* A step that keeps every row but j's.
LEMMA OneRowWritten ==
  ASSUME NEW j \in Jobs, \A i \in Jobs \ {j} : jobs'[i] = jobs[i]
  PROVE  /\ Phase' = [Phase EXCEPT ![j] = PhaseOf(j)']
         /\ Tries' = [Tries EXCEPT ![j] = jobs'[j].attempt]
         /\ Allowance' = [Allowance EXCEPT ![j] = jobs'[j].limit]
  <1>1. \A i \in Jobs \ {j} : PhaseOf(i)' = PhaseOf(i)
    BY DEF PhaseOf
  <1> QED
    BY <1>1 DEF Phase, Tries, Allowance

LEMMA KeptRefines ==
  ASSUME \A j \in Jobs : RowKept(j)
  PROVE  UNCHANGED <<Phase, Tries, Allowance>>
  <1>1. \A j \in Jobs : /\ PhaseOf(j)' = PhaseOf(j) /\ jobs'[j].attempt = jobs[j].attempt
                        /\ jobs'[j].limit = jobs[j].limit
    BY NextPhaseFacts DEF RowKept
  <1> QED
    BY <1>1 DEF Phase, Tries, Allowance

LEMMA InsertRefines ==
  ASSUME TypeOK, RowsBegin, NEW p \in Producers, NEW j \in Jobs, Insert(p, j)
  PROVE  Life!Submit(j)
  <1>1. /\ ~Present(j) /\ Untouched(Jobs \ {j})
        /\ jobs'[j].status = "pending" /\ jobs'[j].attempt = 0 /\ jobs'[j].limit \in Nat \ {0}
    BY InsertDoes
  <1>2. PhaseOf(j) = "absent" /\ PhaseOf(j)' = "waiting"
    BY <1>1, PhaseFacts, NextPhaseFacts DEF Present
  <1>3. jobs[j].attempt = 0
    BY <1>1 DEF RowsBegin
  <1>4. /\ Phase' = [Phase EXCEPT ![j] = "waiting"]
        /\ Tries' = [Tries EXCEPT ![j] = 0]
        /\ Allowance' = [Allowance EXCEPT ![j] = jobs'[j].limit]
    BY <1>1, <1>2, OneRowWritten DEF Untouched
  <1>5. Tries' = Tries /\ Allowance'[j] = jobs'[j].limit
    BY <1>3, <1>4 DEF Tries, Allowance
  <1> QED
    BY <1>1, <1>2, <1>4, <1>5 DEF Life!Submit, Phase, Tries, Allowance

LEMMA RecoverRefines ==
  ASSUME TypeOK, RecoverExpiredLeases
  PROVE  Life!Lapse({j \in Jobs : Expired(j)})
  <1>1. ASSUME NEW j \in Jobs, Expired(j)
        PROVE  /\ PhaseOf(j) = "leased" /\ PhaseOf(j)' = "waiting"
               /\ jobs'[j].attempt = jobs[j].attempt /\ jobs'[j].limit = jobs[j].limit
    <2>1. jobs[j] \in Job /\ "pending" \in Statuses /\ TRUE \in BOOLEAN
      BY DEF TypeOK, Statuses
    <2>2. jobs'[j] = Released(jobs[j], "pending", TRUE)
      BY <1>1, RecoverDoes
    <2>3. /\ Released(jobs[j], "pending", TRUE).status = "pending"
          /\ Released(jobs[j], "pending", TRUE).attempt = jobs[j].attempt
          /\ Released(jobs[j], "pending", TRUE).limit = jobs[j].limit
      BY <2>1, ReleasedType
    <2>4. PhaseOf(j)' = "waiting"
      BY <2>2, <2>3, NextPhaseFacts
    <2> QED
      BY <1>1, <2>2, <2>3, <2>4, PhaseFacts DEF Expired
  <1>2. \A j \in Jobs : ~Expired(j) => jobs'[j] = jobs[j] /\ PhaseOf(j)' = PhaseOf(j)
    BY RecoverDoes, NextPhaseFacts
  <1>3. UNCHANGED <<Tries, Allowance>>
    BY <1>1, <1>2 DEF Tries, Allowance
  <1>4. Phase' = [j \in Jobs |-> IF j \in {i \in Jobs : Expired(i)} THEN "waiting" ELSE Phase[j]]
    BY <1>1, <1>2 DEF Phase
  <1> QED
    BY <1>1, <1>3, <1>4 DEF Life!Lapse, Phase, Tries, Allowance

LEMMA ClaimCommitsRefines ==
  ASSUME TypeOK, LocksHold, NEW w \in Workers, ClaimCommits(w),
         NEW j \in Jobs, j = run[w].job, NEW S \in SUBSET Jobs, S = run[w].recovered
  PROVE  Life!Lease(S, j)
  <1>1. /\ Claiming(w)
        /\ jobs'[j] = Leased(jobs[j], w, run[w].attempt)
        /\ \A i \in Jobs \ {j} :
             jobs'[i] = IF i \in S THEN Released(jobs[i], "pending", TRUE) ELSE jobs[i]
    BY ClaimCommitsDoes
  <1>2. /\ \A i \in S : Expired(i)
        /\ j \in S \/ jobs[j].status = "pending"
        /\ run[w].attempt = jobs[j].attempt + 1
    BY <1>1, RunType DEF LocksHold, ClaimHolds
  <1>3. /\ \A i \in Jobs : jobs[i] \in Job
        /\ run[w].attempt \in Nat /\ "pending" \in Statuses /\ TRUE \in BOOLEAN
    BY RunType DEF TypeOK, Statuses
  <1>4. PhaseOf(j)' = "leased" /\ jobs'[j].attempt = jobs[j].attempt + 1 /\ jobs'[j].limit = jobs[j].limit
    <2>1. /\ Leased(jobs[j], w, run[w].attempt).status = "processing"
          /\ Leased(jobs[j], w, run[w].attempt).attempt = run[w].attempt
          /\ Leased(jobs[j], w, run[w].attempt).limit = jobs[j].limit
      BY <1>1, <1>3, LeasedType
    <2> QED
      BY <1>1, <1>2, <2>1, NextPhaseFacts
  <1>5. ASSUME NEW i \in Jobs \ {j}, i \in S
        PROVE  /\ PhaseOf(i)' = "waiting" /\ jobs'[i].attempt = jobs[i].attempt
               /\ jobs'[i].limit = jobs[i].limit
    <2>1. jobs'[i] = Released(jobs[i], "pending", TRUE)
      BY <1>1, <1>5
    <2>2. /\ Released(jobs[i], "pending", TRUE).status = "pending"
          /\ Released(jobs[i], "pending", TRUE).attempt = jobs[i].attempt
          /\ Released(jobs[i], "pending", TRUE).limit = jobs[i].limit
      BY <1>3, ReleasedType
    <2> QED
      BY <2>1, <2>2, NextPhaseFacts
  <1>6. ASSUME NEW i \in Jobs \ {j}, i \notin S
        PROVE  PhaseOf(i)' = PhaseOf(i) /\ jobs'[i] = jobs[i]
    BY <1>1, <1>6, NextPhaseFacts
  <1>7. Phase' = [i \in Jobs |-> IF i = j THEN "leased" ELSE IF i \in S THEN "waiting" ELSE Phase[i]]
    BY <1>1, <1>4, <1>5, <1>6 DEF Phase
  <1>8. Tries' = [Tries EXCEPT ![j] = jobs[j].attempt + 1] /\ Allowance' = Allowance
    BY <1>1, <1>4, <1>5, <1>6 DEF Tries, Allowance
  <1>9. /\ \A i \in S : PhaseOf(i) = "leased"
        /\ PhaseOf(j) = "waiting" \/ j \in S
    BY <1>1, <1>2, PhaseFacts DEF Expired
  <1>10. Tries[j] = jobs[j].attempt /\ Phase[j] = PhaseOf(j) /\ \A i \in S : Phase[i] = PhaseOf(i)
    BY <1>1, <1>2 DEF Tries, Phase
  <1> QED
    BY <1>1, <1>2, <1>7, <1>8, <1>9, <1>10 DEF Life!Lease, Phase, Tries, Allowance

LEMMA SettleRefines ==
  ASSUME TypeOK, NEW w \in Workers, Complete(w) \/ Fail(w), NEW j \in Jobs, j = run[w].job
  PROVE  Life!Complete(j) \/ Life!Reject(j)
  <1>1. Owned(j, w) /\ Untouched(Jobs \ {j}) /\ jobs[j] \in Job
    BY SettleDoes DEF TypeOK
  <1>2. PICK status \in Statuses \ {"processing"}, due \in BOOLEAN :
          /\ jobs'[j] = Released(jobs[j], status, due)
          /\ Complete(w) => status = "completed"
          /\ Fail(w) => status = IF Exhausted(j) THEN "failed" ELSE "pending"
    BY SettleDoes
  <1>3. jobs'[j].status = status /\ jobs'[j].attempt = jobs[j].attempt /\ jobs'[j].limit = jobs[j].limit
    BY <1>1, <1>2, ReleasedType
  <1>4. /\ Phase' = [Phase EXCEPT ![j] = PhaseOf(j)']
        /\ Tries' = [Tries EXCEPT ![j] = jobs[j].attempt]
        /\ Allowance' = [Allowance EXCEPT ![j] = jobs[j].limit]
    BY <1>1, <1>3, OneRowWritten DEF Untouched
  <1>5. UNCHANGED <<Tries, Allowance>> /\ Phase[j] = "leased"
    BY <1>1, <1>4, PhaseFacts DEF Tries, Allowance, Phase, Owned
  <1>6. CASE Complete(w)
    <2>1. PhaseOf(j)' = "done"
      BY <1>1, <1>2, <1>3, <1>6, NextPhaseFacts
    <2> QED
      BY <1>4, <1>5, <2>1 DEF Life!Complete, Phase, Tries, Allowance
  <1>7. CASE Fail(w)
    <2>1. PhaseOf(j)' = IF Exhausted(j) THEN "dead" ELSE "waiting"
      BY <1>1, <1>2, <1>3, <1>7, NextPhaseFacts
    <2>2. Exhausted(j) <=> Tries[j] >= Allowance[j]
      BY <1>1 DEF Exhausted, Tries, Allowance
    <2> QED
      BY <1>4, <1>5, <2>1, <2>2 DEF Life!Reject, Phase, Tries, Allowance
  <1> QED
    BY <1>6, <1>7

LEMMA StepRefines == ASSUME QueueInv, [Next]_vars PROVE [Life!Next]_(Life!vars)
  <1> SUFFICES \/ \E S \in SUBSET Jobs : Life!Lapse(S)
               \/ \E j \in Jobs : \/ Life!Submit(j)
                                  \/ \E S \in SUBSET Jobs : Life!Lease(S, j)
                                  \/ Life!Complete(j)
                                  \/ Life!Reject(j)
               \/ UNCHANGED <<Phase, Tries, Allowance>>
    BY DEF Life!Next, Life!vars, Phase, Tries, Allowance
  <1>1. TypeOK /\ LocksHold /\ RowsBegin
    BY DEF QueueInv
  <1>2. ASSUME UNCHANGED jobs PROVE UNCHANGED <<Phase, Tries, Allowance>>
    BY <1>2 DEF Phase, Tries, Allowance, PhaseOf
  <1>3. ASSUME NEW p \in Producers, EnqueueStep(p)
        PROVE  (\E j \in Jobs : Life!Submit(j)) \/ UNCHANGED jobs
    BY <1>1, <1>3, InsertRefines DEF EnqueueStep, LookUp, InsertRaises, EnqueueEnds
  <1>4. ASSUME NEW j \in Jobs, BecomesDue(j) \/ LeaseRunsOut(j)
        PROVE  UNCHANGED <<Phase, Tries, Allowance>>
    <2>1. \A i \in Jobs : RowKept(i)
      BY <1>1, <1>4, TimeDoes DEF RowKept, Untouched
    <2> QED
      BY <2>1, KeptRefines
  <1>5. ASSUME RecoverExpiredLeases PROVE \E S \in SUBSET Jobs : Life!Lapse(S)
    BY <1>1, <1>5, RecoverRefines
  <1>6. ASSUME NEW w \in Workers, ClaimCommits(w)
        PROVE  \E j \in Jobs : \E S \in SUBSET Jobs : Life!Lease(S, j)
    <2>1. run[w].job \in Jobs /\ run[w].recovered \in SUBSET Jobs
      BY <1>1, <1>6, RunType DEF ClaimCommits
    <2>2. PICK j \in Jobs, S \in SUBSET Jobs : j = run[w].job /\ S = run[w].recovered
      BY <2>1
    <2>3. Life!Lease(S, j)
      BY <1>1, <1>6, <2>2, ClaimCommitsRefines
    <2> QED
      BY <2>3
  <1>7. ASSUME NEW w \in Workers, ClaimBegins(w) \/ HandlerEnds(w) \/ Refused(w) \/ Crash(w)
        PROVE  UNCHANGED jobs
    BY <1>7 DEF ClaimBegins, HandlerEnds, Refused, Crash
  <1>8. ASSUME NEW w \in Workers, Complete(w) \/ Fail(w)
        PROVE  \E j \in Jobs : Life!Complete(j) \/ Life!Reject(j)
    <2>1. run[w].job \in Jobs
      BY <1>1, <1>8, SettleDoes
    <2>2. PICK j \in Jobs : j = run[w].job
      BY <2>1
    <2>3. Life!Complete(j) \/ Life!Reject(j)
      BY <1>1, <1>8, <2>2, SettleRefines
    <2> QED
      BY <2>3
  <1>9. CASE UNCHANGED vars
    BY <1>2, <1>9 DEF vars
  <1> QED
    BY <1>2, <1>3, <1>4, <1>5, <1>6, <1>7, <1>8, <1>9 DEF Next, WorkerStep

\* What the callers of the queue see, however the transactions of its workers
\* overlap, is the life cycle both queues promise.
THEOREM ImplementsLifecycle == Spec => LifecycleSpec
  <1>1. Init => Life!Init
    <2> SUFFICES ASSUME Init PROVE Life!Init
      OBVIOUS
    <2>1. \A j \in Jobs : jobs[j].status = "absent" /\ jobs[j].attempt = 0 /\ jobs[j].limit = 0
      BY DEF Init, NoRow
    <2>2. \A j \in Jobs : PhaseOf(j) = "absent"
      BY <2>1 DEF PhaseOf
    <2>3. /\ Phase = [j \in Jobs |-> "absent"] /\ Tries = [j \in Jobs |-> 0]
          /\ Allowance = [j \in Jobs |-> 0]
      BY <2>1, <2>2 DEF Phase, Tries, Allowance
    <2> QED
      BY <2>3 DEF Life!Init, Phase, Tries, Allowance
  <1>2. QueueInv /\ [Next]_vars => [Life!Next]_(Life!vars)
    BY StepRefines
  <1> QED
    BY <1>1, <1>2, QueueInvariant, PTL DEF Spec, LifecycleSpec, Life!Spec

=============================================================================
