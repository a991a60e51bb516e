------------------------ MODULE ProcessingQueueProofs ------------------------
(***************************************************************************)
(* Theorems about ProcessingQueue, for any jobs, keys, limits, delays,     *)
(* lease, threads, any wait for the lock and any run of the clock.         *)
(*                                                                         *)
(* What carries them is Fit: what a row and its trail have to do with each *)
(* other and with the clock.  The instants of a row bound those of its     *)
(* trail, next_attempt_at while it waits, leased_until while it runs: that *)
(* is why an instant read before the lock was waited for is never older    *)
(* than the last event.                                                    *)
(***************************************************************************)
EXTENDS ProcessingQueue, SequenceTheorems, FiniteSetTheorems, TLAPS

LastEvent(l) == l[Len(l)]

\* The trail l is that of the row r, at the instant c.
Fit(r, l, c) ==
  /\ r \in Job /\ l \in Seq(Event)
  /\ Chained(l) /\ LastStatus(l) = r.status /\ Attempts(l) = r.attempt
  /\ LeasesNamed(l) /\ InTimeOrder(l)
  /\ l # <<>> => LastEvent(l).at <= c
  /\ r.status = "pending" => LastEvent(l).at <= r.next
  /\ r.status = "processing" =>
       /\ LastEvent(l).worker = r.worker /\ LastEvent(l).attempt = r.attempt
       /\ r.worker \in Workers /\ r.until \in Nat /\ LastEvent(l).at <= r.until

QueueInv ==
  /\ TypeOK
  /\ \A j \in Jobs : Fit(jobs[j], log[j], clock)

-----------------------------------------------------------------------------
(* One more event on a trail. *)

LEMMA LongerLog ==
  ASSUME NEW l \in Seq(Event), NEW e \in Event
  PROVE  LET m == Append(l, e)
         IN /\ m \in Seq(Event) /\ m # <<>> /\ LastEvent(m) = e /\ LastStatus(m) = e.to
            /\ Len(l) \in Nat /\ DOMAIN l = 1..Len(l) /\ DOMAIN m = 1..Len(l) + 1
            /\ Len(m) = Len(l) + 1 /\ m[Len(l) + 1] = e
            /\ \A i \in 1..Len(l) : m[i] = l[i]
  <1> DEFINE m == Append(l, e)
  <1>1. /\ m \in Seq(Event) /\ Len(l) \in Nat /\ DOMAIN l = 1..Len(l) /\ DOMAIN m = 1..Len(l) + 1
        /\ Len(m) = Len(l) + 1 /\ m[Len(l) + 1] = e
        /\ \A i \in 1..Len(l) : m[i] = l[i]
    OBVIOUS
  <1>2. m # <<>>
    BY <1>1
  <1> QED
    BY <1>1, <1>2 DEF LastEvent, LastStatus

LEMMA MoreAttempts ==
  ASSUME NEW l \in Seq(Event), NEW e \in Event
  PROVE  /\ Attempts(l) \in Nat
         /\ Attempts(Append(l, e)) = IF e.type = "claimed" THEN Attempts(l) + 1 ELSE Attempts(l)
  <1> DEFINE m == Append(l, e)
             n == Len(l) + 1
             C == {i \in 1..Len(l) : l[i].type = "claimed"}
             D == {i \in 1..n : m[i].type = "claimed"}
  <1>1. /\ Len(l) \in Nat /\ DOMAIN l = 1..Len(l) /\ DOMAIN m = 1..n /\ m[n] = e
        /\ \A i \in 1..Len(l) : m[i] = l[i]
    BY LongerLog
  <1>2. IsFiniteSet(C) /\ n \notin C
    <2>1. IsFiniteSet(1..Len(l)) /\ C \subseteq 1..Len(l)
      BY <1>1, FS_Interval
    <2>2. IsFiniteSet(C)
      BY <2>1, FS_Subset
    <2> QED
      BY <1>1, <2>2
  <1>3. Cardinality(C) \in Nat /\ Cardinality(C \cup {n}) = Cardinality(C) + 1
    BY <1>2, FS_CardinalityType, FS_AddElement
  <1>4. D = IF e.type = "claimed" THEN C \cup {n} ELSE C
    BY <1>1
  <1>5. Attempts(l) = Cardinality(C) /\ Attempts(m) = Cardinality(D)
    BY <1>1 DEF Attempts
  <1> HIDE DEF C, D, m
  <1>6. Attempts(m) = IF e.type = "claimed" THEN Attempts(l) + 1 ELSE Attempts(l)
    BY <1>3, <1>4, <1>5
  <1> QED
    BY <1>3, <1>5, <1>6 DEF m

\* An event that starts where the trail is, not earlier, and names the lease it
\* ends, leaves the trail faithful.
LEMMA FaithfulEvent ==
  ASSUME NEW l \in Seq(Event), NEW e \in Event,
         Chained(l), LeasesNamed(l), InTimeOrder(l),
         e.from = LastStatus(l), l # <<>> => LastEvent(l).at <= e.at,
         e.from = "processing" => e.worker = LastEvent(l).worker /\ e.attempt = LastEvent(l).attempt
  PROVE  LET m == Append(l, e) IN Chained(m) /\ LeasesNamed(m) /\ InTimeOrder(m)
  <1> DEFINE n == Len(l) + 1
  <1>1. PICK m : m = Append(l, e)
    OBVIOUS
  <1>2. /\ Len(l) \in Nat /\ DOMAIN l = 1..Len(l) /\ DOMAIN m = 1..n /\ m[n] = e
        /\ \A i \in 1..Len(l) : m[i] = l[i]
    BY <1>1, LongerLog
  <1>3. CASE Len(l) = 0
    <2>1. l = <<>> /\ LastStatus(l) = "absent" /\ n = 1
      BY <1>3 DEF LastStatus
    <2>2. DOMAIN m = {1} /\ m[1] = e /\ e.from = "absent"
      BY <1>2, <2>1
    <2> QED
      BY <1>1, <2>2 DEF Chained, LeasesNamed, InTimeOrder
  <1>4. CASE Len(l) # 0
    <2>1. l # <<>> /\ Len(l) \in 1..Len(l) /\ n - 1 = Len(l) /\ n > 1 /\ m[n - 1] = LastEvent(l)
      BY <1>2, <1>4 DEF LastEvent
    <2>2. e.from = m[n - 1].to
      BY <2>1 DEF LastStatus, LastEvent
    <2>3. \A i \in DOMAIN m : i = n \/ (i \in DOMAIN l /\ m[i] = l[i])
      BY <1>2
    <2>4. \A i \in DOMAIN l : i > 1 => i - 1 \in 1..Len(l) /\ m[i - 1] = l[i - 1]
      BY <1>2
    <2>5. \A i \in DOMAIN l : i >= 1
      BY <1>2
    <2>6. Chained(m)
      <3> SUFFICES ASSUME NEW i \in DOMAIN m
                   PROVE  m[i].from = IF i = 1 THEN "absent" ELSE m[i - 1].to
        BY DEF Chained
      <3>1. CASE i = n
        BY <1>2, <2>1, <2>2, <3>1
      <3>2. CASE i # n
        <4>1. i \in DOMAIN l /\ m[i] = l[i] /\ (i = 1 \/ i > 1)
          BY <1>2, <2>3, <3>2
        <4> QED
          BY <2>4, <4>1 DEF Chained
      <3> QED
        BY <3>1, <3>2
    <2>7. LeasesNamed(m)
      <3> SUFFICES ASSUME NEW i \in DOMAIN m, m[i].from = "processing"
                   PROVE  i > 1 /\ m[i].worker = m[i - 1].worker /\ m[i].attempt = m[i - 1].attempt
        BY DEF LeasesNamed
      <3>1. CASE i = n
        BY <1>2, <2>1, <3>1
      <3>2. CASE i # n
        <4>1. i \in DOMAIN l /\ m[i] = l[i]
          BY <2>3, <3>2
        <4>2. i > 1 /\ l[i].worker = l[i - 1].worker /\ l[i].attempt = l[i - 1].attempt
          BY <4>1 DEF LeasesNamed
        <4> QED
          BY <2>4, <4>1, <4>2
      <3> QED
        BY <3>1, <3>2
    <2>8. InTimeOrder(m)
      <3> SUFFICES ASSUME NEW i \in DOMAIN m, i > 1 PROVE m[i - 1].at <= m[i].at
        BY DEF InTimeOrder
      <3>1. CASE i = n
        BY <1>2, <2>1, <3>1
      <3>2. CASE i # n
        <4>1. i \in DOMAIN l /\ m[i] = l[i]
          BY <2>3, <3>2
        <4> QED
          BY <2>4, <4>1 DEF InTimeOrder
      <3> QED
        BY <3>1, <3>2
    <2> QED
      BY <1>1, <2>6, <2>7, <2>8
  <1> QED
    BY <1>2, <1>3, <1>4

-----------------------------------------------------------------------------
(* What each operation writes fits, if what it found did. *)

LEMMA LastEventType ==
  ASSUME NEW l \in Seq(Event), l # <<>>
  PROVE  /\ LastEvent(l) \in Event /\ LastEvent(l).at \in Nat
         /\ LastStatus(l) = LastEvent(l).to /\ LastStatus(l) \in Statuses
  <1>1. Len(l) \in 1..Len(l) /\ DOMAIN l = 1..Len(l)
    OBVIOUS
  <1>2. l[Len(l)] \in Event
    BY <1>1
  <1> QED
    BY <1>2 DEF LastEvent, LastStatus, Event

LEMMA LaterFits ==
  ASSUME NEW r, NEW l, NEW c \in Nat, NEW d \in Nat, Fit(r, l, c), c <= d
  PROVE  Fit(r, l, d)
  <1>1. l # <<>> => LastEvent(l).at \in Nat /\ LastEvent(l).at <= c
    BY LastEventType DEF Fit
  <1>2. l # <<>> => LastEvent(l).at <= d
    BY <1>1
  <1> QED
    BY <1>2 DEF Fit

LEMMA NoEvents ==
  ASSUME NEW l \in Seq(Event), LastStatus(l) = "absent"
  PROVE  l = <<>> /\ Attempts(l) = 0
  <1>1. l = <<>>
    BY LastEventType DEF Statuses
  <1>2. {i \in DOMAIN <<>> : <<>>[i].type = "claimed"} = {}
    OBVIOUS
  <1> QED
    BY <1>1, <1>2, FS_EmptySet DEF Attempts

LEMMA EventFits ==
  ASSUME NEW r, NEW l, NEW c \in Nat, Fit(r, l, c), NEW s \in Job, NEW e \in Event,
         e.from = r.status, e.to = s.status, e.at <= c, l # <<>> => LastEvent(l).at <= e.at,
         e.from = "processing" => e.worker = r.worker /\ e.attempt = r.attempt,
         s.attempt = IF e.type = "claimed" THEN r.attempt + 1 ELSE r.attempt,
         s.status = "pending" => e.at <= s.next,
         s.status = "processing" => /\ e.worker = s.worker /\ e.attempt = s.attempt
                                    /\ s.worker \in Workers /\ s.until \in Nat /\ e.at <= s.until
  PROVE  Fit(s, Append(l, e), c)
  <1>1. l \in Seq(Event)
    BY DEF Fit
  <1>2. PICK m : m = Append(l, e)
    OBVIOUS
  <1>3. m \in Seq(Event) /\ LastEvent(m) = e /\ LastStatus(m) = e.to
    BY <1>1, <1>2, LongerLog
  <1>4. Chained(m) /\ LeasesNamed(m) /\ InTimeOrder(m)
    BY <1>1, <1>2, FaithfulEvent DEF Fit
  <1>5. Attempts(m) = s.attempt
    BY <1>1, <1>2, MoreAttempts DEF Fit
  <1> QED
    BY <1>2, <1>3, <1>4, <1>5 DEF Fit

LEMMA BegunFits ==
  ASSUME NEW r, NEW l, NEW c \in Nat, Fit(r, l, c), r.status = "absent",
         NEW k \in Keys \cup {None}, NEW n \in Limits, NEW now \in 0..c, NEW d \in Nat
  PROVE  Fit([NoRow EXCEPT !.status = "pending", !.key = k, !.limit = n, !.next = now + d,
                           !.created = now],
             Logged(l, "enqueued", "absent", "pending", 0, None, now), c)
  <1> DEFINE s == [NoRow EXCEPT !.status = "pending", !.key = k, !.limit = n, !.next = now + d,
                                !.created = now]
             e == [type |-> "enqueued", from |-> "absent", to |-> "pending", attempt |-> 0,
                   worker |-> None, at |-> now]
  <1>0. now \in Nat /\ now + d \in Nat /\ n \in Nat
    BY LimitsAssumption
  <1>1. s \in Job /\ s.status = "pending" /\ s.attempt = 0 /\ s.next = now + d
    BY <1>0 DEF NoRow, Job, Statuses
  <1>2. /\ e \in Event /\ e.from = "absent" /\ e.to = "pending" /\ e.type = "enqueued"
        /\ e.at = now
    BY DEF Event, EventTypes, Statuses
  <1>3. l = <<>> /\ r.attempt = 0
    BY NoEvents DEF Fit
  <1> HIDE DEF s, e
  <1>4. e.at <= c /\ e.at <= s.next
    BY <1>1, <1>2
  <1>5. Fit(s, Append(l, e), c)
    BY <1>1, <1>2, <1>3, <1>4, EventFits
  <1> QED
    BY <1>5 DEF Logged, s, e

LEMMA TakenFits ==
  ASSUME NEW r, NEW l, NEW c \in Nat, Fit(r, l, c), r.status = "pending",
         NEW w \in Workers, NEW now \in 0..c, r.next <= now
  PROVE  Fit([r EXCEPT !.status = "processing", !.attempt = @ + 1, !.worker = w,
                       !.until = now + LeaseSeconds],
             Logged(l, "claimed", "pending", "processing", r.attempt + 1, w, now), c)
  <1> DEFINE s == [r EXCEPT !.status = "processing", !.attempt = @ + 1, !.worker = w,
                            !.until = now + LeaseSeconds]
             e == [type |-> "claimed", from |-> "pending", to |-> "processing",
                   attempt |-> r.attempt + 1, worker |-> w, at |-> now]
  <1>1. /\ r \in Job /\ r.attempt \in Nat /\ r.next \in Nat
        /\ l # <<>> => LastEvent(l).at \in Nat /\ LastEvent(l).at <= r.next
    BY LastEventType DEF Fit, Job
  <1>0. now + LeaseSeconds \in Nat /\ now <= now + LeaseSeconds /\ r.attempt + 1 \in Nat
    BY <1>1, TimeAssumption
  <1>2. /\ s \in Job /\ s.status = "processing" /\ s.attempt = r.attempt + 1 /\ s.worker = w
        /\ s.until = now + LeaseSeconds /\ s.until \in Nat /\ now <= s.until
    BY <1>0, <1>1 DEF Job, Statuses
  <1>3. /\ e \in Event /\ e.from = "pending" /\ e.to = "processing" /\ e.type = "claimed"
        /\ e.at = now /\ e.worker = w /\ e.attempt = r.attempt + 1
    BY <1>1 DEF Event, EventTypes, Statuses
  <1>4. l # <<>> => LastEvent(l).at <= e.at
    BY <1>1, <1>3
  <1> HIDE DEF s, e
  <1>5. Fit(s, Append(l, e), c)
    BY <1>2, <1>3, <1>4, EventFits
  <1> QED
    BY <1>5 DEF Logged, s, e

\* The end of a lease, at an instant not before the claim's: what _recover,
\* complete and fail write.
LEMMA EndedFits ==
  ASSUME NEW r, NEW l, NEW c \in Nat, Fit(r, l, c), r.status = "processing",
         NEW to \in Statuses \ {"processing"}, NEW type \in EventTypes \ {"claimed"},
         NEW s \in Job, s.status = to, s.attempt = r.attempt,
         NEW now \in 0..c, l # <<>> => LastEvent(l).at <= now, to = "pending" => now <= s.next
  PROVE  Fit(s, Logged(l, type, "processing", to, r.attempt, r.worker, now), c)
  <1> DEFINE e == [type |-> type, from |-> "processing", to |-> to, attempt |-> r.attempt,
                   worker |-> r.worker, at |-> now]
  <1>1. r \in Job /\ r.attempt \in Nat /\ r.worker \in Workers
    BY DEF Fit, Job
  <1>2. /\ e \in Event /\ e.from = "processing" /\ e.to = to /\ e.type # "claimed" /\ e.at = now
        /\ e.worker = r.worker /\ e.attempt = r.attempt
    BY <1>1 DEF Event, Statuses
  <1> HIDE DEF e
  <1>3. Fit(s, Append(l, e), c)
    BY <1>2, EventFits
  <1> QED
    BY <1>3 DEF Logged, e

LEMMA RecoveredFits ==
  ASSUME clock \in Nat, NEW j \in Jobs, Fit(jobs[j], log[j], clock), NEW now \in 0..clock
  PROVE  Fit(Recovered(j, now), RecoveredLog(j, now), clock)
  <1>1. CASE ~Expired(j, now)
    BY <1>1 DEF Recovered, RecoveredLog
  <1>2. CASE Expired(j, now)
    <2> DEFINE s == [jobs[j] EXCEPT !.status = "pending", !.worker = None, !.until = None,
                                    !.next = now]
    <2>1. /\ jobs[j] \in Job /\ jobs[j].status = "processing" /\ jobs[j].until \in Nat
          /\ jobs[j].until <= now /\ log[j] \in Seq(Event)
          /\ log[j] # <<>> => LastEvent(log[j]).at \in Nat /\ LastEvent(log[j]).at <= jobs[j].until
      BY <1>2, LastEventType DEF Expired, Fit
    <2>2. s \in Job /\ s.status = "pending" /\ s.attempt = jobs[j].attempt /\ s.next = now
      <3>1. now \in Nat
        OBVIOUS
      <3> QED
        BY <2>1, <3>1 DEF Job, Statuses
    <2>3. log[j] # <<>> => LastEvent(log[j]).at <= now
      BY <2>1
    <2>4. "pending" \in Statuses \ {"processing"} /\ "lease_expired" \in EventTypes \ {"claimed"}
      BY DEF Statuses, EventTypes
    <2> HIDE DEF s
    <2>5. Fit(s, Logged(log[j], "lease_expired", "processing", "pending", jobs[j].attempt,
                        jobs[j].worker, now), clock)
      BY <2>1, <2>2, <2>3, <2>4, EndedFits
    <2> QED
      BY <1>2, <2>5 DEF Recovered, RecoveredLog, s
  <1> QED
    BY <1>1, <1>2

-----------------------------------------------------------------------------
(* What a step does to one row. *)

RowKept(j) == jobs'[j] = jobs[j] /\ log'[j] = log[j]

RowBegun(j) ==
  /\ jobs[j].status = "absent"
  /\ \E k \in Keys \cup {None}, n \in Limits, now \in Readings, d \in Delays :
       /\ jobs'[j] = [NoRow EXCEPT !.status = "pending", !.key = k, !.limit = n, !.next = now + d,
                                   !.created = now]
       /\ log'[j] = Logged(log[j], "enqueued", "absent", "pending", 0, None, now)

RowRecovered(j) ==
  \E now \in Readings :
    /\ Expired(j, now)
    /\ jobs'[j] = Recovered(j, now) /\ log'[j] = RecoveredLog(j, now)

Leased(r, t, now) == [r EXCEPT !.status = "processing", !.attempt = @ + 1, !.worker = WorkerOf[t],
                               !.until = now + LeaseSeconds]

RowTaken(j, t) ==
  \E now \in Readings :
    /\ Recovered(j, now).status = "pending" /\ Recovered(j, now).next <= now
    /\ jobs'[j] = Leased(Recovered(j, now), t, now)
    /\ log'[j] = Logged(RecoveredLog(j, now), "claimed", "pending", "processing",
                        Recovered(j, now).attempt + 1, WorkerOf[t], now)

Ended(r, status, next) == [r EXCEPT !.status = status, !.worker = None, !.until = None, !.next = next]

RowSettled(j, t) ==
  /\ Owned(j, WorkerOf[t])
  /\ \E to \in Statuses \ {"processing"}, type \in EventTypes \ {"claimed"}, next \in Nat :
       /\ to = "pending" => clock <= next /\ ~Exhausted(j)
       /\ to = "failed" => Exhausted(j)
       /\ to = "completed" \/ to = "failed" \/ to = "pending"
       /\ jobs'[j] = Ended(jobs[j], to, next)
       /\ log'[j] = Logged(log[j], type, "processing", to, jobs[j].attempt, WorkerOf[t], clock)

RowStep(j) ==
  \/ RowKept(j) \/ RowBegun(j) \/ RowRecovered(j)
  \/ \E t \in Threads : RowTaken(j, t) \/ RowSettled(j, t)

Written ==
  /\ jobs' = [j \in Jobs |-> jobs'[j]] /\ log' = [j \in Jobs |-> log'[j]]
  /\ run' \in [Threads -> Run] /\ \A t \in Threads : run'[t].at # "idle" => run'[t].job \in Jobs

Steps ==
  /\ Written
  /\ \A j \in Jobs : RowStep(j)
  /\ clock' \in Nat /\ clock <= clock'

LEMMA ReadingsType ==
  ASSUME clock \in Nat
  PROVE  /\ Readings \subseteq 0..clock /\ clock \in Readings
         /\ \A now \in Readings : now \in Nat /\ now <= clock /\ clock <= now + LockWait
  BY TimeAssumption DEF Readings

LEMMA IdleType == Idle \in Run /\ Idle.at = "idle"
  BY DEF Idle, Run

LEMMA EndsType ==
  ASSUME TypeOK, NEW t \in Threads, run' = [run EXCEPT ![t] = Idle]
  PROVE  run' \in [Threads -> Run] /\ \A u \in Threads : run'[u].at # "idle" => run'[u].job \in Jobs
  BY IdleType DEF TypeOK

LEMMA EnqueueSteps ==
  ASSUME TypeOK, NEW j \in Jobs, NEW k \in Keys \cup {None}, Enqueue(j, k)
  PROVE  Steps /\ UNCHANGED clock
         /\ RowBegun(j) /\ \A i \in Jobs \ {j} : RowKept(i)
  <1>1. PICK now \in Readings, n \in Limits, d \in Delays :
          /\ jobs' = [jobs EXCEPT ![j] = [NoRow EXCEPT !.status = "pending", !.key = k, !.limit = n,
                                                       !.next = now + d, !.created = now]]
          /\ log' = [log EXCEPT ![j] = Logged(@, "enqueued", "absent", "pending", 0, None, now)]
    BY DEF Enqueue
  <1>2. RowBegun(j)
    BY <1>1 DEF Enqueue, RowBegun, Present, TypeOK
  <1>3. \A i \in Jobs \ {j} : RowKept(i)
    BY <1>1 DEF RowKept, TypeOK
  <1>4. Written
    BY <1>1 DEF Enqueue, Written, TypeOK
  <1> QED
    BY <1>2, <1>3, <1>4 DEF Steps, RowStep, Enqueue, TypeOK

LEMMA RecoverSteps ==
  ASSUME TypeOK, RecoverExpiredLeases
  PROVE  Steps /\ UNCHANGED clock
         /\ \A j \in Jobs : IF Expired(j, clock) THEN RowRecovered(j) ELSE RowKept(j)
  <1>1. clock \in Readings
    BY ReadingsType DEF TypeOK
  <1>2. ASSUME NEW j \in Jobs PROVE IF Expired(j, clock) THEN RowRecovered(j) ELSE RowKept(j)
    <2>1. jobs'[j] = Recovered(j, clock) /\ log'[j] = RecoveredLog(j, clock)
      BY DEF RecoverExpiredLeases
    <2>2. CASE Expired(j, clock)
      BY <1>1, <2>1, <2>2 DEF RowRecovered
    <2>3. CASE ~Expired(j, clock)
      BY <2>1, <2>3 DEF RowKept, Recovered, RecoveredLog
    <2> QED
      BY <2>2, <2>3
  <1>3. Written
    BY DEF RecoverExpiredLeases, Written, TypeOK
  <1> QED
    BY <1>2, <1>3 DEF Steps, RowStep, RecoverExpiredLeases, TypeOK

LEMMA ClaimSteps ==
  ASSUME QueueInv, NEW t \in Threads, Claim(t)
  PROVE  Steps /\ UNCHANGED clock
         /\ \E j \in Jobs, now \in Readings :
              /\ Recovered(j, now).status = "pending"
              /\ RowTaken(j, t) /\ jobs'[j] = Leased(Recovered(j, now), t, now)
              /\ \A i \in Jobs \ {j} :
                   /\ IF Expired(i, now) THEN RowRecovered(i) ELSE RowKept(i)
                   /\ jobs'[i] = Recovered(i, now)
  <1>1. PICK now \in Readings, j \in Jobs :
          /\ j \in Ready(now)
          /\ jobs' = [i \in Jobs |->
               IF i = j THEN [Recovered(j, now) EXCEPT !.status = "processing", !.attempt = @ + 1,
                                         !.worker = WorkerOf[t], !.until = now + LeaseSeconds]
               ELSE Recovered(i, now)]
          /\ log' = [i \in Jobs |->
               IF i = j THEN Logged(RecoveredLog(j, now), "claimed", "pending", "processing",
                                    Recovered(j, now).attempt + 1, WorkerOf[t], now)
               ELSE RecoveredLog(i, now)]
          /\ run' = [run EXCEPT ![t] = [at |-> "handling", job |-> j,
                                        attempt |-> Recovered(j, now).attempt + 1]]
    BY DEF Claim, Ready
  <1>2. j \in Jobs /\ Recovered(j, now).status = "pending" /\ Recovered(j, now).next <= now
    BY <1>1 DEF Ready
  <1>3. RowTaken(j, t) /\ jobs'[j] = Leased(Recovered(j, now), t, now)
    BY <1>1, <1>2 DEF RowTaken, Leased
  <1>4. ASSUME NEW i \in Jobs \ {j}
        PROVE  (IF Expired(i, now) THEN RowRecovered(i) ELSE RowKept(i)) /\ jobs'[i] = Recovered(i, now)
    <2>1. jobs'[i] = Recovered(i, now) /\ log'[i] = RecoveredLog(i, now)
      BY <1>1
    <2>2. CASE Expired(i, now)
      BY <2>1, <2>2 DEF RowRecovered
    <2>3. CASE ~Expired(i, now)
      BY <2>1, <2>3 DEF RowKept, Recovered, RecoveredLog
    <2> QED
      BY <2>1, <2>2, <2>3
  <1>5. Recovered(j, now).attempt \in Nat
    BY <1>2, RecoveredFits, ReadingsType DEF QueueInv, TypeOK, Fit, Job
  <1>6. Written
    <2>1. [at |-> "handling", job |-> j, attempt |-> Recovered(j, now).attempt + 1] \in Run
      BY <1>2, <1>5 DEF Run
    <2>2. /\ run' \in [Threads -> Run]
          /\ \A u \in Threads : run'[u].at # "idle" => run'[u].job \in Jobs
      BY <1>1, <1>2, <2>1 DEF QueueInv, TypeOK
    <2> QED
      BY <1>1, <2>2 DEF Written
  <1>7. clock' = clock /\ clock \in Nat
    BY DEF Claim, QueueInv, TypeOK
  <1>8. \A i \in Jobs : RowStep(i)
    BY <1>3, <1>4 DEF RowStep
  <1>9. Steps
    BY <1>6, <1>7, <1>8 DEF Steps
  <1> QED
    BY <1>2, <1>3, <1>4, <1>7, <1>9

LEMMA SettleSteps ==
  ASSUME TypeOK, NEW t \in Threads, Complete(t) \/ Fail(t)
  PROVE  Steps /\ UNCHANGED clock
         /\ run[t].job \in Jobs /\ RowSettled(run[t].job, t)
         /\ \A i \in Jobs \ {run[t].job} : RowKept(i)
  <1> DEFINE j == run[t].job
  <1>1. /\ j \in Jobs /\ jobs[j] \in Job /\ jobs[j].next \in Nat /\ clock \in Nat
        /\ Owned(j, WorkerOf[t])
    BY DEF Complete, Fail, TypeOK, Job
  <1>2. PICK to \in Statuses \ {"processing"}, type \in EventTypes \ {"claimed"}, next \in Nat :
          /\ Settle(t, to, type, next)
          /\ to = "pending" => clock <= next /\ ~Exhausted(j)
          /\ to = "failed" => Exhausted(j)
          /\ to = "completed" \/ to = "failed" \/ to = "pending"
    <2>1. CASE Complete(t)
      <3>1. "completed" \in Statuses \ {"processing"} /\ "completed" \in EventTypes \ {"claimed"}
        BY DEF Statuses, EventTypes
      <3> QED
        BY <1>1, <2>1, <3>1 DEF Complete
    <2>2. CASE Fail(t) /\ Exhausted(j)
      <3>1. "failed" \in Statuses \ {"processing"} /\ "failed" \in EventTypes \ {"claimed"}
        BY DEF Statuses, EventTypes
      <3> QED
        BY <1>1, <2>2, <3>1 DEF Fail
    <2>3. CASE Fail(t) /\ ~Exhausted(j)
      <3>1. "pending" \in Statuses \ {"processing"} /\ "retry_scheduled" \in EventTypes \ {"claimed"}
        BY DEF Statuses, EventTypes
      <3>2. PICK d \in Delays : Settle(t, "pending", "retry_scheduled", clock + d)
        BY <2>3 DEF Fail
      <3>3. clock + d \in Nat /\ clock <= clock + d
        BY <1>1, TimeAssumption
      <3> QED
        BY <2>3, <3>1, <3>2, <3>3
    <2> QED
      BY <2>1, <2>2, <2>3
  <1>3. /\ jobs' = [jobs EXCEPT ![j] = Ended(jobs[j], to, next)]
        /\ log' = [log EXCEPT ![j] = Logged(log[j], type, "processing", to, jobs[j].attempt,
                                            WorkerOf[t], clock)]
        /\ run' = [run EXCEPT ![t] = Idle] /\ clock' = clock
    BY <1>1, <1>2 DEF Settle, Ended, TypeOK
  <1>4. RowSettled(j, t)
    BY <1>1, <1>2, <1>3 DEF RowSettled, TypeOK
  <1>5. \A i \in Jobs \ {j} : RowKept(i)
    BY <1>3 DEF RowKept, TypeOK
  <1>6. Written
    BY <1>3, EndsType DEF Written, TypeOK
  <1> QED
    BY <1>1, <1>3, <1>4, <1>5, <1>6 DEF Steps, RowStep

LEMMA OtherSteps ==
  ASSUME TypeOK,
         \/ Tick \/ UNCHANGED vars
         \/ \E t \in Threads : HandlerEnds(t) \/ Refused(t) \/ Crash(t)
  PROVE  Steps /\ \A j \in Jobs : RowKept(j)
  <1>1. UNCHANGED <<jobs, log>> /\ clock' \in Nat /\ clock <= clock'
    BY DEF Tick, vars, HandlerEnds, Refused, Crash, TypeOK
  <1>2. /\ run' \in [Threads -> Run]
        /\ \A t \in Threads : run'[t].at # "idle" => run'[t].job \in Jobs
    <2>1. ASSUME NEW t \in Threads, HandlerEnds(t)
          PROVE  /\ run' \in [Threads -> Run]
                 /\ \A u \in Threads : run'[u].at # "idle" => run'[u].job \in Jobs
      BY <2>1 DEF HandlerEnds, TypeOK, Run
    <2> QED
      BY <2>1, EndsType DEF Tick, vars, Refused, Crash, TypeOK
  <1>3. Written /\ \A j \in Jobs : RowKept(j)
    BY <1>1, <1>2 DEF Written, RowKept, TypeOK
  <1> QED
    BY <1>1, <1>3 DEF Steps, RowStep

LEMMA NextSteps == ASSUME QueueInv, [Next]_vars PROVE Steps
  BY EnqueueSteps, RecoverSteps, ClaimSteps, SettleSteps, OtherSteps DEF Next, QueueInv

-----------------------------------------------------------------------------
(* The trail. *)

LEMMA InitQueue == Init => QueueInv
  <1> SUFFICES ASSUME Init PROVE QueueInv
    OBVIOUS
  <1>1. NoRow \in Job /\ NoRow.status = "absent" /\ NoRow.attempt = 0
    BY DEF NoRow, Job
  <1>2. TypeOK
    BY <1>1, IdleType DEF Init, TypeOK
  <1>3. <<>> \in Seq(Event) /\ LastStatus(<<>>) = "absent" /\ DOMAIN <<>> = {}
    BY DEF LastStatus
  <1>4. Attempts(<<>>) = 0 /\ Chained(<<>>) /\ LeasesNamed(<<>>) /\ InTimeOrder(<<>>)
    BY <1>3, NoEvents DEF Chained, LeasesNamed, InTimeOrder
  <1>5. Fit(NoRow, <<>>, 0)
    BY <1>1, <1>3, <1>4 DEF Fit
  <1> QED
    BY <1>2, <1>5 DEF QueueInv, Init

LEMMA RowFits ==
  ASSUME QueueInv, NEW j \in Jobs, RowStep(j)
  PROVE  Fit(jobs'[j], log'[j], clock)
  <1>1. Fit(jobs[j], log[j], clock) /\ clock \in Nat
    BY DEF QueueInv, TypeOK
  <1>2. CASE RowKept(j)
    BY <1>1, <1>2 DEF RowKept
  <1>3. CASE RowBegun(j)
    <2>1. PICK k \in Keys \cup {None}, n \in Limits, now \in Readings, d \in Delays :
            /\ jobs'[j] = [NoRow EXCEPT !.status = "pending", !.key = k, !.limit = n,
                                        !.next = now + d, !.created = now]
            /\ log'[j] = Logged(log[j], "enqueued", "absent", "pending", 0, None, now)
      BY <1>3 DEF RowBegun
    <2>2. now \in 0..clock /\ d \in Nat /\ jobs[j].status = "absent"
      BY <1>1, <1>3, ReadingsType, TimeAssumption DEF RowBegun
    <2>3. PICK r, l : r = jobs[j] /\ l = log[j]
      OBVIOUS
    <2>4. Fit(r, l, clock) /\ r.status = "absent"
      BY <1>1, <2>2, <2>3
    <2>5. Fit([NoRow EXCEPT !.status = "pending", !.key = k, !.limit = n, !.next = now + d,
                            !.created = now],
              Logged(l, "enqueued", "absent", "pending", 0, None, now), clock)
      BY <1>1, <2>2, <2>4, BegunFits
    <2> QED
      BY <2>1, <2>3, <2>5
  <1>4. CASE RowRecovered(j)
    BY <1>1, <1>4, RecoveredFits, ReadingsType DEF RowRecovered
  <1>5. ASSUME NEW t \in Threads, RowTaken(j, t) PROVE Fit(jobs'[j], log'[j], clock)
    <2>1. PICK now \in Readings :
            /\ Recovered(j, now).status = "pending" /\ Recovered(j, now).next <= now
            /\ jobs'[j] = Leased(Recovered(j, now), t, now)
            /\ log'[j] = Logged(RecoveredLog(j, now), "claimed", "pending", "processing",
                                Recovered(j, now).attempt + 1, WorkerOf[t], now)
      BY <1>5 DEF RowTaken
    <2>2. PICK r, l : r = Recovered(j, now) /\ l = RecoveredLog(j, now)
      OBVIOUS
    <2>3. now \in 0..clock /\ WorkerOf[t] \in Workers
      BY <1>1, ReadingsType DEF Workers
    <2>4. Fit(r, l, clock)
      BY <1>1, <2>2, <2>3, RecoveredFits
    <2>5. Fit(Leased(r, t, now),
              Logged(l, "claimed", "pending", "processing", r.attempt + 1, WorkerOf[t], now), clock)
      BY <1>1, <2>1, <2>2, <2>3, <2>4, TakenFits DEF Leased
    <2> QED
      BY <2>1, <2>2, <2>5
  <1>6. ASSUME NEW t \in Threads, RowSettled(j, t) PROVE Fit(jobs'[j], log'[j], clock)
    <2>1. PICK to \in Statuses \ {"processing"}, type \in EventTypes \ {"claimed"}, next \in Nat :
            /\ to = "pending" => clock <= next
            /\ jobs'[j] = Ended(jobs[j], to, next)
            /\ log'[j] = Logged(log[j], type, "processing", to, jobs[j].attempt, WorkerOf[t], clock)
      BY <1>6 DEF RowSettled
    <2>2. jobs[j] \in Job /\ jobs[j].status = "processing" /\ jobs[j].worker = WorkerOf[t]
      BY <1>1, <1>6 DEF RowSettled, Owned, Fit
    <2>3. PICK s : s = Ended(jobs[j], to, next)
      OBVIOUS
    <2>4. s \in Job /\ s.status = to /\ s.attempt = jobs[j].attempt /\ s.next = next
      BY <2>2, <2>3 DEF Ended, Job
    <2>5. clock \in 0..clock /\ (log[j] # <<>> => LastEvent(log[j]).at <= clock)
      BY <1>1 DEF Fit
    <2>6. Fit(s, Logged(log[j], type, "processing", to, jobs[j].attempt, jobs[j].worker, clock), clock)
      BY <1>1, <2>1, <2>2, <2>4, <2>5, EndedFits
    <2> QED
      BY <2>1, <2>2, <2>3, <2>6
  <1> QED
    BY <1>2, <1>3, <1>4, <1>5, <1>6 DEF RowStep

LEMMA QueueStep == ASSUME QueueInv, Steps PROVE QueueInv'
  <1>1. \A j \in Jobs : Fit(jobs'[j], log'[j], clock')
    <2> SUFFICES ASSUME NEW j \in Jobs PROVE Fit(jobs'[j], log'[j], clock')
      OBVIOUS
    <2>1. Fit(jobs'[j], log'[j], clock)
      BY RowFits DEF Steps
    <2> QED
      BY <2>1, LaterFits DEF Steps, QueueInv, TypeOK
  <1>2. jobs' \in [Jobs -> Job] /\ log' \in [Jobs -> Seq(Event)]
    BY <1>1 DEF Steps, Written, Fit
  <1>3. TypeOK'
    BY <1>2 DEF Steps, Written, TypeOK
  <1> QED
    BY <1>1, <1>3 DEF QueueInv

LEMMA QueueInvariant == Spec => []QueueInv
  <1>1. QueueInv /\ [Next]_vars => QueueInv'
    BY NextSteps, QueueStep
  <1> QED
    BY <1>1, InitQueue, PTL DEF Spec

\* The trail of a job tells its row and is true of what happened, however long
\* claim and enqueue wait for the lock with an instant they read before.
THEOREM TrailsAreFaithful == Spec => []TrailIsFaithful
  <1>1. QueueInv => TrailIsFaithful
    BY DEF QueueInv, Fit, TrailIsFaithful, TellsRow
  <1> QED
    BY <1>1, QueueInvariant, PTL

-----------------------------------------------------------------------------
(* The order of service. *)

\* A row that is pending before and after a step was not written by it; a row
\* that becomes pending is due no earlier than an instant the step read.
LEMMA WaitsOrJoins ==
  ASSUME QueueInv, NEW j \in Jobs, RowStep(j), jobs'[j].status = "pending"
  PROVE  \/ jobs'[j] = jobs[j]
         \/ /\ jobs[j].status # "pending"
            /\ jobs'[j].next \in Nat /\ clock <= jobs'[j].next + LockWait
  <1>1. /\ clock \in Nat /\ jobs[j] \in Job /\ LockWait \in Nat
        /\ \A now \in Readings : now \in 0..clock /\ now \in Nat /\ clock <= now + LockWait
    BY ReadingsType, TimeAssumption DEF QueueInv, TypeOK
  <1>2. CASE RowBegun(j)
    <2>1. PICK k \in Keys \cup {None}, n \in Limits, now \in Readings, d \in Delays :
            /\ jobs'[j] = [NoRow EXCEPT !.status = "pending", !.key = k, !.limit = n,
                                        !.next = now + d, !.created = now]
            /\ log'[j] = Logged(log[j], "enqueued", "absent", "pending", 0, None, now)
      BY <1>2 DEF RowBegun
    <2>2. jobs'[j].next = now + d /\ jobs[j].status = "absent" /\ d \in Nat
      BY <1>2, <2>1, TimeAssumption DEF RowBegun, NoRow
    <2> QED
      BY <1>1, <2>2
  <1>3. CASE RowRecovered(j)
    <2>1. PICK now \in Readings : Expired(j, now) /\ jobs'[j] = Recovered(j, now)
      BY <1>3 DEF RowRecovered
    <2>2. jobs'[j].next = now /\ jobs[j].status = "processing"
      BY <1>1, <2>1 DEF Recovered, Expired, Job
    <2> QED
      BY <1>1, <2>2
  <1>4. ASSUME NEW t \in Threads, RowTaken(j, t) PROVE FALSE
    <2>1. PICK now \in Readings : jobs'[j] = Leased(Recovered(j, now), t, now)
      BY <1>4 DEF RowTaken
    <2>2. Recovered(j, now) \in Job
      BY <1>1, RecoveredFits DEF QueueInv, Fit
    <2> QED
      BY <2>1, <2>2 DEF Leased, Job
  <1>5. ASSUME NEW t \in Threads, RowSettled(j, t)
        PROVE  jobs[j].status # "pending" /\ jobs'[j].next \in Nat /\ clock <= jobs'[j].next + LockWait
    <2>1. PICK to \in Statuses, next \in Nat :
            (to = "pending" => clock <= next) /\ jobs'[j] = Ended(jobs[j], to, next)
      BY <1>5 DEF RowSettled
    <2>2. jobs'[j].status = to /\ jobs'[j].next = next /\ jobs[j].status = "processing"
      BY <1>1, <1>5, <2>1 DEF Ended, Job, RowSettled, Owned
    <2> QED
      BY <1>1, <2>1, <2>2
  <1> QED
    BY <1>2, <1>3, <1>4, <1>5 DEF RowStep, RowKept

\* Nothing due for longer than the wait for the lock is ever overtaken.
THEOREM NothingDueIsOvertaken == Spec => NoOvertaking
  <1>1. ASSUME QueueInv, [Next]_vars, NEW j \in Jobs,
               jobs[j].status = "pending", jobs'[j].status = "pending",
               jobs[j].next + LockWait <= clock
        PROVE  (AheadOf(j))' \subseteq AheadOf(j) \cup {i \in Jobs : jobs'[i].next = jobs[j].next}
    <2>1. Steps
      BY <1>1, NextSteps
    <2>2. jobs'[j] = jobs[j]
      BY <1>1, <2>1, WaitsOrJoins DEF Steps
    <2> SUFFICES ASSUME NEW i \in (AheadOf(j))', jobs'[i].next # jobs[j].next PROVE i \in AheadOf(j)
      BY DEF AheadOf
    <2>3. i \in Jobs \ {j} /\ jobs'[i].status = "pending" /\ ~Before(jobs[j], jobs'[i])
      BY <2>2 DEF AheadOf
    <2>4. /\ jobs[j].next \in Nat /\ LockWait \in Nat /\ clock \in Nat
          /\ jobs'[i].next \in Nat
      <3>1. jobs'[i] \in Job
        BY <1>1, <2>1, <2>3, QueueStep DEF QueueInv, TypeOK
      <3> QED
        BY <1>1, <3>1, TimeAssumption DEF QueueInv, TypeOK, Job
    <2>5. jobs'[i].next < jobs[j].next
      BY <2>3, <2>4 DEF Before
    <2>6. ~(clock <= jobs'[i].next + LockWait)
      BY <1>1, <2>4, <2>5
    <2>7. jobs'[i] = jobs[i]
      BY <1>1, <2>1, <2>3, <2>6, WaitsOrJoins DEF Steps
    <2> QED
      BY <2>3, <2>7 DEF AheadOf
  <1>2. QueueInv /\ [Next]_vars =>
          [\A j \in Jobs :
             /\ jobs[j].status = "pending" /\ jobs'[j].status = "pending"
             /\ jobs[j].next + LockWait <= clock
             => (AheadOf(j))' \subseteq AheadOf(j) \cup {i \in Jobs : jobs'[i].next = jobs[j].next}]_vars
    BY <1>1
  <1> QED
    BY <1>2, QueueInvariant, PTL DEF Spec, NoOvertaking

-----------------------------------------------------------------------------
(* The queue implements JobLifecycle. *)

Phase == [j \in Jobs |-> PhaseOf(j)]
Tries == [j \in Jobs |-> jobs[j].attempt]
Allowance == [j \in Jobs |-> jobs[j].limit]

LEMMA PhaseFacts ==
  ASSUME TypeOK, NEW j \in Jobs
  PROVE  /\ jobs[j].status = "absent" <=> PhaseOf(j) = "absent"
         /\ jobs[j].status = "pending" <=> PhaseOf(j) = "waiting"
         /\ jobs[j].status = "processing" <=> PhaseOf(j) = "leased"
         /\ jobs[j].status = "completed" <=> PhaseOf(j) = "done"
         /\ jobs[j].status = "failed" <=> PhaseOf(j) = "dead"
  <1>1. jobs[j].status \in Statuses \cup {"absent"}
    BY DEF TypeOK, Job
  <1> QED
    BY <1>1 DEF PhaseOf, Statuses

LEMMA NextPhaseFacts ==
  ASSUME NEW j \in Jobs
  PROVE  /\ jobs'[j].status = "pending" => PhaseOf(j)' = "waiting"
         /\ jobs'[j].status = "processing" => PhaseOf(j)' = "leased"
         /\ jobs'[j].status = "completed" => PhaseOf(j)' = "done"
         /\ jobs'[j].status = "failed" => PhaseOf(j)' = "dead"
         /\ jobs'[j].status = jobs[j].status => PhaseOf(j)' = PhaseOf(j)
  BY DEF PhaseOf

\* A step that keeps every row but j's.
LEMMA OneRowWritten ==
  ASSUME NEW j \in Jobs, \A i \in Jobs \ {j} : RowKept(i)
  PROVE  /\ Phase' = [Phase EXCEPT ![j] = PhaseOf(j)']
         /\ Tries' = [Tries EXCEPT ![j] = jobs'[j].attempt]
         /\ Allowance' = [Allowance EXCEPT ![j] = jobs'[j].limit]
  <1>1. \A i \in Jobs \ {j} : /\ PhaseOf(i)' = PhaseOf(i) /\ jobs'[i] = jobs[i]
    BY DEF PhaseOf, RowKept
  <1> QED
    BY <1>1 DEF Phase, Tries, Allowance

LEMMA KeptRefines ==
  ASSUME \A j \in Jobs : RowKept(j)
  PROVE  UNCHANGED <<Phase, Tries, Allowance>>
  <1>1. \A j \in Jobs : PhaseOf(j)' = PhaseOf(j) /\ jobs'[j] = jobs[j]
    BY NextPhaseFacts DEF RowKept
  <1> QED
    BY <1>1 DEF Phase, Tries, Allowance

LEMMA RecoveredPhase ==
  ASSUME TypeOK, NEW j \in Jobs, NEW now \in Nat
  PROVE  /\ Recovered(j, now) \in Job
         /\ Recovered(j, now).attempt = jobs[j].attempt /\ Recovered(j, now).limit = jobs[j].limit
         /\ Expired(j, now) => Recovered(j, now).status = "pending" /\ PhaseOf(j) = "leased"
         /\ ~Expired(j, now) => Recovered(j, now) = jobs[j]
  <1>1. jobs[j] \in Job
    BY DEF TypeOK
  <1>2. Expired(j, now) => PhaseOf(j) = "leased"
    BY PhaseFacts DEF Expired
  <1>3. CASE Expired(j, now)
    BY <1>1, <1>2, <1>3 DEF Recovered, Job, Statuses
  <1>4. CASE ~Expired(j, now)
    BY <1>1, <1>4 DEF Recovered
  <1> QED
    BY <1>3, <1>4

LEMMA EnqueueRefines ==
  ASSUME QueueInv, NEW j \in Jobs, NEW k \in Keys \cup {None}, Enqueue(j, k)
  PROVE  Life!Submit(j)
  <1>1. TypeOK /\ jobs[j] \in Job /\ Fit(jobs[j], log[j], clock)
    BY DEF QueueInv, TypeOK
  <1>2. RowBegun(j) /\ \A i \in Jobs \ {j} : RowKept(i)
    BY <1>1, EnqueueSteps
  <1>3. PICK now \in Readings, n \in Limits, d \in Delays :
          /\ jobs' = [jobs EXCEPT ![j] = [NoRow EXCEPT !.status = "pending", !.key = k, !.limit = n,
                                                       !.next = now + d, !.created = now]]
          /\ log' = [log EXCEPT ![j] = Logged(@, "enqueued", "absent", "pending", 0, None, now)]
    BY DEF Enqueue
  <1>4. jobs'[j].status = "pending" /\ jobs'[j].attempt = 0 /\ jobs'[j].limit = n
    BY <1>1, <1>3 DEF NoRow, TypeOK
  <1>5. jobs[j].status = "absent" /\ jobs[j].attempt = 0 /\ n \in Nat \ {0}
    BY <1>1, <1>2, NoEvents, LimitsAssumption DEF RowBegun, Fit
  <1>6. PhaseOf(j) = "absent" /\ PhaseOf(j)' = "waiting"
    BY <1>1, <1>4, <1>5, PhaseFacts, NextPhaseFacts
  <1>7. /\ Phase' = [Phase EXCEPT ![j] = "waiting"]
        /\ Tries' = [Tries EXCEPT ![j] = 0]
        /\ Allowance' = [Allowance EXCEPT ![j] = n]
    BY <1>2, <1>4, <1>6, OneRowWritten
  <1>8. Tries' = Tries /\ Allowance'[j] = n
    BY <1>5, <1>7 DEF Tries, Allowance
  <1> QED
    BY <1>5, <1>6, <1>7, <1>8 DEF Life!Submit, Phase, Tries, Allowance

LEMMA RecoverRefines ==
  ASSUME TypeOK, RecoverExpiredLeases
  PROVE  Life!Lapse({j \in Jobs : Expired(j, clock)})
  <1>1. clock \in Nat /\ \A j \in Jobs : jobs'[j] = Recovered(j, clock)
    BY DEF RecoverExpiredLeases, TypeOK
  <1>2. ASSUME NEW j \in Jobs, Expired(j, clock) PROVE PhaseOf(j) = "leased" /\ PhaseOf(j)' = "waiting"
    BY <1>1, <1>2, RecoveredPhase, NextPhaseFacts
  <1>3. ASSUME NEW j \in Jobs, ~Expired(j, clock) PROVE PhaseOf(j)' = PhaseOf(j)
    BY <1>1, <1>3, RecoveredPhase, NextPhaseFacts
  <1>4. UNCHANGED <<Tries, Allowance>>
    BY <1>1, RecoveredPhase DEF Tries, Allowance
  <1>5. Phase' = [j \in Jobs |-> IF j \in {i \in Jobs : Expired(i, clock)} THEN "waiting" ELSE Phase[j]]
    BY <1>2, <1>3 DEF Phase
  <1> QED
    BY <1>2, <1>4, <1>5 DEF Life!Lapse, Phase, Tries, Allowance

LEMMA ClaimRefines ==
  ASSUME QueueInv, NEW t \in Threads, Claim(t)
  PROVE  \E j \in Jobs : \E S \in SUBSET Jobs : Life!Lease(S, j)
  <1>1. TypeOK
    BY DEF QueueInv
  <1>2. PICK j \in Jobs, now \in Readings :
          /\ Recovered(j, now).status = "pending"
          /\ jobs'[j] = Leased(Recovered(j, now), t, now)
          /\ \A i \in Jobs \ {j} : jobs'[i] = Recovered(i, now)
    BY ClaimSteps
  <1>3. now \in Nat
    BY <1>1, ReadingsType DEF TypeOK
  <1>4. PICK S \in SUBSET Jobs : S = {i \in Jobs : Expired(i, now)}
    OBVIOUS
  <1>5. /\ PhaseOf(j)' = "leased" /\ jobs'[j].attempt = jobs[j].attempt + 1
        /\ jobs'[j].limit = jobs[j].limit
    <2>1. /\ Recovered(j, now) \in Job /\ Recovered(j, now).attempt = jobs[j].attempt
          /\ Recovered(j, now).limit = jobs[j].limit
      BY <1>1, <1>3, RecoveredPhase
    <2>2. /\ jobs'[j].status = "processing" /\ jobs'[j].attempt = Recovered(j, now).attempt + 1
          /\ jobs'[j].limit = Recovered(j, now).limit
      BY <1>2, <2>1 DEF Leased, Job
    <2> QED
      BY <2>1, <2>2, NextPhaseFacts
  <1>6. PhaseOf(j) = "waiting" \/ j \in S
    BY <1>1, <1>2, <1>3, <1>4, RecoveredPhase, PhaseFacts
  <1>7. \A i \in S : PhaseOf(i) = "leased"
    BY <1>1, <1>3, <1>4, RecoveredPhase
  <1>8. ASSUME NEW i \in Jobs \ {j}
        PROVE  /\ PhaseOf(i)' = IF i \in S THEN "waiting" ELSE PhaseOf(i)
               /\ jobs'[i].attempt = jobs[i].attempt /\ jobs'[i].limit = jobs[i].limit
    BY <1>1, <1>2, <1>3, <1>4, RecoveredPhase, NextPhaseFacts
  <1>9. /\ Phase' = [i \in Jobs |-> IF i = j THEN "leased" ELSE IF i \in S THEN "waiting" ELSE Phase[i]]
        /\ Tries' = [Tries EXCEPT ![j] = @ + 1]
        /\ Allowance' = Allowance
    <2>1. Phase' = [i \in Jobs |-> IF i = j THEN "leased" ELSE IF i \in S THEN "waiting" ELSE Phase[i]]
      BY <1>5, <1>8 DEF Phase
    <2>2. Tries' = [Tries EXCEPT ![j] = @ + 1]
      BY <1>5, <1>8 DEF Tries
    <2>3. Allowance' = Allowance
      BY <1>5, <1>8 DEF Allowance
    <2> QED
      BY <2>1, <2>2, <2>3
  <1>10. Life!Lease(S, j)
    BY <1>6, <1>7, <1>9 DEF Life!Lease, Phase, Tries, Allowance
  <1> QED
    BY <1>10

LEMMA SettleRefines ==
  ASSUME TypeOK, NEW t \in Threads, NEW j \in Jobs, RowSettled(j, t),
         \A i \in Jobs \ {j} : RowKept(i)
  PROVE  Life!Complete(j) \/ Life!Reject(j)
  <1>1. PICK to \in Statuses \ {"processing"}, next \in Nat :
          /\ to = "pending" => ~Exhausted(j)
          /\ to = "failed" => Exhausted(j)
          /\ to = "completed" \/ to = "failed" \/ to = "pending"
          /\ jobs'[j] = Ended(jobs[j], to, next)
    BY DEF RowSettled
  <1>2. jobs[j] \in Job /\ jobs[j].status = "processing"
    BY DEF RowSettled, Owned, TypeOK
  <1>3. jobs'[j].status = to /\ jobs'[j].attempt = jobs[j].attempt /\ jobs'[j].limit = jobs[j].limit
    BY <1>1, <1>2 DEF Ended, Job
  <1>4. /\ Phase' = [Phase EXCEPT ![j] = PhaseOf(j)']
        /\ Tries' = [Tries EXCEPT ![j] = jobs[j].attempt]
        /\ Allowance' = [Allowance EXCEPT ![j] = jobs[j].limit]
    BY <1>3, OneRowWritten
  <1>5. UNCHANGED <<Tries, Allowance>> /\ Phase[j] = "leased"
    BY <1>2, <1>4, PhaseFacts DEF Tries, Allowance, Phase
  <1>6. CASE to = "completed"
    <2>1. PhaseOf(j)' = "done"
      BY <1>3, <1>6, NextPhaseFacts
    <2> QED
      BY <1>4, <1>5, <2>1 DEF Life!Complete, Phase, Tries, Allowance
  <1>7. CASE to # "completed"
    <2>1. PhaseOf(j)' = IF Exhausted(j) THEN "dead" ELSE "waiting"
      BY <1>1, <1>3, <1>7, NextPhaseFacts
    <2>2. Exhausted(j) <=> Tries[j] >= Allowance[j]
      BY DEF Exhausted, Tries, Allowance
    <2> QED
      BY <1>4, <1>5, <2>1, <2>2 DEF Life!Reject, Phase, Tries, Allowance
  <1> QED
    BY <1>6, <1>7

LEMMA StepRefines == ASSUME QueueInv, [Next]_vars PROVE [Life!Next]_(Life!vars)
  <1> SUFFICES \/ \E S \in SUBSET Jobs : Life!Lapse(S)
               \/ \E j \in Jobs : \/ Life!Submit(j)
                                  \/ \E S \in SUBSET Jobs : Life!Lease(S, j)
                                  \/ Life!Complete(j)
                                  \/ Life!Reject(j)
               \/ UNCHANGED <<Phase, Tries, Allowance>>
    BY DEF Life!Next, Life!vars, Phase, Tries, Allowance
  <1>1. TypeOK
    BY DEF QueueInv
  <1>2. CASE \/ Tick \/ UNCHANGED vars
             \/ \E t \in Threads : HandlerEnds(t) \/ Refused(t) \/ Crash(t)
    BY <1>1, <1>2, OtherSteps, KeptRefines
  <1>3. CASE RecoverExpiredLeases
    BY <1>1, <1>3, RecoverRefines
  <1>4. CASE \E j \in Jobs, k \in Keys \cup {None} : Enqueue(j, k)
    BY <1>4, EnqueueRefines
  <1>5. CASE \E t \in Threads : Claim(t)
    BY <1>5, ClaimRefines
  <1>6. ASSUME NEW t \in Threads, Complete(t) \/ Fail(t)
        PROVE  \E j \in Jobs : Life!Complete(j) \/ Life!Reject(j)
    <2>1. PICK j \in Jobs : j = run[t].job
      BY <1>1, <1>6, SettleSteps
    <2>2. RowSettled(j, t) /\ \A i \in Jobs \ {j} : RowKept(i)
      BY <1>1, <1>6, <2>1, SettleSteps
    <2>3. Life!Complete(j) \/ Life!Reject(j)
      BY <1>1, <2>2, SettleRefines
    <2> QED
      BY <2>3
  <1> QED
    BY <1>2, <1>3, <1>4, <1>5, <1>6 DEF Next

\* What the callers of the queue see is the life cycle every queue promises.
THEOREM ImplementsLifecycle == Spec => LifecycleSpec
  <1>1. Init => Life!Init
    <2> SUFFICES ASSUME Init PROVE Life!Init
      OBVIOUS
    <2>1. \A j \in Jobs : jobs[j].status = "absent" /\ jobs[j].attempt = 0 /\ jobs[j].limit = 0
      BY DEF Init, NoRow
    <2>2. \A j \in Jobs : PhaseOf(j) = "absent"
      BY <2>1 DEF PhaseOf
    <2>3. /\ Phase = [j \in Jobs |-> "absent"] /\ Tries = [j \in Jobs |-> 0]
          /\ Allowance = [j \in Jobs |-> 0]
      BY <2>1, <2>2 DEF Phase, Tries, Allowance
    <2> QED
      BY <2>3 DEF Life!Init, Phase, Tries, Allowance
  <1>2. QueueInv /\ [Next]_vars => [Life!Next]_(Life!vars)
    BY StepRefines
  <1> QED
    BY <1>1, <1>2, QueueInvariant, PTL DEF Spec, LifecycleSpec, Life!Spec

=============================================================================
