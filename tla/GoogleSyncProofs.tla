--------------------------- MODULE GoogleSyncProofs ---------------------------
(***************************************************************************)
(* Theorems about GoogleSync, for any reviews, pages, notices, jobs and    *)
(* threads, any allowance and any number of changes and faults.            *)
(*                                                                         *)
(* Two arguments that meet only in the types.  A notice's job is settled   *)
(* by whichever run of it ends first, so every run of it must have what    *)
(* the notice was about: SyncInv.  A version gets into the cache before it *)
(* is recorded, so whoever has seen it there relies on whoever put it      *)
(* there: Covered.                                                         *)
(***************************************************************************)
EXTENDS GoogleSync, TLAPS

Unsent(n) == notice[n].state = "unsent"

\* A run of the job of a notice that names a review has listed that review, and nothing else.
Tells(a, N, T) ==
  a.at \notin {"idle", "enqueue"} /\ a.job \in Notices /\ N[a.job].review # None =>
    /\ a.page = 0 /\ a.items \subseteq {N[a.job].review}
    /\ a.at \in {"look", "keep", "record"} => a.got[N[a.job].review] >= N[a.job].version
    /\ a.at = "return" => T[N[a.job].review] >= N[a.job].version

\* Where a thread is fits the notices N and what was told, T.
Fits(a, N, T) ==
  /\ a.at # "idle" => a.job \in Jobs
  /\ a.at = "enqueue" => a.job \in Notices
  /\ a.at \in {"look", "keep", "record"} => a.items # {}
  /\ a.at = "put" => a.page # 0
  /\ a.at = "fetch" /\ a.page = 0 => a.job \in Notices /\ N[a.job].review # None
  /\ a.job \in Notices => N[a.job].state # "unsent"
  /\ Tells(a, N, T)

\* A notice is about a version there is, and its job is not done before that was told.
NoticeFits(n) ==
  /\ phase[n] # "absent" => ~Unsent(n)
  /\ notice[n].review # None => notice[n].version <= version[notice[n].review]
  /\ phase[n] = "done" /\ notice[n].review # None => told[notice[n].review] >= notice[n].version

\* Whoever is about to enqueue a notice's job has claimed the notice.
EnqueuersClaimed == \A t \in Threads : act[t].at = "enqueue" => act[t].job \in claimed

SyncInv ==
  /\ TypeOK
  /\ \A t \in Threads : Fits(act[t], notice, told)
  /\ \A n \in Notices : NoticeFits(n)
  /\ EnqueuersClaimed

-----------------------------------------------------------------------------
(* What steps keep. *)

\* Messages that were sent stay what they are, and versions and what was told only grow.
Grows ==
  /\ \A n \in Notices : notice[n].state # "unsent" =>
       /\ notice'[n].state # "unsent"
       /\ notice'[n].review = notice[n].review /\ notice'[n].version = notice[n].version
  /\ \A r \in Reviews : version'[r] >= version[r] /\ told'[r] >= told[r]

LEMMA Same == ASSUME NEW f \in [Reviews -> Nat] PROVE \A r \in Reviews : f[r] >= f[r]
  <1>1. \A r \in Reviews : f[r] \in Nat
    OBVIOUS
  <1> QED
    BY <1>1

LEMMA GrowsSame ==
  ASSUME TypeOK, UNCHANGED <<version, told>>,
         \A n \in Notices : /\ notice'[n].review = notice[n].review /\ notice'[n].version = notice[n].version
                            /\ notice'[n].state = "unsent" <=> notice[n].state = "unsent"
  PROVE  Grows
  <1>1. version \in [Reviews -> Nat] /\ told \in [Reviews -> Nat]
    BY DEF TypeOK
  <1>2. \A r \in Reviews : version[r] >= version[r] /\ told[r] >= told[r]
    BY <1>1
  <1> QED
    BY <1>2 DEF Grows

LEMMA FitsStays ==
  ASSUME TypeOK, TypeOK', Grows, NEW a \in Act, Fits(a, notice, told)
  PROVE  Fits(a, notice', told')
  <1>1. CASE a.job \in Notices
    <2> DEFINE n == a.job
    <2>1. /\ notice'[n].state # "unsent"
          /\ notice'[n].review = notice[n].review /\ notice'[n].version = notice[n].version
      BY <1>1 DEF Fits, Grows
    <2>2. notice[n] \in Notice /\ told \in [Reviews -> Nat] /\ told' \in [Reviews -> Nat]
      BY <1>1 DEF TypeOK
    <2>3. notice[n].review # None => told'[notice[n].review] >= told[notice[n].review]
                                     /\ notice[n].review \in Reviews /\ notice[n].version \in Nat
      BY <2>2 DEF Grows, Notice
    <2>4. Tells(a, notice', told')
      BY <1>1, <2>1, <2>2, <2>3 DEF Fits, Tells
    <2> QED
      BY <1>1, <2>1, <2>4 DEF Fits
  <1>2. CASE a.job \notin Notices
    BY <1>2 DEF Fits, Tells
  <1> QED
    BY <1>1, <1>2

\* One thread goes on to a.
LEMMA OneFits ==
  ASSUME SyncInv, TypeOK', Grows, NEW t \in Threads, NEW a \in Act, act' = [act EXCEPT ![t] = a],
         Fits(a, notice', told')
  PROVE  \A u \in Threads : Fits(act'[u], notice', told')
  <1>1. act \in [Threads -> Act]
    BY DEF SyncInv, TypeOK
  <1>2. \A u \in Threads : act'[u] = IF u = t THEN a ELSE act[u]
    BY <1>1
  <1> QED
    BY <1>1, <1>2, FitsStays DEF SyncInv

LEMMA OneClaimed ==
  ASSUME SyncInv, NEW t \in Threads, NEW a \in Act, act' = [act EXCEPT ![t] = a], claimed \subseteq claimed',
         a.at = "enqueue" => a.job \in claimed'
  PROVE  EnqueuersClaimed'
  <1>1. act \in [Threads -> Act]
    BY DEF SyncInv, TypeOK
  <1>2. \A u \in Threads : act'[u] = IF u = t THEN a ELSE act[u]
    BY <1>1
  <1> QED
    BY <1>2 DEF SyncInv, EnqueuersClaimed

LEMMA NoOneFits ==
  ASSUME SyncInv, TypeOK', Grows, UNCHANGED act
  PROVE  \A u \in Threads : Fits(act'[u], notice', told')
  BY FitsStays DEF SyncInv, TypeOK

\* The job of a notice is where it was, or waits, or is leased or dead.
LEMMA NoticeStays ==
  ASSUME TypeOK, TypeOK', Grows, NEW n \in Notices, NoticeFits(n),
         phase'[n] # "absent" => notice'[n].state # "unsent",
         phase'[n] = "done" => phase[n] = "done",
         notice'[n].review = notice[n].review /\ notice'[n].version = notice[n].version
  PROVE  NoticeFits(n)'
  <1>1. /\ notice[n] \in Notice /\ told \in [Reviews -> Nat] /\ told' \in [Reviews -> Nat]
        /\ version \in [Reviews -> Nat] /\ version' \in [Reviews -> Nat]
    BY DEF TypeOK
  <1>2. CASE notice[n].review = None
    BY <1>2 DEF NoticeFits, Unsent
  <1>3. CASE notice[n].review # None
    <2> DEFINE r == notice[n].review
    <2>1. r \in Reviews /\ notice[n].version \in Nat
      BY <1>1, <1>3 DEF Notice
    <2>2. version'[r] >= version[r] /\ told'[r] >= told[r]
      BY <2>1 DEF Grows
    <2>3. /\ version'[r] \in Nat /\ version[r] \in Nat /\ told'[r] \in Nat /\ told[r] \in Nat
      BY <1>1, <2>1
    <2>4. notice[n].version <= version[r] /\ (phase[n] = "done" => told[r] >= notice[n].version)
      BY <1>3 DEF NoticeFits
    <2> HIDE DEF r
    <2>5. notice[n].version <= version'[r] /\ (phase'[n] = "done" => told'[r] >= notice[n].version)
      BY <2>1, <2>2, <2>3, <2>4
    <2>6. notice'[n].review = r /\ notice'[n].version = notice[n].version
      BY DEF r
    <2> QED
      BY <2>5, <2>6 DEF NoticeFits, Unsent
  <1> QED
    BY <1>2, <1>3

LEMMA IdleFits == ASSUME TypeOK PROVE Idle \in Act /\ \A N, T : Fits(Idle, N, T)
  <1>1. Idle \in Act
    BY PagesAssumption DEF Idle, Act
  <1>2. None \notin Notices
    BY NoneAssumption DEF Jobs
  <1> QED
    BY <1>1, <1>2 DEF Idle, Fits, Tells

-----------------------------------------------------------------------------
(* Google and the producers. *)

LEMMA ChangeKept == ASSUME SyncInv, NEW r \in Reviews, Change(r) PROVE SyncInv'
  <1>1. /\ version \in [Reviews -> Nat] /\ notice \in [Notices -> Notice] /\ changes \in Nat
        /\ version' = [version EXCEPT ![r] = @ + 1] /\ changes' = changes + 1
    BY DEF SyncInv, TypeOK, Change
  <1>2. version' \in [Reviews -> Nat] /\ \A s \in Reviews : version'[s] >= version[s]
    BY <1>1
  <1>3. /\ notice' \in [Notices -> Notice]
        /\ \A n \in Notices : \/ notice'[n] = notice[n]
                              \/ /\ notice[n].state = "unsent" /\ notice'[n].state # "unsent"
                                 /\ notice'[n].review # None => notice'[n].review = r
                                 /\ notice'[n].version = version'[r]
    <2>1. CASE UNCHANGED notice
      BY <1>1, <2>1
    <2>2. ASSUME NEW n \in Notices, NEW named \in {r, None}, notice[n].state = "unsent",
                 notice' = [notice EXCEPT ![n] = [state |-> "sent", review |-> named, version |-> version'[r]]]
          PROVE  notice' \in [Notices -> Notice]
      <3>1. [state |-> "sent", review |-> named, version |-> version'[r]] \in Notice
        BY <1>2 DEF Notice
      <3> QED
        BY <1>1, <2>2, <3>1
    <2> QED
      BY <2>1, <2>2 DEF Change
  <1>4. TypeOK' /\ UNCHANGED <<act, phase, told, claimed>>
    <2>1. /\ TypeOK /\ changes' \in Nat
          /\ UNCHANGED <<claimed, cursor, phase, tries, allowance, latest, sched, cache, act, told, announced,
                         lost, faults>>
      BY <1>1 DEF SyncInv, Change, queue
    <2>2. Queue!TypeOK'
      BY <2>1 DEF TypeOK, Queue!TypeOK
    <2> QED
      BY <1>2, <1>3, <2>1, <2>2 DEF TypeOK
  <1>5. Grows
    <2>1. \A s \in Reviews : told'[s] >= told[s]
      <3>1. told \in [Reviews -> Nat] /\ told' = told
        BY <1>4 DEF SyncInv, TypeOK
      <3> QED
        BY <3>1
    <2> QED
      BY <1>2, <1>3, <2>1 DEF Grows
  <1>6. \A u \in Threads : Fits(act'[u], notice', told')
    BY <1>4, <1>5, NoOneFits
  <1>7. ASSUME NEW n \in Notices PROVE NoticeFits(n)'
    <2>1. CASE notice'[n] = notice[n]
      BY <1>4, <1>5, <2>1, NoticeStays DEF SyncInv, NoticeFits, Unsent
    <2>2. CASE /\ notice[n].state = "unsent" /\ notice'[n].state # "unsent"
               /\ notice'[n].review # None => notice'[n].review = r
               /\ notice'[n].version = version'[r]
      <3>1. phase'[n] = "absent" /\ version'[r] <= version'[r]
        BY <1>2, <1>4, <2>2 DEF SyncInv, NoticeFits, Unsent
      <3> QED
        BY <2>2, <3>1 DEF NoticeFits, Unsent
    <2> QED
      BY <1>3, <2>1, <2>2
  <1> QED
    BY <1>4, <1>6, <1>7 DEF SyncInv, EnqueuersClaimed

LEMMA Acknowledged ==
  ASSUME TypeOK, NEW n \in Notices, notice[n].state # "unsent", Acknowledge(n)
  PROVE  /\ notice' \in [Notices -> Notice]
         /\ \A m \in Notices : /\ notice'[m].review = notice[m].review /\ notice'[m].version = notice[m].version
                               /\ notice'[m].state = "unsent" <=> notice[m].state = "unsent"
  <1>1. notice \in [Notices -> Notice]
    BY DEF TypeOK
  <1>2. /\ [notice[n] EXCEPT !.state = "acked"] \in Notice
        /\ [notice[n] EXCEPT !.state = "acked"].state = "acked"
        /\ [notice[n] EXCEPT !.state = "acked"].review = notice[n].review
        /\ [notice[n] EXCEPT !.state = "acked"].version = notice[n].version
    BY <1>1 DEF Notice
  <1>3. notice' = [notice EXCEPT ![n] = [notice[n] EXCEPT !.state = "acked"]]
    BY <1>1 DEF Acknowledge
  <1> QED
    BY <1>1, <1>2, <1>3

LEMMA ClaimEventKept ==
  ASSUME SyncInv, NEW t \in Threads, NEW n \in Notices, ClaimEvent(t, n)
  PROVE  SyncInv'
  <1> DEFINE a == [Idle EXCEPT !.at = "enqueue", !.job = n]
  <1>1. /\ TypeOK /\ notice[n].state = "sent"
        /\ UNCHANGED <<version, changes, cursor, queue, latest, sched, cache, told, announced, lost, faults>>
    BY DEF SyncInv, ClaimEvent
  <1>2. CASE Fresh(n)
    <2>1. claimed' = claimed \cup {n} /\ act' = [act EXCEPT ![t] = a] /\ UNCHANGED notice
      BY <1>2 DEF ClaimEvent
    <2>2. a \in Act /\ a.at = "enqueue" /\ a.job = n
      BY <1>1, IdleFits DEF Act, Jobs, Idle
    <2> HIDE DEF a
    <2>3. TypeOK'
      BY <1>1, <2>1, <2>2 DEF TypeOK, queue, Queue!TypeOK
    <2>4. Grows
      BY <1>1, <2>1, GrowsSame
    <2>5. Fits(a, notice', told')
      BY <1>1, <2>1, <2>2 DEF Fits, Tells, Jobs
    <2>6. \A u \in Threads : Fits(act'[u], notice', told')
      BY <2>1, <2>2, <2>3, <2>4, <2>5, OneFits
    <2>7. \A m \in Notices : NoticeFits(m)'
      BY <1>1, <2>1 DEF SyncInv, NoticeFits, Unsent, queue
    <2>8. EnqueuersClaimed'
      BY <2>1, <2>2, OneClaimed
    <2> QED
      BY <2>3, <2>6, <2>7, <2>8 DEF SyncInv
  <1>3. CASE ~Fresh(n)
    <2>1. Acknowledge(n) /\ UNCHANGED <<claimed, act>>
      BY <1>3 DEF ClaimEvent
    <2>2. /\ notice' \in [Notices -> Notice]
          /\ \A m \in Notices : /\ notice'[m].review = notice[m].review /\ notice'[m].version = notice[m].version
                                /\ notice'[m].state = "unsent" <=> notice[m].state = "unsent"
      BY <1>1, <2>1, Acknowledged
    <2>3. TypeOK'
      BY <1>1, <2>1, <2>2 DEF TypeOK, queue, Queue!TypeOK
    <2>4. Grows
      BY <1>1, <2>2, GrowsSame
    <2>5. \A u \in Threads : Fits(act'[u], notice', told')
      BY <2>1, <2>3, <2>4, NoOneFits
    <2>6. \A m \in Notices : NoticeFits(m)'
      BY <1>1, <2>2 DEF SyncInv, NoticeFits, Unsent, queue
    <2> QED
      BY <2>1, <2>3, <2>5, <2>6 DEF SyncInv, EnqueuersClaimed
  <1> QED
    BY <1>2, <1>3

LEMMA EnqueueEventKept == ASSUME SyncInv, NEW t \in Threads, EnqueueEvent(t) PROVE SyncInv'
  <1>1. /\ TypeOK /\ act[t] \in Act /\ act[t].at = "enqueue" /\ Fits(act[t], notice, told)
        /\ UNCHANGED <<version, changes, claimed, cursor, latest, sched, cache, told, announced, lost, faults>>
    BY DEF SyncInv, EnqueueEvent, TypeOK
  <1>2. PICK n \in Notices : n = act[t].job
    BY <1>1 DEF Fits
  <1>3. /\ n \in Jobs /\ notice[n].state # "unsent" /\ Acknowledge(n) /\ act' = [act EXCEPT ![t] = Idle]
        /\ phase' = [phase EXCEPT ![n] = "waiting"] /\ UNCHANGED tries
        /\ allowance' = [allowance EXCEPT ![n] = Allowance]
    BY <1>1, <1>2 DEF Fits, EnqueueEvent, Submit, Queue!Submit, Jobs
  <1>4. /\ notice' \in [Notices -> Notice]
        /\ \A m \in Notices : /\ notice'[m].review = notice[m].review /\ notice'[m].version = notice[m].version
                              /\ notice'[m].state = "unsent" <=> notice[m].state = "unsent"
    BY <1>1, <1>3, Acknowledged
  <1>5. Queue!TypeOK'
    BY <1>1, <1>3, NumbersAssumption DEF TypeOK, Queue!TypeOK, Queue!Phases
  <1>6. TypeOK'
    BY <1>1, <1>3, <1>4, <1>5, IdleFits DEF TypeOK
  <1>7. Grows
    BY <1>1, <1>4, GrowsSame
  <1>8. \A u \in Threads : Fits(act'[u], notice', told')
    BY <1>1, <1>3, <1>6, <1>7, IdleFits, OneFits
  <1>9. ASSUME NEW m \in Notices PROVE NoticeFits(m)'
    <2>1. phase'[m] = IF m = n THEN "waiting" ELSE phase[m]
      BY <1>1, <1>3 DEF TypeOK, Queue!TypeOK, Jobs
    <2> QED
      BY <1>3, <1>4, <1>6, <1>7, <2>1, NoticeStays DEF SyncInv, NoticeFits, Unsent
  <1>10. EnqueuersClaimed'
    BY <1>1, <1>3, IdleFits, OneClaimed DEF Idle
  <1> QED
    BY <1>6, <1>8, <1>9, <1>10 DEF SyncInv

LEMMA ScheduleKept == ASSUME SyncInv, Schedule PROVE SyncInv'
  <1>1. CASE ReadGeneration
    BY <1>1 DEF ReadGeneration, SyncInv, TypeOK, google, queue, Queue!TypeOK, NoticeFits, Unsent, EnqueuersClaimed
  <1>2. CASE EnqueueReconciliation
    <2>1. /\ TypeOK /\ sched' = "idle"
          /\ UNCHANGED <<google, claimed, cursor, cache, act, told, announced, lost, faults>>
      BY <1>2 DEF SyncInv, EnqueueReconciliation
    <2>2. /\ Queue!TypeOK' /\ latest' \in Slots \cup {None}
          /\ \A n \in Notices : phase'[n] = phase[n]
      <3>1. CASE HasJob(sched)
        BY <1>2, <2>1, <3>1 DEF EnqueueReconciliation, TypeOK, Queue!TypeOK, queue
      <3>2. CASE ~HasJob(sched)
        <4>1. PICK k \in Slots :
                /\ Free(k)
                /\ phase' = [phase EXCEPT ![k] = "waiting"]
                /\ tries' = [tries EXCEPT ![k] = 0]
                /\ allowance' = [allowance EXCEPT ![k] = Allowance]
                /\ latest' = IF sched = "current" THEN k ELSE latest
          BY <1>2, <3>2 DEF EnqueueReconciliation
        <4>2. k \in Jobs /\ k \notin Notices
          BY JobsAssumption DEF Jobs
        <4>3. phase \in [Jobs -> Queue!Phases] /\ tries \in [Jobs -> Nat] /\ allowance \in [Jobs -> Nat]
              /\ latest \in Slots \cup {None}
          BY <2>1 DEF TypeOK, Queue!TypeOK
        <4>4. Queue!TypeOK'
          BY <4>1, <4>2, <4>3, NumbersAssumption DEF Queue!TypeOK, Queue!Phases
        <4>5. \A n \in Notices : phase'[n] = phase[n]
          BY <4>1, <4>2, <4>3 DEF Jobs
        <4> QED
          BY <4>1, <4>3, <4>4, <4>5
      <3> QED
        BY <3>1, <3>2
    <2>3. TypeOK'
      BY <2>1, <2>2 DEF TypeOK, google
    <2> QED
      BY <2>1, <2>2, <2>3 DEF SyncInv, NoticeFits, Unsent, EnqueuersClaimed, google
  <1> QED
    BY <1>1, <1>2 DEF Schedule

-----------------------------------------------------------------------------
(* Workers. *)

\* One thread goes on to a, and tells something perhaps.
LEMMA RunKept ==
  ASSUME SyncInv, NEW t \in Threads, NEW a \in Act, act' = [act EXCEPT ![t] = a],
         UNCHANGED <<google, claimed, queue, lost, faults>>,
         cursor' \in 1..Pages, latest' \in Slots \cup {None},
         sched' \in {"idle", "current", "stale", "stale, taken"},
         cache' \in [Reviews -> Nat], announced' \in [Reviews -> Nat], told' \in [Reviews -> Nat],
         \A r \in Reviews : told'[r] >= told[r],
         Fits(a, notice', told'), a.at # "enqueue"
  PROVE  SyncInv'
  <1>1. TypeOK /\ UNCHANGED <<version, notice, changes, phase, tries, allowance>>
    BY DEF SyncInv, google, queue
  <1>2. act \in [Threads -> Act] /\ act' \in [Threads -> Act] /\ version \in [Reviews -> Nat]
    BY <1>1 DEF TypeOK
  <1>3. TypeOK'
    BY <1>1, <1>2 DEF TypeOK, Queue!TypeOK
  <1>4. Grows
    <2>1. \A r \in Reviews : version[r] >= version[r]
      BY <1>2, Same
    <2>2. \A r \in Reviews : version'[r] >= version[r] /\ told'[r] >= told[r]
      BY <1>1, <2>1
    <2> QED
      BY <1>1, <2>2 DEF Grows
  <1>5. \A u \in Threads : Fits(act'[u], notice', told')
    BY <1>3, <1>4, OneFits
  <1>6. ASSUME NEW n \in Notices PROVE NoticeFits(n)'
    BY <1>1, <1>3, <1>4, NoticeStays DEF SyncInv, NoticeFits, Unsent
  <1>7. EnqueuersClaimed'
    BY OneClaimed
  <1> QED
    BY <1>3, <1>5, <1>6, <1>7 DEF SyncInv

\* One thread goes on to a, and the queue has another state for jobs that are not done before.
LEMMA QueueKept ==
  ASSUME SyncInv, NEW t \in Threads, NEW a \in Act, act' = [act EXCEPT ![t] = a],
         UNCHANGED <<google, claimed, cursor, latest, sched, cache, told, announced, lost>>, faults' \in Nat,
         Queue!TypeOK',
         \A n \in Notices : /\ phase'[n] # "absent" => phase[n] # "absent"
                            /\ phase'[n] = "done" => \/ phase[n] = "done" \/ notice[n].review = None
                                                     \/ told[notice[n].review] >= notice[n].version,
         Fits(a, notice, told), a.at # "enqueue"
  PROVE  SyncInv'
  <1>1. TypeOK /\ UNCHANGED <<version, notice, changes>>
    BY DEF SyncInv, google
  <1>2. act' \in [Threads -> Act]
    BY <1>1 DEF TypeOK
  <1>3. TypeOK'
    BY <1>1, <1>2 DEF TypeOK
  <1>4. Grows
    BY <1>1, GrowsSame
  <1>5. \A u \in Threads : Fits(act'[u], notice', told')
    BY <1>1, <1>3, <1>4, OneFits
  <1>6. ASSUME NEW n \in Notices PROVE NoticeFits(n)'
    BY <1>1 DEF SyncInv, NoticeFits, Unsent
  <1>7. EnqueuersClaimed'
    BY OneClaimed
  <1> QED
    BY <1>3, <1>5, <1>6, <1>7 DEF SyncInv

LEMMA LeaseType ==
  ASSUME Queue!TypeOK, NEW j \in Jobs, Queue!Lease({}, j)
  PROVE  Queue!TypeOK' /\ phase[j] = "waiting"
         /\ \A i \in Jobs : phase'[i] = IF i = j THEN "leased" ELSE phase[i]
  <1>1. /\ phase[j] = "waiting" /\ tries' = [tries EXCEPT ![j] = @ + 1] /\ UNCHANGED allowance
        /\ phase' = [i \in Jobs |-> IF i = j THEN "leased" ELSE phase[i]]
    BY DEF Queue!Lease
  <1>2. tries' \in [Jobs -> Nat]
    BY <1>1 DEF Queue!TypeOK
  <1> QED
    BY <1>1, <1>2 DEF Queue!TypeOK, Queue!Phases

LEMMA ClaimKept == ASSUME SyncInv, NEW t \in Threads, NEW j \in Jobs, Claim(t, j) PROVE SyncInv'
  <1> DEFINE a == [Idle EXCEPT !.at = "fetch", !.job = j, !.page = StartPage(j)]
  <1>1. /\ TypeOK /\ Queue!TypeOK /\ act' = [act EXCEPT ![t] = a] /\ Queue!Lease({}, j)
        /\ UNCHANGED <<google, claimed, cursor, latest, sched, cache, told, announced, lost, faults>>
    BY DEF SyncInv, TypeOK, Claim
  <1>2. /\ Queue!TypeOK' /\ phase[j] = "waiting"
        /\ \A i \in Jobs : phase'[i] = IF i = j THEN "leased" ELSE phase[i]
    BY <1>1, LeaseType
  <1>3. /\ StartPage(j) \in 0..Pages
        /\ j \in Notices => (StartPage(j) = 0 <=> notice[j].review # None)
        /\ j \notin Notices => StartPage(j) # 0
    <2>1. cursor \in 1..Pages
      BY <1>1 DEF TypeOK
    <2>2. CASE j \in Slots
      BY <2>1, <2>2, PagesAssumption, JobsAssumption DEF StartPage
    <2>3. CASE j \notin Slots
      BY <2>3, PagesAssumption DEF StartPage, Jobs
    <2> QED
      BY <2>2, <2>3
  <1>4. a \in Act /\ a.at = "fetch" /\ a.job = j /\ a.page = StartPage(j) /\ a.items = {}
    BY <1>1, <1>3, IdleFits DEF Act, Idle
  <1> HIDE DEF a
  <1>5. Fits(a, notice, told)
    <2>1. j \in Notices => notice[j].state # "unsent"
      BY <1>2 DEF SyncInv, NoticeFits, Unsent
    <2> QED
      BY <1>3, <1>4, <2>1 DEF Fits, Tells
  <1>6. faults' \in Nat
    BY <1>1 DEF TypeOK
  <1>7. \A n \in Notices : (phase'[n] # "absent" => phase[n] # "absent") /\ (phase'[n] = "done" => phase[n] = "done")
    BY <1>2 DEF Jobs
  <1> QED
    BY <1>1, <1>2, <1>4, <1>5, <1>6, <1>7, QueueKept

LEMMA FetchKept == ASSUME SyncInv, NEW t \in Threads, Fetch(t) PROVE SyncInv'
  <1> DEFINE items == Listed(act[t].job, act[t].page)
             got == [r \in Reviews |-> IF r \in items THEN version[r] ELSE 0]
             a == [act[t] EXCEPT !.at = Next_(act[t], items), !.items = items, !.got = got]
  <1>1. /\ TypeOK /\ act[t] \in Act /\ act[t].at = "fetch" /\ Fits(act[t], notice, told)
        /\ act \in [Threads -> Act] /\ version \in [Reviews -> Nat]
    BY DEF SyncInv, TypeOK, Fetch
  <1>2. items \subseteq Reviews
    <2>1. CASE act[t].page = 0
      <3>1. notice[act[t].job] \in Notice /\ notice[act[t].job].review # None
        BY <1>1, <2>1 DEF Fits, TypeOK
      <3> QED
        BY <2>1, <3>1 DEF Listed, Notice
    <2>2. CASE act[t].page # 0
      BY <2>2 DEF Listed
    <2> QED
      BY <2>1, <2>2
  <1>3. act' = [act EXCEPT ![t] = a]
    BY <1>1 DEF Fetch, Act
  <1>4. act[t].job \in Notices /\ notice[act[t].job].review # None =>
          /\ act[t].page = 0 /\ items = {notice[act[t].job].review}
          /\ got[notice[act[t].job].review] >= notice[act[t].job].version
    <2> SUFFICES ASSUME act[t].job \in Notices, notice[act[t].job].review # None
                 PROVE  /\ act[t].page = 0 /\ items = {notice[act[t].job].review}
                        /\ got[notice[act[t].job].review] >= notice[act[t].job].version
      OBVIOUS
    <2>1. act[t].page = 0 /\ items = {notice[act[t].job].review}
      BY <1>1 DEF Fits, Tells, Listed
    <2>2. notice[act[t].job].version <= version[notice[act[t].job].review] /\ notice[act[t].job] \in Notice
      BY <1>1 DEF SyncInv, NoticeFits, TypeOK
    <2>3. got[notice[act[t].job].review] = version[notice[act[t].job].review]
      BY <1>2, <2>1
    <2> QED
      BY <1>1, <1>2, <2>1, <2>2, <2>3 DEF Notice
  <1>5. got \in [Reviews -> Nat]
    BY <1>1
  <1> HIDE DEF items, got
  <1>6. /\ a \in Act /\ a.at = Next_(act[t], items) /\ a.items = items /\ a.got = got
        /\ a.job = act[t].job /\ a.page = act[t].page
    BY <1>1, <1>2, <1>5 DEF Act, Next_
  <1> HIDE DEF a
  <1>7. Fits(a, notice', told')
    <2>1. Fits(a, notice, told)
      BY <1>1, <1>4, <1>6 DEF Fits, Tells, Next_
    <2> QED
      BY <2>1 DEF Fetch, google
  <1>8. /\ UNCHANGED <<google, claimed, queue, lost, faults, cursor, latest, sched, cache, told, announced>>
        /\ cursor \in 1..Pages /\ latest \in Slots \cup {None} /\ cache \in [Reviews -> Nat]
        /\ sched \in {"idle", "current", "stale", "stale, taken"}
        /\ announced \in [Reviews -> Nat] /\ told \in [Reviews -> Nat]
    BY <1>1 DEF Fetch, TypeOK
  <1>9. \A r \in Reviews : told[r] >= told[r]
    BY <1>8, Same
  <1> QED
    BY <1>3, <1>6, <1>7, <1>8, <1>9, RunKept DEF Next_

\* The item at hand is one of those fetched.
LEMMA ItemType ==
  ASSUME SyncInv, NEW t \in Threads, act[t].at \in {"look", "keep", "record"}
  PROVE  Item(act[t]) \in act[t].items /\ Item(act[t]) \in Reviews
  <1>1. act[t] \in Act /\ act[t].items # {}
    BY DEF SyncInv, TypeOK, Fits
  <1> QED
    BY <1>1 DEF Item, Act

LEMMA LookKept == ASSUME SyncInv, NEW t \in Threads, Look(t) PROVE SyncInv'
  <1> DEFINE a == [act[t] EXCEPT !.at = "keep", !.old = cache[Item(act[t])]]
  <1>1. /\ TypeOK /\ act[t] \in Act /\ act[t].at = "look" /\ Fits(act[t], notice, told)
        /\ act \in [Threads -> Act] /\ cache \in [Reviews -> Nat] /\ Item(act[t]) \in Reviews
    BY ItemType DEF SyncInv, TypeOK, Look
  <1>2. act' = [act EXCEPT ![t] = a]
    BY <1>1 DEF Look, Act
  <1>3. /\ a \in Act /\ a.at = "keep" /\ a.items = act[t].items /\ a.got = act[t].got
        /\ a.job = act[t].job /\ a.page = act[t].page
    BY <1>1 DEF Act
  <1> HIDE DEF a
  <1>4. Fits(a, notice', told')
    <2>1. Fits(a, notice, told)
      BY <1>1, <1>3 DEF Fits, Tells
    <2> QED
      BY <2>1 DEF Look, google
  <1>5. /\ UNCHANGED <<google, claimed, queue, lost, faults, cursor, latest, sched, cache, told, announced>>
        /\ cursor \in 1..Pages /\ latest \in Slots \cup {None} /\ cache \in [Reviews -> Nat]
        /\ sched \in {"idle", "current", "stale", "stale, taken"}
        /\ announced \in [Reviews -> Nat] /\ told \in [Reviews -> Nat]
    BY <1>1 DEF Look, TypeOK
  <1>6. \A r \in Reviews : told[r] >= told[r]
    BY <1>5, Same
  <1> QED
    BY <1>2, <1>3, <1>4, <1>5, <1>6, RunKept

LEMMA KeepKept == ASSUME SyncInv, NEW t \in Threads, Keep(t) PROVE SyncInv'
  <1> DEFINE a == [act[t] EXCEPT !.at = "record"]
  <1>1. /\ TypeOK /\ act[t] \in Act /\ act[t].at = "keep" /\ Fits(act[t], notice, told)
        /\ act \in [Threads -> Act] /\ cache \in [Reviews -> Nat] /\ Item(act[t]) \in Reviews
    BY ItemType DEF SyncInv, TypeOK, Keep
  <1>2. act' = [act EXCEPT ![t] = a] /\ cache' \in [Reviews -> Nat]
    BY <1>1 DEF Keep, Act
  <1>3. /\ a \in Act /\ a.at = "record" /\ a.items = act[t].items /\ a.got = act[t].got
        /\ a.job = act[t].job /\ a.page = act[t].page
    BY <1>1 DEF Act
  <1> HIDE DEF a
  <1>4. Fits(a, notice', told')
    <2>1. Fits(a, notice, told)
      BY <1>1, <1>3 DEF Fits, Tells
    <2> QED
      BY <2>1 DEF Keep, google
  <1>5. /\ UNCHANGED <<google, claimed, queue, lost, faults, cursor, latest, sched, told, announced>>
        /\ cursor \in 1..Pages /\ latest \in Slots \cup {None}
        /\ sched \in {"idle", "current", "stale", "stale, taken"}
        /\ announced \in [Reviews -> Nat] /\ told \in [Reviews -> Nat]
    BY <1>1 DEF Keep, TypeOK
  <1>6. \A r \in Reviews : told[r] >= told[r]
    BY <1>5, Same
  <1> QED
    BY <1>2, <1>3, <1>4, <1>5, <1>6, RunKept

LEMMA NewerType ==
  ASSUME NEW f \in [Reviews -> Nat], NEW r \in Reviews, NEW v \in Nat
  PROVE  /\ Newer(f, r, v) \in [Reviews -> Nat] /\ Newer(f, r, v)[r] >= v
         /\ \A s \in Reviews : Newer(f, r, v)[s] >= f[s]
  <1>1. \A s \in Reviews : Newer(f, r, v)[s] = IF s = r /\ v > f[r] THEN v ELSE f[s]
    BY DEF Newer
  <1>2. Newer(f, r, v) \in [Reviews -> Nat]
    BY DEF Newer
  <1>3. \A s \in Reviews : f[s] \in Nat
    OBVIOUS
  <1> QED
    BY <1>1, <1>2, <1>3

LEMMA RecordKept == ASSUME SyncInv, NEW t \in Threads, Record(t) PROVE SyncInv'
  <1>1. /\ TypeOK /\ act[t] \in Act /\ act[t].at = "record" /\ Fits(act[t], notice, told)
        /\ act \in [Threads -> Act] /\ Item(act[t]) \in Reviews /\ Item(act[t]) \in act[t].items
        /\ told \in [Reviews -> Nat] /\ announced \in [Reviews -> Nat]
    BY ItemType DEF SyncInv, TypeOK, Record
  <1>2. PICK r \in Reviews : r = Item(act[t])
    BY <1>1
  <1>3. PICK v \in Nat : v = act[t].got[r]
    BY <1>1 DEF Act
  <1> DEFINE got == [act[t].got EXCEPT ![r] = 0]
             items == act[t].items \ {r}
             a == [act[t] EXCEPT !.at = Next_(act[t], items), !.items = items, !.got = got, !.old = 0]
  <1>4. act' = [act EXCEPT ![t] = a]
    BY <1>1, <1>2 DEF Record, Act
  <1>5. told' = Newer(told, r, v) /\ (announced' = announced \/ announced' = Newer(announced, r, v))
    BY <1>2, <1>3 DEF Record
  <1>6. /\ told' \in [Reviews -> Nat] /\ announced' \in [Reviews -> Nat]
        /\ told'[r] >= v /\ \A s \in Reviews : told'[s] >= told[s]
    <2>1. /\ Newer(told, r, v) \in [Reviews -> Nat] /\ Newer(told, r, v)[r] >= v
          /\ \A s \in Reviews : Newer(told, r, v)[s] >= told[s]
      BY <1>1, NewerType
    <2>2. Newer(announced, r, v) \in [Reviews -> Nat]
      BY <1>1, NewerType
    <2>3. announced' \in [Reviews -> Nat]
      BY <1>1, <1>5, <2>2
    <2> QED
      BY <1>5, <2>1, <2>3
  <1>7. got \in [Reviews -> Nat] /\ items \subseteq Reviews
    BY <1>1 DEF Act
  <1> HIDE DEF got, items
  <1>8. /\ a \in Act /\ a.at = Next_(act[t], items) /\ a.items = items
        /\ a.job = act[t].job /\ a.page = act[t].page
    BY <1>1, <1>7 DEF Act, Next_
  <1> HIDE DEF a
  <1>9. Fits(a, notice, told')
    <2>1. CASE act[t].job \in Notices /\ notice[act[t].job].review # None
      <3>1. act[t].page = 0 /\ act[t].items \subseteq {notice[act[t].job].review}
            /\ act[t].got[notice[act[t].job].review] >= notice[act[t].job].version
            /\ notice[act[t].job].version \in Nat
        BY <1>1, <2>1 DEF Fits, Tells, TypeOK, Notice
      <3>2. r = notice[act[t].job].review /\ items = {}
        BY <1>1, <1>2, <3>1 DEF items
      <3>3. told'[r] >= notice[act[t].job].version
        BY <1>3, <1>6, <3>1, <3>2
      <3>4. a.at = "return"
        BY <1>8, <3>1, <3>2 DEF Next_
      <3> QED
        BY <1>1, <1>8, <2>1, <3>1, <3>2, <3>3, <3>4 DEF Fits, Tells
    <2>2. CASE ~(act[t].job \in Notices /\ notice[act[t].job].review # None)
      BY <1>1, <1>8, <2>2 DEF Fits, Tells, Next_
    <2> QED
      BY <2>1, <2>2
  <1>10. /\ UNCHANGED <<google, claimed, queue, lost, faults, cursor, latest, sched, cache>>
         /\ cursor \in 1..Pages /\ latest \in Slots \cup {None} /\ cache \in [Reviews -> Nat]
         /\ sched \in {"idle", "current", "stale", "stale, taken"} /\ notice' = notice
    BY <1>1 DEF Record, TypeOK, google
  <1>11. a.at # "enqueue"
    BY <1>8 DEF Next_
  <1> QED
    BY <1>4, <1>6, <1>8, <1>9, <1>10, <1>11, RunKept

LEMMA PutKept == ASSUME SyncInv, NEW t \in Threads, Put(t) PROVE SyncInv'
  <1> DEFINE a == [act[t] EXCEPT !.at = "return"]
  <1>1. /\ TypeOK /\ act[t] \in Act /\ act[t].at = "put" /\ Fits(act[t], notice, told)
        /\ act \in [Threads -> Act] /\ told \in [Reviews -> Nat]
    BY DEF SyncInv, TypeOK, Put
  <1>2. act' = [act EXCEPT ![t] = a]
    BY <1>1 DEF Put, Act
  <1>3. /\ a \in Act /\ a.at = "return" /\ a.items = act[t].items /\ a.got = act[t].got
        /\ a.job = act[t].job /\ a.page = act[t].page
    BY <1>1 DEF Act
  <1> HIDE DEF a
  <1>4. Fits(a, notice', told')
    <2>1. act[t].page # 0
      BY <1>1 DEF Fits
    <2>2. Fits(a, notice, told)
      BY <1>1, <1>3, <2>1 DEF Fits, Tells
    <2> QED
      BY <2>2 DEF Put, google
  <1>5. cursor' \in 1..Pages
    <2>1. act[t].page \in 1..Pages
      BY <1>1, PagesAssumption DEF Fits, Act
    <2>2. PICK p \in 1..Pages : p = act[t].page
      BY <2>1
    <2>3. NextPage(p) \in 1..Pages
      BY PagesAssumption DEF NextPage
    <2> QED
      BY <2>2, <2>3 DEF Put
  <1>6. /\ UNCHANGED <<google, claimed, queue, lost, faults, cache, told, announced>>
        /\ latest' \in Slots \cup {None} /\ cache \in [Reviews -> Nat]
        /\ sched' \in {"idle", "current", "stale", "stale, taken"}
        /\ announced \in [Reviews -> Nat] /\ told \in [Reviews -> Nat]
    BY <1>1 DEF Put, TypeOK
  <1>7. \A r \in Reviews : told[r] >= told[r]
    BY <1>6, Same
  <1> QED
    BY <1>2, <1>3, <1>4, <1>5, <1>6, <1>7, RunKept

LEMMA ReturnKept == ASSUME SyncInv, NEW t \in Threads, Return(t) PROVE SyncInv'
  <1>1. /\ TypeOK /\ act[t] \in Act /\ act[t].at = "return" /\ Fits(act[t], notice, told)
        /\ act' = [act EXCEPT ![t] = Idle] /\ Queue!TypeOK
        /\ UNCHANGED <<google, claimed, cursor, latest, sched, cache, told, announced, lost, faults>>
    BY DEF SyncInv, TypeOK, Return
  <1>2. PICK j \in Jobs : j = act[t].job
    BY <1>1 DEF Fits
  <1>3. /\ Queue!TypeOK'
        /\ \A i \in Jobs : phase'[i] = phase[i] \/ (i = j /\ phase[j] = "leased" /\ phase'[i] = "done")
    <2>1. CASE phase[j] = "leased"
      <3>1. phase' = [phase EXCEPT ![j] = "done"] /\ UNCHANGED <<tries, allowance>>
        BY <1>1, <1>2, <2>1 DEF Return, Queue!Complete
      <3> QED
        BY <1>1, <2>1, <3>1 DEF Queue!TypeOK, Queue!Phases
    <2>2. CASE phase[j] # "leased"
      <3>1. UNCHANGED <<phase, tries, allowance>>
        BY <1>1, <1>2, <2>2 DEF Return, queue
      <3> QED
        BY <1>1, <3>1 DEF Queue!TypeOK
    <2> QED
      BY <2>1, <2>2
  <1>4. j \in Notices /\ notice[j].review # None => told[notice[j].review] >= notice[j].version
    BY <1>1, <1>2 DEF Fits, Tells
  <1>5. \A n \in Notices : /\ phase'[n] # "absent" => phase[n] # "absent"
                           /\ phase'[n] = "done" => \/ phase[n] = "done" \/ notice[n].review = None
                                                    \/ told[notice[n].review] >= notice[n].version
    BY <1>3, <1>4 DEF Jobs
  <1>6. faults' \in Nat
    BY <1>1 DEF TypeOK
  <1> QED
    BY <1>1, <1>3, <1>5, <1>6, IdleFits, QueueKept DEF Idle

-----------------------------------------------------------------------------
(* Faults. *)

LEMMA RaiseKept == ASSUME SyncInv, NEW t \in Threads, Raise(t) PROVE SyncInv'
  <1>1. /\ TypeOK /\ act[t] \in Act /\ act[t].at = "fetch" /\ Fits(act[t], notice, told)
        /\ act' = [act EXCEPT ![t] = Idle] /\ Queue!TypeOK
        /\ UNCHANGED <<google, claimed, cursor, latest, sched, cache, told, announced, lost>>
    BY DEF SyncInv, TypeOK, Raise
  <1>2. PICK j \in Jobs : j = act[t].job
    BY <1>1 DEF Fits
  <1>3. Queue!TypeOK' /\ \A i \in Jobs : phase'[i] = phase[i]
                                         \/ (phase[i] = "leased" /\ phase'[i] \in {"dead", "waiting"})
    <2>1. CASE phase[j] = "leased"
      <3>1. /\ phase' = [phase EXCEPT ![j] = IF tries[j] >= allowance[j] THEN "dead" ELSE "waiting"]
            /\ UNCHANGED <<tries, allowance>>
        BY <1>1, <1>2, <2>1 DEF Raise, Queue!Reject
      <3>2. PICK p \in {"dead", "waiting"} : phase' = [phase EXCEPT ![j] = p]
        BY <3>1
      <3> QED
        BY <1>1, <2>1, <3>1, <3>2 DEF Queue!TypeOK, Queue!Phases
    <2>2. CASE phase[j] # "leased"
      <3>1. UNCHANGED <<phase, tries, allowance>>
        BY <1>1, <1>2, <2>2 DEF Raise, queue
      <3> QED
        BY <1>1, <3>1 DEF Queue!TypeOK
    <2> QED
      BY <2>1, <2>2
  <1>4. \A n \in Notices : (phase'[n] # "absent" => phase[n] # "absent") /\ (phase'[n] = "done" => phase[n] = "done")
    BY <1>3 DEF Jobs
  <1>5. faults' \in Nat
    <2>1. faults \in Nat /\ faults' = faults + 1
      BY <1>1 DEF TypeOK, Raise, Fault
    <2> QED
      BY <2>1
  <1> QED
    BY <1>1, <1>3, <1>4, <1>5, IdleFits, QueueKept DEF Idle

\* A lease runs out, of a run that goes on or of one that is no more.
LEMMA LapseKept == ASSUME SyncInv, NEW j \in Jobs, Lapse(j) \/ Recover(j) PROVE SyncInv'
  <1>1. /\ TypeOK /\ Queue!TypeOK /\ Queue!Lapse({j}) /\ phase[j] = "leased"
        /\ UNCHANGED <<google, claimed, cursor, latest, sched, cache, act, told, announced, lost>>
    BY DEF SyncInv, TypeOK, Lapse, Recover, Orphaned
  <1>2. faults' \in Nat
    <2>1. faults \in Nat /\ (faults' = faults \/ faults' = faults + 1)
      BY <1>1 DEF TypeOK, Lapse, Recover, Fault
    <2> QED
      BY <2>1
  <1>3. /\ phase' = [i \in Jobs |-> IF i = j THEN "waiting" ELSE phase[i]]
        /\ UNCHANGED <<tries, allowance>>
    BY <1>1 DEF Queue!Lapse
  <1>4. Queue!TypeOK'
    BY <1>1, <1>3 DEF Queue!TypeOK, Queue!Phases
  <1>5. TypeOK'
    BY <1>1, <1>2, <1>4 DEF TypeOK, google
  <1>6. \A n \in Notices : NoticeFits(n)'
    BY <1>1, <1>3 DEF SyncInv, NoticeFits, Unsent, Jobs, google
  <1> QED
    BY <1>1, <1>5, <1>6 DEF SyncInv, EnqueuersClaimed, google

LEMMA CrashKept == ASSUME SyncInv, Crash PROVE SyncInv'
  <1>1. /\ TypeOK /\ act' = [t \in Threads |-> Idle] /\ cache' = [r \in Reviews |-> 0] /\ sched' = "idle"
        /\ lost' = lost \cup {act[t].job : t \in {u \in Threads : act[u].at = "enqueue"}}
        /\ UNCHANGED <<google, claimed, cursor, queue, latest, told, announced>>
    BY DEF SyncInv, Crash
  <1>2. faults' \in Nat
    <2>1. faults \in Nat /\ faults' = faults + 1
      BY <1>1 DEF TypeOK, Crash, Fault
    <2> QED
      BY <2>1
  <1>3. lost' \subseteq claimed'
    BY <1>1 DEF SyncInv, EnqueuersClaimed, TypeOK
  <1>4. TypeOK'
    BY <1>1, <1>2, <1>3, IdleFits DEF TypeOK, google, queue, Queue!TypeOK
  <1>5. \A t \in Threads : Fits(act'[t], notice', told')
    BY <1>1, IdleFits
  <1>6. \A n \in Notices : NoticeFits(n)'
    BY <1>1 DEF SyncInv, NoticeFits, Unsent, google, queue
  <1>7. EnqueuersClaimed'
    BY <1>1 DEF EnqueuersClaimed, Idle
  <1> QED
    BY <1>4, <1>5, <1>6, <1>7 DEF SyncInv

-----------------------------------------------------------------------------
(* Notices. *)

LEMMA InitSync == Init => SyncInv
  <1> SUFFICES ASSUME Init PROVE SyncInv
    OBVIOUS
  <1>1. Queue!TypeOK
    BY DEF Init, Queue!Init, Queue!TypeOK, Queue!Phases
  <1>2. notice \in [Notices -> Notice]
    BY DEF Init, Notice
  <1>3. Idle \in Act
    BY PagesAssumption DEF Idle, Act
  <1>4. TypeOK
    BY <1>1, <1>2, <1>3, PagesAssumption DEF Init, TypeOK
  <1>5. \A t \in Threads : Fits(act[t], notice, told)
    BY <1>4, IdleFits DEF Init
  <1>6. \A n \in Notices : NoticeFits(n)
    BY DEF Init, NoticeFits, Unsent, Queue!Init, Jobs
  <1>7. EnqueuersClaimed
    BY DEF Init, EnqueuersClaimed, Idle
  <1> QED
    BY <1>4, <1>5, <1>6, <1>7 DEF SyncInv

LEMMA NextSync == SyncInv /\ [Next]_vars => SyncInv'
  <1> SUFFICES ASSUME SyncInv, [Next]_vars PROVE SyncInv'
    OBVIOUS
  <1>1. CASE (\E r \in Reviews : Change(r)) \/ Schedule \/ Crash
    BY <1>1, ChangeKept, ScheduleKept, CrashKept
  <1>2. ASSUME NEW t \in Threads,
               \/ EnqueueEvent(t) \/ Handler(t) \/ Raise(t)
               \/ \E n \in Notices : ClaimEvent(t, n)
               \/ \E j \in Jobs : Claim(t, j)
        PROVE  SyncInv'
    BY <1>2, EnqueueEventKept, FetchKept, LookKept, KeepKept, RecordKept, PutKept, ReturnKept, RaiseKept,
       ClaimEventKept, ClaimKept DEF Handler
  <1>3. CASE \E j \in Jobs : Lapse(j) \/ Recover(j)
    BY <1>3, LapseKept
  <1>4. CASE UNCHANGED vars
    BY <1>4 DEF vars, google, queue, SyncInv, TypeOK, Queue!TypeOK, NoticeFits, Unsent, EnqueuersClaimed
  <1> QED
    BY <1>1, <1>2, <1>3, <1>4 DEF Next

\* Every run of a job has what its place in google_sync_engine.py needs, and a run of a notice's job looks at
\* the notice's version or a later one, which is told when it returns.
THEOREM RunsTell == Spec => []SyncInv
  BY InitSync, NextSync, PTL DEF Spec

\* A notice's job is done only when what the notice was about was recorded, although any run of the job
\* may settle it: GoogleSyncEngine's worker and the queue's test of the owner (google_sync_engine.py,
\* background_jobs.py).
THEOREM NoticesAreTold == Spec => []DoneIsRecorded
  <1>1. SyncInv => DoneIsRecorded
    BY DEF SyncInv, NoticeFits, DoneIsRecorded
  <1> QED
    BY <1>1, RunsTell, PTL

-----------------------------------------------------------------------------
(* The cache: a version v of r that somebody saw there was announced, or   *)
(* somebody is at record with it who did not see it there.                 *)

\* The thread is about to announce its version of r.
Announcing(a, r) == a.at = "record" /\ Item(a) = r /\ a.old # a.got[r]

Covered(r, v) == announced[r] >= v \/ \E t \in Threads : Announcing(act[t], r) /\ act[t].got[r] >= v

CacheInv ==
  /\ \A r \in Reviews : Covered(r, cache[r])
  /\ \A t \in Threads : act[t].at \in {"keep", "record"} => Covered(Item(act[t]), act[t].old)

\* No thread that announces goes away, and no thread sees anything new.
LEMMA CacheStays ==
  ASSUME SyncInv, SyncInv', CacheInv, UNCHANGED <<cache, announced>>,
         \A t \in Threads : \/ act'[t] = act[t]
                            \/ act[t].at # "record" /\ act'[t].at \notin {"keep", "record"}
  PROVE  CacheInv'
  <1>1. \A r \in Reviews, v \in Nat : Covered(r, v) => Covered(r, v)'
    BY DEF Covered, Announcing
  <1>2. \A r \in Reviews : cache[r] \in Nat
    BY DEF SyncInv, TypeOK
  <1>3. ASSUME NEW t \in Threads, act'[t].at \in {"keep", "record"} PROVE Covered(Item(act[t]), act[t].old)'
    <2>1. act'[t] = act[t] /\ act[t].old \in Nat /\ Item(act[t]) \in Reviews
      BY <1>3, ItemType DEF SyncInv, TypeOK, Act
    <2>2. PICK r \in Reviews, v \in Nat : r = Item(act[t]) /\ v = act[t].old
      BY <2>1
    <2>3. Covered(r, v)'
      BY <1>1, <1>3, <2>1, <2>2 DEF CacheInv
    <2> QED
      BY <2>1, <2>2, <2>3
  <1> QED
    BY <1>1, <1>2, <1>3 DEF CacheInv

\* What one thread does.
OthersGoOn(t) == \A u \in Threads \ {t} : act'[u] = act[u]

\* One thread goes on, and announces if it was about to.
LEMMA CoveredStays ==
  ASSUME SyncInv, SyncInv', NEW t \in Threads, OthersGoOn(t),
         \A s \in Reviews : announced'[s] >= announced[s],
         \A s \in Reviews : Announcing(act[t], s) => announced'[s] >= act[t].got[s]
  PROVE  \A r \in Reviews, v \in Nat : Covered(r, v) => Covered(r, v)'
  <1> SUFFICES ASSUME NEW r \in Reviews, NEW v \in Nat, Covered(r, v) PROVE Covered(r, v)'
    OBVIOUS
  <1>1. /\ announced[r] \in Nat /\ announced'[r] \in Nat /\ act[t].got[r] \in Nat
        /\ announced'[r] >= announced[r]
    BY DEF SyncInv, TypeOK, Act
  <1>2. CASE announced[r] >= v
    BY <1>1, <1>2 DEF Covered
  <1>3. CASE Announcing(act[t], r) /\ act[t].got[r] >= v
    <2>1. announced'[r] >= act[t].got[r]
      BY <1>3
    <2> QED
      BY <1>1, <1>3, <2>1 DEF Covered
  <1>4. ASSUME NEW u \in Threads, u # t, Announcing(act[u], r), act[u].got[r] >= v PROVE Covered(r, v)'
    <2>1. act'[u] = act[u]
      BY <1>4 DEF OthersGoOn
    <2> QED
      BY <1>4, <2>1 DEF Covered, Announcing
  <1> QED
    BY <1>2, <1>3, <1>4 DEF Covered

\* Those who have seen a version still have.
LEMMA SeenStays ==
  ASSUME SyncInv, CacheInv, NEW t \in Threads, OthersGoOn(t),
         \A r \in Reviews, v \in Nat : Covered(r, v) => Covered(r, v)'
  PROVE  \A u \in Threads \ {t} : act'[u].at \in {"keep", "record"} => Covered(Item(act[u]), act[u].old)'
  <1> SUFFICES ASSUME NEW u \in Threads \ {t}, act'[u].at \in {"keep", "record"}
               PROVE  Covered(Item(act[u]), act[u].old)'
    OBVIOUS
  <1>1. act'[u] = act[u]
    BY DEF OthersGoOn
  <1>2. act[u].old \in Nat /\ Item(act[u]) \in Reviews /\ Covered(Item(act[u]), act[u].old)
    BY <1>1, ItemType DEF SyncInv, TypeOK, Act, CacheInv
  <1>3. PICK r \in Reviews, v \in Nat : r = Item(act[u]) /\ v = act[u].old
    BY <1>2
  <1>4. Covered(r, v)'
    BY <1>2, <1>3
  <1> QED
    BY <1>1, <1>3, <1>4

LEMMA LookCovered == ASSUME SyncInv, SyncInv', CacheInv, NEW t \in Threads, Look(t) PROVE CacheInv'
  <1>1. /\ act[t] \in Act /\ act[t].at = "look" /\ act \in [Threads -> Act] /\ UNCHANGED <<cache, announced>>
        /\ cache \in [Reviews -> Nat] /\ announced \in [Reviews -> Nat] /\ Item(act[t]) \in Reviews
    BY ItemType DEF SyncInv, TypeOK, Look
  <1>2. PICK i \in Reviews : i = Item(act[t])
    BY <1>1
  <1>3. act' = [act EXCEPT ![t] = [act[t] EXCEPT !.at = "keep", !.old = cache[i]]]
    BY <1>1, <1>2 DEF Look, Act
  <1>4. /\ OthersGoOn(t) /\ act'[t].items = act[t].items /\ act'[t].old = cache[i]
    BY <1>1, <1>3 DEF OthersGoOn, Act
  <1>5. \A r \in Reviews, v \in Nat : Covered(r, v) => Covered(r, v)'
    <2>1. \A s \in Reviews : announced'[s] >= announced[s]
      BY <1>1, Same
    <2> QED
      BY <1>1, <1>4, <2>1, CoveredStays DEF Announcing
  <1>6. \A r \in Reviews : Covered(r, cache[r])'
    <2>1. \A r \in Reviews : Covered(r, cache[r]) /\ cache[r] \in Nat /\ cache'[r] = cache[r]
      BY <1>1 DEF CacheInv
    <2>2. ASSUME NEW r \in Reviews PROVE Covered(r, cache[r])'
      <3>1. PICK v \in Nat : v = cache[r]
        BY <2>1
      <3>2. Covered(r, v)'
        BY <1>5, <2>1, <3>1
      <3> QED
        BY <2>1, <3>1, <3>2
    <2> QED
      BY <2>2
  <1>7. Covered(Item(act[t]), act[t].old)'
    <2>1. Item(act[t])' = i
      BY <1>2, <1>4 DEF Item
    <2>2. Covered(i, cache[i])' /\ act'[t].old = cache'[i]
      BY <1>1, <1>4, <1>6
    <2> QED
      BY <2>1, <2>2
  <1> QED
    BY <1>4, <1>5, <1>6, <1>7, SeenStays DEF CacheInv

LEMMA KeepCovered == ASSUME SyncInv, SyncInv', CacheInv, NEW t \in Threads, Keep(t) PROVE CacheInv'
  <1>1. /\ act[t] \in Act /\ act[t].at = "keep" /\ act \in [Threads -> Act] /\ UNCHANGED announced
        /\ cache \in [Reviews -> Nat] /\ announced \in [Reviews -> Nat] /\ Item(act[t]) \in Reviews
    BY ItemType DEF SyncInv, TypeOK, Keep
  <1>2. PICK i \in Reviews : i = Item(act[t])
    BY <1>1
  <1>3. PICK new \in Nat, old \in Nat : new = act[t].got[i] /\ old = act[t].old
    BY <1>1 DEF Act
  <1>4. /\ act' = [act EXCEPT ![t] = [act[t] EXCEPT !.at = "record"]]
        /\ cache' = [cache EXCEPT ![i] = new]
    BY <1>1, <1>2, <1>3 DEF Keep, Act
  <1>5. /\ OthersGoOn(t) /\ act'[t].items = act[t].items /\ act'[t].old = old /\ act'[t].got[i] = new
        /\ act'[t].at = "record"
    BY <1>1, <1>3, <1>4 DEF OthersGoOn, Act
  <1>6. \A r \in Reviews, v \in Nat : Covered(r, v) => Covered(r, v)'
    <2>1. \A s \in Reviews : announced'[s] >= announced[s]
      BY <1>1, Same
    <2> QED
      BY <1>1, <1>5, <2>1, CoveredStays DEF Announcing
  <1>7. Item(act[t])' = i
    BY <1>2, <1>5 DEF Item
  <1>8. Covered(i, old)'
    BY <1>1, <1>2, <1>3, <1>6 DEF CacheInv
  <1>9. Covered(i, new)'
    <2>1. CASE old = new
      BY <1>8, <2>1
    <2>2. CASE old # new
      <3>1. Announcing(act[t], i)' /\ act'[t].got[i] >= new
        BY <1>5, <1>7, <2>2 DEF Announcing
      <3> QED
        BY <3>1 DEF Covered
    <2> QED
      BY <2>1, <2>2
  <1>10. ASSUME NEW r \in Reviews PROVE Covered(r, cache[r])'
    <2>1. CASE r = i
      <3>1. cache'[r] = new
        BY <1>1, <1>4, <2>1
      <3> QED
        BY <1>9, <2>1, <3>1
    <2>2. CASE r # i
      <3>1. PICK v \in Nat : v = cache[r]
        BY <1>1
      <3>2. Covered(r, v)' /\ cache'[r] = v
        BY <1>1, <1>4, <1>6, <2>2, <3>1 DEF CacheInv
      <3> QED
        BY <3>2
    <2> QED
      BY <2>1, <2>2
  <1>11. Covered(Item(act[t]), act[t].old)'
    BY <1>5, <1>7, <1>8
  <1> QED
    BY <1>5, <1>6, <1>10, <1>11, SeenStays DEF CacheInv

LEMMA RecordCovered == ASSUME SyncInv, SyncInv', CacheInv, NEW t \in Threads, Record(t) PROVE CacheInv'
  <1>1. /\ act[t] \in Act /\ act[t].at = "record" /\ act \in [Threads -> Act] /\ UNCHANGED cache
        /\ cache \in [Reviews -> Nat] /\ announced \in [Reviews -> Nat] /\ Item(act[t]) \in Reviews
    BY ItemType DEF SyncInv, TypeOK, Record
  <1>2. PICK i \in Reviews : i = Item(act[t])
    BY <1>1
  <1>3. PICK new \in Nat, old \in Nat : new = act[t].got[i] /\ old = act[t].old
    BY <1>1 DEF Act
  <1>4. announced' = IF ChangeOf(old, new) = "UNCHANGED" THEN announced ELSE Newer(announced, i, new)
    BY <1>2, <1>3 DEF Record
  <1>5. \A s \in Reviews : announced'[s] >= announced[s]
    BY <1>1, <1>4, Same, NewerType
  <1>6. old # new => announced'[i] >= new
    <2>1. old # new => ChangeOf(old, new) # "UNCHANGED"
      BY DEF ChangeOf
    <2>2. Newer(announced, i, new)[i] >= new
      BY <1>1, NewerType
    <2> QED
      BY <1>4, <2>1, <2>2
  <1>7. \A s \in Reviews : Announcing(act[t], s) => announced'[s] >= act[t].got[s]
    BY <1>2, <1>3, <1>6 DEF Announcing
  <1>8. OthersGoOn(t) /\ act'[t].at \notin {"keep", "record"}
    BY <1>1 DEF OthersGoOn, Record, Next_, Act
  <1>9. \A r \in Reviews, v \in Nat : Covered(r, v) => Covered(r, v)'
    BY <1>5, <1>7, <1>8, CoveredStays
  <1>10. ASSUME NEW r \in Reviews PROVE Covered(r, cache[r])'
    <2>1. PICK v \in Nat : v = cache[r]
      BY <1>1
    <2>2. Covered(r, v)' /\ cache'[r] = v
      BY <1>1, <1>9, <2>1 DEF CacheInv
    <2> QED
      BY <2>2
  <1> QED
    BY <1>8, <1>9, <1>10, SeenStays DEF CacheInv

LEMMA NextCovered == SyncInv /\ SyncInv' /\ CacheInv /\ [Next]_vars => CacheInv'
  <1> SUFFICES ASSUME SyncInv, SyncInv', CacheInv, [Next]_vars PROVE CacheInv'
    OBVIOUS
  <1>0. act \in [Threads -> Act]
    BY DEF SyncInv, TypeOK
  <1>1. CASE \/ \E r \in Reviews : Change(r)
             \/ Schedule \/ UNCHANGED vars
             \/ \E j \in Jobs : Lapse(j) \/ Recover(j)
    <2>1. UNCHANGED <<act, cache, announced>>
      BY <1>1 DEF Change, Schedule, ReadGeneration, EnqueueReconciliation, Lapse, Recover, vars
    <2> QED
      BY <2>1, CacheStays
  <1>2. CASE Crash
    <2>1. /\ \A r \in Reviews : cache'[r] = 0 /\ announced'[r] \in Nat
          /\ \A t \in Threads : act'[t].at = "idle"
      BY <1>2 DEF Crash, Idle, SyncInv, TypeOK
    <2> QED
      BY <2>1 DEF CacheInv, Covered
  <1>3. ASSUME NEW t \in Threads,
               \/ EnqueueEvent(t) \/ Fetch(t) \/ Put(t) \/ Return(t) \/ Raise(t)
               \/ \E n \in Notices : ClaimEvent(t, n)
               \/ \E j \in Jobs : Claim(t, j)
        PROVE  CacheInv'
    <2>1. UNCHANGED <<cache, announced>> /\ OthersGoOn(t)
      BY <1>0, <1>3 DEF EnqueueEvent, Fetch, Put, Return, Raise, ClaimEvent, Claim, OthersGoOn
    <2>2. act'[t] = act[t] \/ (act[t].at # "record" /\ act'[t].at \notin {"keep", "record"})
      <3>0. act[t] \in Act /\ Idle.at = "idle"
        BY <1>0 DEF Idle
      <3>1. CASE EnqueueEvent(t) \/ Return(t) \/ Raise(t)
        BY <1>0, <3>0, <3>1 DEF EnqueueEvent, Return, Raise
      <3>2. CASE Fetch(t)
        <4>1. act'[t].at \in {"look", "put", "return"}
          BY <1>0, <3>0, <3>2 DEF Fetch, Next_, Act
        <4> QED
          BY <3>2, <4>1 DEF Fetch
      <3>3. CASE Put(t)
        BY <1>0, <3>0, <3>3 DEF Put, Act
      <3>4. ASSUME NEW n \in Notices, ClaimEvent(t, n)
            PROVE  act'[t] = act[t] \/ (act[t].at # "record" /\ act'[t].at \notin {"keep", "record"})
        <4>1. CASE Fresh(n)
          BY <1>0, <3>4, <4>1 DEF ClaimEvent, Idle
        <4>2. CASE ~Fresh(n)
          BY <3>4, <4>2 DEF ClaimEvent
        <4> QED
          BY <4>1, <4>2
      <3>5. ASSUME NEW j \in Jobs, Claim(t, j) PROVE act[t].at # "record" /\ act'[t].at \notin {"keep", "record"}
        BY <1>0, <3>5 DEF Claim, Idle
      <3> QED
        BY <1>3, <3>1, <3>2, <3>3, <3>4, <3>5
    <2> QED
      BY <2>1, <2>2, CacheStays DEF OthersGoOn
  <1>4. ASSUME NEW t \in Threads, Look(t) \/ Keep(t) \/ Record(t) PROVE CacheInv'
    BY <1>4, LookCovered, KeepCovered, RecordCovered
  <1> QED
    BY <1>1, <1>2, <1>3, <1>4 DEF Next, Handler

\* What the cache of google_business_profile.py has, and what a run of it compares with, was announced or is
\* about to be by the run that put it there.
THEOREM CacheIsCovered == Spec => [](SyncInv /\ CacheInv)
  <1>1. Init => SyncInv /\ CacheInv
    BY InitSync DEF Init, CacheInv, Covered, Idle
  <1>2. SyncInv /\ CacheInv /\ [Next]_vars => (SyncInv /\ CacheInv)'
    BY NextSync, NextCovered
  <1> QED
    BY <1>1, <1>2, PTL DEF Spec

\* A version in the cache, which the next run will find unchanged, was announced or is about to be, although
\* ReviewCache.observe (google_business_profile.py) reads and replaces it without a lock: of two runs that
\* put it there, the one that saw another version before is the one that announces it.
THEOREM CachedVersionsAreAnnounced == Spec => []CachedIsAnnounced
  <1>1. ASSUME SyncInv, CacheInv, NEW r \in Reviews, cache[r] > announced[r]
        PROVE  \E t \in Threads : act[t].at = "record" /\ Item(act[t]) = r /\ act[t].got[r] >= cache[r]
    <2>1. Covered(r, cache[r]) /\ cache[r] \in Nat /\ announced[r] \in Nat
      BY <1>1 DEF CacheInv, SyncInv, TypeOK
    <2>2. ~(announced[r] >= cache[r])
      BY <1>1, <2>1
    <2> QED
      BY <2>1, <2>2 DEF Covered, Announcing
  <1>2. SyncInv /\ CacheInv => CachedIsAnnounced
    BY <1>1 DEF CachedIsAnnounced
  <1> QED
    BY <1>2, CacheIsCovered, PTL

=============================================================================
