---------------------------- MODULE GoogleSync ----------------------------
(***************************************************************************)
(* The Google sync engine of src/google_sync_engine.py with the review     *)
(* cache of src/google_business_profile.py: notices of Pub/Sub and         *)
(* scheduled reconciliations become jobs, whose handlers fetch reviews.    *)
(*                                                                         *)
(* The queue is what JobLifecycle promises and JobQueue implements.  Its   *)
(* owner test does not tell two runs of this engine's worker apart, since  *)
(* they all pass the identifier "google-sync": any run may settle a job    *)
(* that is leased.  The order of claims is left open.                      *)
(*                                                                         *)
(* The engine's state is in three places: the state store and the queue,   *)
(* each a durable SQLite database of its own, and the cache and the        *)
(* results in memory.  A review is its version; a listing has pages.       *)
(***************************************************************************)
EXTENDS Naturals, FiniteSets

CONSTANTS
  Threads,          \* those who receive notices and call JobWorker.run_once
  Reviews, PageOf,  \* reviews of one location, and the page each is listed on
  Pages,            \* how many pages there are
  Notices,          \* Pub/Sub messages
  Slots,            \* identifiers of reconciliation jobs
  None,             \* Python's None
  Allowance,        \* max_attempts
  MaxChanges,       \* bound: changes of reviews
  MaxFaults         \* bound: handlers that raise, leases that run out, processes that die

Jobs == Notices \cup Slots

ASSUME PagesAssumption == Pages \in Nat \ {0} /\ PageOf \in [Reviews -> 1..Pages]
ASSUME NumbersAssumption == Allowance \in Nat \ {0} /\ MaxChanges \in Nat /\ MaxFaults \in Nat
ASSUME NoneAssumption == None \notin Reviews \cup Jobs
ASSUME JobsAssumption == Notices \cap Slots = {}

VARIABLES
  version,   \* external: the version of each review at Google
  notice,    \* external: the messages of Pub/Sub
  claimed,   \* table processed_events
  cursor,    \* table sync_cursors: the page the token stands for; no token is page 1
  phase, tries, allowance,  \* the queue
  latest,    \* the reconciliation job whose key names the cursor's generation
  sched,     \* where enqueue_reconciliation is
  cache,     \* ReviewCache._data: the version last observed, 0 for none
  act,       \* where each thread is
  told,      \* history: the newest version of each review that was recorded
  announced, \* history: and the newest that was recorded as NEW or UPDATED
  lost,      \* history: notices claimed by a process that died before it enqueued the job
  changes, faults

queue == <<phase, tries, allowance>>
google == <<version, notice, changes>>
vars == <<google, claimed, cursor, queue, latest, sched, cache, act, told, announced, lost, faults>>

Queue == INSTANCE JobLifecycle

Notice == [state : {"unsent", "sent", "acked"}, review : Reviews \cup {None}, version : Nat]

Act == [at : {"idle", "enqueue", "fetch", "look", "keep", "record", "put", "return"},
        job : Jobs \cup {None},
        page : 0..Pages,            \* the page to list, 0 for a single review
        items : SUBSET Reviews,     \* what was fetched and is not recorded yet
        got : [Reviews -> Nat],     \* its versions
        old : Nat]                  \* the cached version of the item at hand
Idle == [at |-> "idle", job |-> None, page |-> 0, items |-> {},
         got |-> [r \in Reviews |-> 0], old |-> 0]

TypeOK ==
  /\ version \in [Reviews -> Nat]
  /\ notice \in [Notices -> Notice]
  /\ claimed \subseteq Notices
  /\ cursor \in 1..Pages
  /\ Queue!TypeOK
  /\ latest \in Slots \cup {None}
  /\ sched \in {"idle", "current", "stale", "stale, taken"}
  /\ cache \in [Reviews -> Nat]
  /\ act \in [Threads -> Act]
  /\ told \in [Reviews -> Nat] /\ announced \in [Reviews -> Nat]
  /\ lost \subseteq claimed
  /\ changes \in Nat /\ faults \in Nat

Init ==
  /\ version = [r \in Reviews |-> 1]
  /\ notice = [n \in Notices |-> [state |-> "unsent", review |-> None, version |-> 0]]
  /\ claimed = {}
  /\ cursor = 1
  /\ Queue!Init
  /\ latest = None
  /\ sched = "idle"
  /\ cache = [r \in Reviews |-> 0]
  /\ act = [t \in Threads |-> Idle]
  /\ told = [r \in Reviews |-> 0]
  /\ announced = [r \in Reviews |-> 0]
  /\ lost = {}
  /\ changes = 0 /\ faults = 0

-----------------------------------------------------------------------------
\* External: a review changes at Google, and Pub/Sub tells of it or not, with the review's
\* name or without.
Change(r) ==
  /\ changes < MaxChanges /\ changes' = changes + 1
  /\ version' = [version EXCEPT ![r] = @ + 1]
  /\ \/ UNCHANGED notice
     \/ \E n \in Notices, named \in {r, None} :
          /\ notice[n].state = "unsent"
          /\ notice' = [notice EXCEPT ![n] =
               [state |-> "sent", review |-> named, version |-> version'[r]]]
  /\ UNCHANGED <<claimed, cursor, queue, latest, sched, cache, act, told, announced, lost, faults>>

-----------------------------------------------------------------------------
(* Producers. *)

Submit(j) ==
  /\ allowance' = [allowance EXCEPT ![j] = Allowance]
  /\ Queue!Submit(j)

Acknowledge(n) == notice' = [notice EXCEPT ![n].state = "acked"]

\* claim_event; a message that was claimed before is acknowledged and forgotten.
Fresh(n) == n \notin claimed

ClaimEvent(t, n) ==
  /\ act[t].at = "idle" /\ notice[n].state = "sent"
  /\ IF Fresh(n)
     THEN /\ claimed' = claimed \cup {n}
          /\ act' = [act EXCEPT ![t] = [Idle EXCEPT !.at = "enqueue", !.job = n]]
          /\ UNCHANGED notice
     ELSE Acknowledge(n) /\ UNCHANGED <<claimed, act>>
  /\ UNCHANGED <<version, changes, cursor, queue, latest, sched, cache, told, announced, lost, faults>>

\* The job's idempotency key is the event's identifier.
EnqueueEvent(t) ==
  /\ act[t].at = "enqueue"
  /\ Submit(act[t].job)
  /\ Acknowledge(act[t].job)
  /\ act' = [act EXCEPT ![t] = Idle]
  /\ UNCHANGED <<version, changes, claimed, cursor, latest, sched, cache, told, announced, lost, faults>>

\* enqueue_reconciliation reads the cursor's generation, and then enqueues under a key that
\* names it: there is one job for each generation, whatever became of it.
ReadGeneration ==
  /\ sched = "idle"
  /\ sched' = "current"
  /\ UNCHANGED <<google, claimed, cursor, queue, latest, cache, act, told, announced, lost, faults>>

HasJob(read) == read = "stale, taken" \/ (read = "current" /\ latest # None)

\* Identifiers are used again once the job is of no effect: it is settled, no run is at it
\* and its generation has passed.
Free(k) ==
  /\ k # latest /\ phase[k] \in {"absent", "done", "dead"}
  /\ \A t \in Threads : act[t].job # k

EnqueueReconciliation ==
  /\ sched # "idle"
  /\ sched' = "idle"
  /\ IF HasJob(sched)
     THEN UNCHANGED <<queue, latest>>
     ELSE \E k \in Slots :
            /\ Free(k)
            /\ phase' = [phase EXCEPT ![k] = "waiting"]
            /\ tries' = [tries EXCEPT ![k] = 0]
            /\ allowance' = [allowance EXCEPT ![k] = Allowance]
            /\ latest' = IF sched = "current" THEN k ELSE latest
  /\ UNCHANGED <<google, claimed, cursor, cache, act, told, announced, lost, faults>>

-----------------------------------------------------------------------------
(* Workers. *)

\* What the handler lists: the cursor's page, the first one for a notice without a review,
\* or no page but the review that the notice names.
StartPage_Always(j) == IF j \in Slots THEN cursor ELSE 1
StartPage(j) ==
  CASE j \in Slots -> cursor
    [] notice[j].review = None -> 1
    [] OTHER -> 0

\* The handler begins by reading the cursor.
Claim(t, j) ==
  /\ act[t].at = "idle"
  /\ Queue!Lease({}, j)
  /\ act' = [act EXCEPT ![t] =
       [Idle EXCEPT !.at = "fetch", !.job = j, !.page = StartPage(j)]]
  /\ UNCHANGED <<google, claimed, cursor, latest, sched, cache, told, announced, lost, faults>>

\* list_reviews and get_review
Listed(j, page) == IF page = 0 THEN {notice[j].review} ELSE {r \in Reviews : PageOf[r] = page}

\* After the last item the page's cursor is put, if it was a page.
Next_(a, items) == IF items # {} THEN "look" ELSE IF a.page # 0 THEN "put" ELSE "return"

Fetch(t) ==
  /\ act[t].at = "fetch"
  /\ LET a == act[t]
         items == Listed(a.job, a.page)
     IN act' = [act EXCEPT ![t].at = Next_(a, items), ![t].items = items,
                           ![t].got = [r \in Reviews |-> IF r \in items THEN version[r] ELSE 0]]
  /\ UNCHANGED <<google, claimed, cursor, queue, latest, sched, cache, told, announced, lost, faults>>

\* ReviewCache.observe, without a lock: the old fingerprint is read and then replaced.
Item(a) == CHOOSE r \in a.items : TRUE

Look(t) ==
  /\ act[t].at = "look"
  /\ act' = [act EXCEPT ![t].at = "keep", ![t].old = cache[Item(act[t])]]
  /\ UNCHANGED <<google, claimed, cursor, queue, latest, sched, cache, told, announced, lost, faults>>

Keep(t) ==
  /\ act[t].at = "keep"
  /\ cache' = [cache EXCEPT ![Item(act[t])] = act[t].got[Item(act[t])]]
  /\ act' = [act EXCEPT ![t].at = "record"]
  /\ UNCHANGED <<google, claimed, cursor, queue, latest, sched, told, announced, lost, faults>>

\* The change that observe returns with the item.
ChangeOf_KnownOnly(old, new) == IF old = 0 THEN "NEW" ELSE "UNCHANGED"
ChangeOf(old, new) == IF old = 0 THEN "NEW" ELSE IF old # new THEN "UPDATED" ELSE "UNCHANGED"

Newer(f, r, v) == [f EXCEPT ![r] = IF v > @ THEN v ELSE @]

\* _record; history keeps what is told of the newest versions.
Record(t) ==
  /\ act[t].at = "record"
  /\ LET a == act[t]
         r == Item(a)
     IN /\ told' = Newer(told, r, a.got[r])
        /\ announced' = IF ChangeOf(a.old, a.got[r]) = "UNCHANGED" THEN announced
                        ELSE Newer(announced, r, a.got[r])
        /\ act' = [act EXCEPT ![t].at = Next_(a, a.items \ {r}), ![t].items = a.items \ {r},
                              ![t].got[r] = 0, ![t].old = 0]
  /\ UNCHANGED <<google, claimed, cursor, queue, latest, sched, cache, lost, faults>>

\* put_cursor: the next page, and no token after the last one.  The generation changes, so
\* the job that was enqueued for the old one no longer stands in the way.
NextPage_First(page) == 1
NextPage(page) == IF page = Pages THEN 1 ELSE page + 1

Put(t) ==
  /\ act[t].at = "put"
  /\ cursor' = NextPage(act[t].page)
  /\ latest' = None
  /\ sched' = IF sched # "current" THEN sched
              ELSE IF latest = None THEN "stale" ELSE "stale, taken"
  /\ act' = [act EXCEPT ![t].at = "return"]
  /\ UNCHANGED <<google, claimed, queue, cache, told, announced, lost, faults>>

\* succeed: refused when the job is not leased (any more).
Return(t) ==
  /\ act[t].at = "return"
  /\ IF phase[act[t].job] = "leased" THEN Queue!Complete(act[t].job) ELSE UNCHANGED queue
  /\ act' = [act EXCEPT ![t] = Idle]
  /\ UNCHANGED <<google, claimed, cursor, latest, sched, cache, told, announced, lost, faults>>

Handling(t) == act[t].at \notin {"idle", "enqueue"}

-----------------------------------------------------------------------------
(* Faults. *)

Fault == faults < MaxFaults /\ faults' = faults + 1

\* Google answers with an error: the handler raises and the worker calls fail.
Raise(t) ==
  /\ act[t].at = "fetch"
  /\ Fault
  /\ IF phase[act[t].job] = "leased" THEN Queue!Reject(act[t].job) ELSE UNCHANGED queue
  /\ act' = [act EXCEPT ![t] = Idle]
  /\ UNCHANGED <<google, claimed, cursor, latest, sched, cache, told, announced, lost>>

\* A lease runs out while the handler is at work.
Lapse(j) ==
  /\ Fault
  /\ phase[j] = "leased"
  /\ Queue!Lapse({j})
  /\ UNCHANGED <<google, claimed, cursor, latest, sched, cache, act, told, announced, lost>>

\* The process dies and starts again; its jobs stay leased until their leases run out.
Crash ==
  /\ Fault
  /\ act' = [t \in Threads |-> Idle]
  /\ cache' = [r \in Reviews |-> 0]
  /\ sched' = "idle"
  /\ lost' = lost \cup {act[t].job : t \in {u \in Threads : act[u].at = "enqueue"}}
  /\ UNCHANGED <<google, claimed, cursor, queue, latest, told, announced>>

\* What recover_expired_leases finds: a lease whose run is no more.
Orphaned(j) == phase[j] = "leased" /\ \A t \in Threads : ~(Handling(t) /\ act[t].job = j)
Recover(j) ==
  /\ Orphaned(j)
  /\ Queue!Lapse({j})
  /\ UNCHANGED <<google, claimed, cursor, latest, sched, cache, act, told, announced, lost, faults>>

Handler(t) == Fetch(t) \/ Look(t) \/ Keep(t) \/ Record(t) \/ Put(t) \/ Return(t)
Schedule == ReadGeneration \/ EnqueueReconciliation

Next ==
  \/ \E r \in Reviews : Change(r)
  \/ Schedule \/ Crash
  \/ \E t \in Threads :
       \/ EnqueueEvent(t) \/ Handler(t) \/ Raise(t)
       \/ \E n \in Notices : ClaimEvent(t, n)
       \/ \E j \in Jobs : Claim(t, j)
  \/ \E j \in Jobs : Lapse(j) \/ Recover(j)

Spec == Init /\ [][Next]_vars

\* Pub/Sub delivers a message until it is acknowledged, reconciliation is scheduled over
\* and over, the queue hands its jobs out in the order they came in, and its sweep finds
\* every lease that has run out.
Fairness ==
  /\ WF_vars(Schedule)
  /\ \A t \in Threads : WF_vars(Handler(t) \/ EnqueueEvent(t))
  /\ \A n \in Notices : SF_vars(\E t \in Threads : ClaimEvent(t, n))
  /\ \A j \in Jobs : WF_vars(Recover(j)) /\ SF_vars(\E t \in Threads : Claim(t, j))

FairSpec == Spec /\ Fairness

-----------------------------------------------------------------------------
(* Properties *)

\* A notice's job is done only when a version of its review at least as new as the one the
\* notice was about was recorded, whichever of the runs that shared the job settled it.
DoneIsRecorded ==
  TypeOK /\ \A n \in Notices :
    phase[n] = "done" /\ notice[n].review # None => told[notice[n].review] >= notice[n].version

\* A version in the cache, which the next run will call UNCHANGED, was recorded as NEW or
\* UPDATED, or its thread is about to, although the runs read and replace the cached
\* fingerprint without a lock and a crash empties the cache.
CachedIsAnnounced ==
  \A r \in Reviews :
    cache[r] > announced[r] =>
      \E t \in Threads :
        act[t].at = "record" /\ Item(act[t]) = r /\ act[t].got[r] >= cache[r]

\* Reconciliation finds every version, announced or not, on whatever page it is and
\* whatever stale cursor a slower run puts back, unless the job of the cursor's generation
\* is dead: then nothing enqueues another one for it.
Stalled == latest # None /\ phase[latest] = "dead"
ReviewIsSeen ==
  \A r \in Reviews : \A v \in 1..(MaxChanges + 1) :
    (version[r] = v) ~> (told[r] >= v \/ Stalled)
=============================================================================
