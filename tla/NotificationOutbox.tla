-------------------------- MODULE NotificationOutbox --------------------------
(***************************************************************************)
(* The notification outbox: table notification_outbox, the API processes   *)
(* that queue, cancel, deliver and mark notifications and run the batch    *)
(* worker (src/notification_service.py, src/notification_worker.py), and   *)
(* the stand-alone worker of src/postgres_notification_worker.py.          *)
(*                                                                         *)
(* An API process keeps the notifications it has seen in a store of its    *)
(* own, shared by its threads without a lock, and writes what it changes   *)
(* through to the table.  A request is a thread's walk through the steps   *)
(* in between which others run: a message is on its way, a row is on its   *)
(* way to the table.  It works on the object it found in the store; when   *)
(* another thread fetches the row again, the store has a new object, and   *)
(* the thread goes on with the old one.  The stand-alone worker holds the  *)
(* locks of the rows it chose, and everything it did to them, until it     *)
(* commits.                                                                *)
(*                                                                         *)
(* Notifications are numbered in the order of their creation.  next is     *)
(* next_attempt_at: NULL, later than now, or past.  The organization's     *)
(* policy, which may block queueing and delivery, allows everything here.  *)
(***************************************************************************)
EXTENDS Naturals, FiniteSets

CONSTANTS
  Notifications,      \* their numbers
  KeyOf,              \* the dedupe_key of each: case, level, channel and target
  MaxAttempts,        \* max_attempts
  Limit,              \* the limit of a worker run
  Servers,            \* the API processes
  Threads, ServerOf,  \* their threads
  Daemons,            \* the stand-alone workers
  None,
  CountTo,            \* bound: attempts are counted up to this number
  MaxRestarts         \* bound: how often a process dies

ASSUME NotificationsAssumption == Notifications \subseteq Nat
ASSUME ServersAssumption == ServerOf \in [Threads -> Servers]
ASSUME LimitsAssumption == MaxAttempts \in Nat \ {0} /\ Limit \in Nat \ {0}
ASSUME BoundsAssumption == CountTo \in Nat /\ CountTo > MaxAttempts /\ MaxRestarts \in Nat

VARIABLES
  db,        \* table notification_outbox, as committed
  store,     \* per process, the notifications it has seen
  act,       \* per thread, where it is in a request
  daemon,    \* per stand-alone worker, its open transaction
  messages,  \* history: how many messages left, up to two
  lost,      \* history: the outcome of an attempt was lost with the process or an exception
  marked,    \* history: an operator marked it as sent
  restarts   \* history: how often a process died

vars == <<db, store, act, daemon, messages, lost, marked, restarts>>

Status == {"PENDING", "SENT", "CANCELLED"}
Row == [status : Status \cup {"absent"}, attempts : 0..CountTo, next : {"none", "later", "past"},
        dead : BOOLEAN]
NoRow == [status |-> "absent", attempts |-> 0, next |-> "none", dead |-> FALSE]
NewRow == [NoRow EXCEPT !.status = "PENDING"]

\* choosing: in a worker run, before the next of todo; sending: the message is
\* on its way; left, failed: it was sent, it was not; saving: the changed row is
\* on its way to the table, all of it or the attempt only.  own has the objects
\* the thread works on that are not in the store any more.
Act == [at : {"idle", "choosing", "sending", "left", "failed", "saving"},
        by : {"request", "worker"}, n : Notifications \cup {None}, row : Row,
        whole : BOOLEAN, todo : SUBSET Notifications, own : [Notifications -> Row]]
NoRows == [n \in Notifications |-> NoRow]
Idle == [at |-> "idle", by |-> "request", n |-> None, row |-> NoRow, whole |-> FALSE, todo |-> {},
         own |-> NoRows]
Transaction == [todo : SUBSET Notifications, done : SUBSET Notifications,
                rows : [Notifications -> Row]]
Closed == [todo |-> {}, done |-> {}, rows |-> NoRows]

TypeOK ==
  /\ db \in [Notifications -> Row]
  /\ store \in [Servers -> [Notifications -> Row]]
  /\ act \in [Threads -> Act]
  /\ \A t \in Threads : act[t].at \notin {"idle", "choosing"} => act[t].n \in Notifications
  /\ daemon \in [Daemons -> Transaction]
  /\ messages \in [Notifications -> 0..2]
  /\ lost \in [Notifications -> BOOLEAN]
  /\ marked \in [Notifications -> BOOLEAN]
  /\ restarts \in Nat

history == <<messages, lost, marked, restarts>>

Init ==
  /\ db = NoRows
  /\ store = [s \in Servers |-> NoRows]
  /\ act = [t \in Threads |-> Idle]
  /\ daemon = [d \in Daemons |-> Closed]
  /\ messages = [n \in Notifications |-> 0]
  /\ lost = [n \in Notifications |-> FALSE]
  /\ marked = [n \in Notifications |-> FALSE]
  /\ restarts = 0

Count(k) == IF k < CountTo THEN k + 1 ELSE k
Present(row) == row.status # "absent"
Locked_Never(n) == FALSE
Locked(n) == \E d \in Daemons : n \in daemon[d].todo \cup daemon[d].done

\* _get: what the process has seen, or else the table's row.
Seen(s, n) == IF Present(store[s][n]) THEN store[s][n] ELSE db[n]
Keep(s, n, row) == store' = [store EXCEPT ![s][n] = row]

\* The object a thread works on, and what becomes of it when it changes it:
\* act' takes the thread's next state from here.
Object(t, n) == IF Present(act[t].own[n]) THEN act[t].own[n] ELSE store[ServerOf[t]][n]
Changed(t, n, row, next) ==
  IF Present(act[t].own[n])
    THEN UNCHANGED store /\ act' = [act EXCEPT ![t] = [next EXCEPT !.own[n] = row]]
    ELSE Keep(ServerOf[t], n, row) /\ act' = [act EXCEPT ![t] = next]

Due_OnlyFresh(row) == row.next = "none"
Due(row) == row.next # "later"

-----------------------------------------------------------------------------
(* Requests. *)

\* A notification's number is not given again, not even if only its message is left.
Known(n) == Present(db[n]) \/ messages[n] > 0 \/ marked[n] \/ \E s \in Servers : Present(store[s][n])

\* queue looks for a pending duplicate in the store only; the table drops the
\* insert when it has a row with the key, whatever its status.
Queue(t, n) ==
  LET s == ServerOf[t]
  IN /\ act[t].at = "idle"
     /\ \A m \in Notifications : m >= n => ~Known(m)
     /\ \A m \in Notifications : ~(KeyOf[m] = KeyOf[n] /\ store[s][m].status = "PENDING")
     /\ Keep(s, n, NewRow)
     /\ db' = IF \E m \in Notifications : KeyOf[m] = KeyOf[n] /\ Present(db[m])
                THEN db ELSE [db EXCEPT ![n] = NewRow]
     /\ UNCHANGED <<act, daemon, history>>

\* list_for_organization: rows of one status, or all, replace what the process
\* has; what it has and the table has not, stays.  Another thread that works on
\* a replaced object keeps it.
Fetched(s, S) ==
  [n \in Notifications |-> IF db[n].status \in S THEN db[n] ELSE store[s][n]]

Detached(u, S) ==
  [act[u] EXCEPT !.own = [n \in Notifications |->
    IF /\ db[n].status \in S /\ ~Present(act[u].own[n])
       /\ n \in act[u].todo \/ (n = act[u].n /\ act[u].at \in {"sending", "left", "failed"})
      THEN store[ServerOf[u]][n] ELSE act[u].own[n]]]

Fetch(t, S, next) ==
  /\ store' = [store EXCEPT ![ServerOf[t]] = Fetched(ServerOf[t], S)]
  /\ act' = [u \in Threads |->
       IF u = t THEN next ELSE IF ServerOf[u] = ServerOf[t] THEN Detached(u, S) ELSE act[u]]

List(t) ==
  /\ act[t].at = "idle"
  /\ \E S \in {Status, {"PENDING"}, {"SENT"}, {"CANCELLED"}} : Fetch(t, S, Idle)
  /\ UNCHANGED <<db, daemon, history>>

Saving(t, n, row, whole) == [act[t] EXCEPT !.at = "saving", !.n = n, !.row = row, !.whole = whole]

Cancellable(row) == row.status = "PENDING"

Cancel(t, n) ==
  LET row == [Seen(ServerOf[t], n) EXCEPT !.status = "CANCELLED"]
  IN /\ act[t].at = "idle"
     /\ Cancellable(Seen(ServerOf[t], n))
     /\ Keep(ServerOf[t], n, row)
     /\ act' = [act EXCEPT ![t] = Saving(t, n, row, TRUE)]
     /\ UNCHANGED <<db, daemon, history>>

MarkSent(t, n) ==
  LET row == [Seen(ServerOf[t], n) EXCEPT !.status = "SENT"]
  IN /\ act[t].at = "idle"
     /\ Seen(ServerOf[t], n).status = "PENDING"
     /\ Keep(ServerOf[t], n, row)
     /\ act' = [act EXCEPT ![t] = Saving(t, n, row, TRUE)]
     /\ marked' = [marked EXCEPT ![n] = TRUE]
     /\ UNCHANGED <<db, daemon, messages, lost, restarts>>

\* deliver: the adapter refuses a notification that is not pending, and the
\* refusal counts as a failed attempt.
Deliverable_Any(row) == Present(row)
Deliverable(row) == row.status = "PENDING"

Deliver(t, n) ==
  LET row == Seen(ServerOf[t], n)
  IN /\ act[t].at = "idle"
     /\ Present(row)
     /\ Keep(ServerOf[t], n, row)
     /\ act' = [act EXCEPT ![t] = [@ EXCEPT !.by = "request", !.n = n,
                                            !.at = IF Deliverable(row) THEN "sending" ELSE "failed"]]
     /\ UNCHANGED <<db, daemon, history>>

\* run_worker: fetch the pending rows, choose the first Limit of the store's
\* pending ones, and skip those that are not due yet.  Rows that are due come
\* before those that are not; those without next_attempt_at go by creation;
\* where a row stands whose next attempt is past is left open.
Before(m, n, rows) ==
  \/ Due(rows[m]) /\ ~Due(rows[n])
  \/ rows[m].next = "none" /\ rows[n].next = "none" /\ m < n

Least(k) == IF k < Limit THEN k ELSE Limit

RunWorker(t) ==
  LET s == ServerOf[t]
      fetched == Fetched(s, {"PENDING"})
      pending == {n \in Notifications : fetched[n].status = "PENDING"}
  IN /\ act[t].at = "idle"
     /\ pending # {}
     /\ \E chosen \in SUBSET pending :
          /\ Cardinality(chosen) = Least(Cardinality(pending))
          /\ \A n \in chosen, m \in pending \ chosen : ~Before(m, n, fetched)
          /\ Fetch(t, {"PENDING"}, [Idle EXCEPT !.at = "choosing", !.by = "worker",
                                               !.todo = {n \in chosen : Due(fetched[n])}])
     /\ UNCHANGED <<db, daemon, history>>

\* The next notification of the batch: the attempt is counted first.  The
\* adapter may refuse it by now.
NextOfBatch(t, n) ==
  LET row == Object(t, n)
  IN /\ act[t].at = "choosing" /\ n \in act[t].todo
     /\ Changed(t, n, [row EXCEPT !.attempts = Count(@)],
                [act[t] EXCEPT !.n = n, !.todo = @ \ {n},
                               !.at = IF Deliverable(row) THEN "sending" ELSE "failed"])
     /\ UNCHANGED <<db, daemon, history>>

BatchEnds(t) ==
  /\ act[t].at = "choosing" /\ act[t].todo = {}
  /\ act' = [act EXCEPT ![t] = Idle]
  /\ UNCHANGED <<db, store, daemon, history>>

\* The message leaves, or not, and the adapter returns or raises: an error
\* after the message left is possible.  deliver lets an error that is not a
\* DeliveryError pass and records nothing.
Sent(n) == messages' = [messages EXCEPT ![n] = IF @ < 2 THEN @ + 1 ELSE @]

SendEnds_TimeoutIsSuccess(t) ==
  /\ act[t].at = "sending"
  /\ \E left \in BOOLEAN :
       /\ IF left THEN Sent(act[t].n) ELSE UNCHANGED messages
       /\ act' = [act EXCEPT ![t].at = "left"]
  /\ UNCHANGED <<db, store, daemon, lost, marked, restarts>>
SendEnds(t) ==
  LET n == act[t].n
  IN /\ act[t].at = "sending"
     /\ \E left \in BOOLEAN, outcome \in {"left", "failed", "idle"} :
          /\ outcome = "left" => left
          /\ outcome = "idle" => act[t].by = "request"
          /\ IF left THEN Sent(n) ELSE UNCHANGED messages
          /\ lost' = [lost EXCEPT ![n] = @ \/ (left /\ outcome # "left")]
          /\ act' = [act EXCEPT ![t] = IF outcome = "idle" THEN Idle ELSE [@ EXCEPT !.at = outcome]]
     /\ UNCHANGED <<db, store, daemon, marked, restarts>>

Succeeded(t, row) ==
  IF act[t].by = "worker" THEN [row EXCEPT !.status = "SENT", !.next = "none"]
                          ELSE [row EXCEPT !.status = "SENT", !.attempts = Count(@)]

GivenUp_OneEarly(row) == row.attempts + 1 >= MaxAttempts
GivenUp(row) == row.attempts >= MaxAttempts

\* The worker schedules the next attempt, or notes the dead letter, whose
\* status stays as it is; deliver notes the attempt only.
Failed(t, row) ==
  IF act[t].by = "request" THEN [row EXCEPT !.attempts = Count(@)]
  ELSE IF GivenUp(row) THEN [row EXCEPT !.next = "none", !.dead = TRUE]
  ELSE [row EXCEPT !.next = "later"]

Note(t) ==
  LET n == act[t].n
      row == IF act[t].at = "left" THEN Succeeded(t, Object(t, n)) ELSE Failed(t, Object(t, n))
  IN /\ act[t].at \in {"left", "failed"}
     /\ Changed(t, n, row, Saving(t, n, row, act[t].at = "left" \/ act[t].by = "worker"))
     /\ UNCHANGED <<db, daemon, history>>

\* update_notification overwrites the row, whatever it has become;
\* record_notification_attempt leaves the status alone.
Written(n, row, whole) ==
  IF ~Present(db[n]) THEN db
  ELSE [db EXCEPT ![n] = IF whole THEN row ELSE [row EXCEPT !.status = db[n].status]]

Save(t) ==
  /\ act[t].at = "saving" /\ ~Locked(act[t].n)
  /\ db' = Written(act[t].n, act[t].row, act[t].whole)
  /\ act' = [act EXCEPT ![t] = IF act[t].by = "worker"
                                 THEN [@ EXCEPT !.at = "choosing", !.n = None, !.row = NoRow,
                                                !.whole = FALSE, !.own[act[t].n] = NoRow]
                                 ELSE Idle]
  /\ UNCHANGED <<store, daemon, history>>

\* The process dies, or is replaced: its store and its requests are gone.
Restart(s) ==
  /\ restarts < MaxRestarts
  /\ restarts' = restarts + 1
  /\ store' = [store EXCEPT ![s] = NoRows]
  /\ act' = [t \in Threads |-> IF ServerOf[t] = s THEN Idle ELSE act[t]]
  /\ lost' = [n \in Notifications |->
       \/ lost[n]
       \/ \E t \in Threads : ServerOf[t] = s /\ act[t].n = n
                             /\ (act[t].at = "left" \/ act[t].row.status = "SENT")]
  /\ UNCHANGED <<db, daemon, messages, marked>>

-----------------------------------------------------------------------------
(* The stand-alone worker: one transaction. *)

Select(d) ==
  LET pending == {n \in Notifications : db[n].status = "PENDING" /\ Due(db[n]) /\ ~Locked(n)}
  IN /\ daemon[d] = Closed
     /\ pending # {}
     /\ \E chosen \in SUBSET pending :
          /\ Cardinality(chosen) = Least(Cardinality(pending))
          /\ \A n \in chosen, m \in pending \ chosen : n < m
          /\ daemon' = [daemon EXCEPT ![d].todo = chosen]
     /\ UNCHANGED <<db, store, act, history>>

\* One row of it: send, and update the row in the transaction.
Attempt(d, n) ==
  LET tried == [db[n] EXCEPT !.attempts = Count(@)]
      failed == IF GivenUp(tried) THEN [tried EXCEPT !.next = "none", !.dead = TRUE]
                                  ELSE [tried EXCEPT !.next = "later"]
  IN /\ n \in daemon[d].todo
     /\ \E left, ok \in BOOLEAN :
          /\ ok => left
          /\ IF left THEN Sent(n) ELSE UNCHANGED messages
          /\ lost' = [lost EXCEPT ![n] = @ \/ (left /\ ~ok)]
          /\ daemon' = [daemon EXCEPT ![d] =
               [todo |-> @.todo \ {n}, done |-> @.done \cup {n},
                rows |-> [@.rows EXCEPT ![n] =
                  IF ok THEN [tried EXCEPT !.status = "SENT", !.next = "none"] ELSE failed]]]
     /\ UNCHANGED <<db, store, act, marked, restarts>>

Commit(d) ==
  /\ daemon[d].todo = {} /\ daemon[d].done # {}
  /\ db' = [n \in Notifications |-> IF n \in daemon[d].done THEN daemon[d].rows[n] ELSE db[n]]
  /\ daemon' = [daemon EXCEPT ![d] = Closed]
  /\ UNCHANGED <<store, act, history>>

\* The worker dies: the transaction is rolled back, the messages are not.
Rollback(d) ==
  /\ daemon[d] # Closed
  /\ restarts < MaxRestarts
  /\ restarts' = restarts + 1
  /\ lost' = [n \in Notifications |-> lost[n] \/ daemon[d].rows[n].status = "SENT"]
  /\ daemon' = [daemon EXCEPT ![d] = Closed]
  /\ UNCHANGED <<db, store, act, messages, marked>>

-----------------------------------------------------------------------------
\* The instant of a row's next attempt passes, for all its copies.
Aged(row) == IF row.next = "later" THEN [row EXCEPT !.next = "past"] ELSE row

NextAttemptIsDue(n) ==
  /\ db[n].next = "later" \/ \E s \in Servers : store[s][n].next = "later"
  /\ db' = [db EXCEPT ![n] = Aged(@)]
  /\ store' = [s \in Servers |-> [store[s] EXCEPT ![n] = Aged(@)]]
  /\ act' = [t \in Threads |->
       [act[t] EXCEPT !.row = IF act[t].n = n THEN Aged(@) ELSE @, !.own[n] = Aged(@)]]
  /\ daemon' = [d \in Daemons |-> [daemon[d] EXCEPT !.rows[n] = Aged(@)]]
  /\ UNCHANGED history

Progress(t) == SendEnds(t) \/ Note(t) \/ Save(t) \/ BatchEnds(t) \/ \E n \in Notifications : NextOfBatch(t, n)

ThreadStep(t) ==
  \/ List(t) \/ RunWorker(t) \/ Progress(t)
  \/ \E n \in Notifications : Queue(t, n) \/ Cancel(t, n) \/ MarkSent(t, n) \/ Deliver(t, n)

DaemonStep(d) == Select(d) \/ Commit(d) \/ Rollback(d) \/ \E n \in Notifications : Attempt(d, n)

Next ==
  \/ \E t \in Threads : ThreadStep(t)
  \/ \E s \in Servers : Restart(s)
  \/ \E d \in Daemons : DaemonStep(d)
  \/ \E n \in Notifications : NextAttemptIsDue(n)

Spec == Init /\ [][Next]_vars

\* Delivery is left to the stand-alone workers: API processes only queue.
DaemonsNext ==
  \/ \E t \in Threads, n \in Notifications : Queue(t, n)
  \/ \E d \in Daemons : DaemonStep(d)
  \/ \E n \in Notifications : NextAttemptIsDue(n)

\* Requests end, time passes, and every thread runs the worker again and again.
FairSpec ==
  /\ Spec
  /\ \A t \in Threads : WF_vars(Progress(t)) /\ SF_vars(RunWorker(t))
  /\ \A n \in Notifications : WF_vars(NextAttemptIsDue(n))

-----------------------------------------------------------------------------
(* Properties. *)

Settled == {"SENT", "CANCELLED"}

\* No second message unless the outcome of an attempt was lost on the way.
AtMostOneMessage == \A n \in Notifications : messages[n] > 1 => lost[n]

\* "only pending notifications can be delivered": no message leaves for a row
\* that the table has as sent or cancelled.
OnlyPendingIsDelivered ==
  [][\A n \in Notifications : db[n].status \in Settled => messages'[n] = messages[n]]_vars

\* SENT is true: a message left, or an operator said so.
SentIsTrue ==
  TypeOK /\ \A n \in Notifications : db[n].status = "SENT" => messages[n] > 0 \/ marked[n]

\* A dead letter has used up its attempts, whichever process wrote which part.
DeadIsExhausted == \A n \in Notifications : db[n].dead => db[n].attempts >= MaxAttempts

\* Whatever fails, a notification that was never attempted, or whose next attempt is
\* due, is attempted or settled.
Waits(n) == db[n].status = "PENDING" /\ db[n].attempts = 0
Retries(n) == db[n].status = "PENDING" /\ db[n].next = "past"
DueIsAttempted ==
  \A n \in Notifications : (Waits(n) ~> ~Waits(n)) /\ (Retries(n) ~> ~Retries(n))
=============================================================================
