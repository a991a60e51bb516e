---------------------------- MODULE PostgresSync ----------------------------
(***************************************************************************)
(* Pub/Sub push deliveries into the PostgreSQL job table                   *)
(* (google_pubsub_receiver.py, postgres_sync.py), for one organisation.    *)
(*                                                                         *)
(* A transaction writes nothing that others see until it commits, and a    *)
(* second writer of a unique key waits for the first one's end: `tx` holds *)
(* what a client has written or locked and not committed.  Pub/Sub         *)
(* delivers an event as often as it likes, at least until it is            *)
(* acknowledged.  A job's idempotency key is the event's identifier, and   *)
(* identifies its row.                                                     *)
(***************************************************************************)
EXTENDS Naturals, FiniteSets

CONSTANTS Clients, Events, Payloads, None, MaxCalls, MaxClaims
\* External: what each event carries, the same on every delivery.
CONSTANT PayloadOf

VARIABLES events,   \* google_processed_events
          rows,     \* background_jobs by key: None or [payload, state, attempts]
          tx,       \* client -> its open transaction
          acked,    \* the events some delivery of which was answered with success
          calls,    \* deliveries, enqueues and crashes so far
          claims    \* key -> number of claims that returned the job
vars == <<events, rows, tx, acked, calls, claims>>

Closed == [call |-> "none", key |-> None, payload |-> None, event |-> FALSE, job |-> FALSE]

Queued(p) == [payload |-> p, state |-> "QUEUED", attempts |-> 0]

Init == /\ events = {} /\ rows = [k \in Events |-> None]
        /\ tx = [c \in Clients |-> Closed]
        /\ acked = {} /\ calls = 0 /\ claims = [k \in Events |-> 0]

InCall(c, call) == tx[c].call = call
Close(c) == tx' = [tx EXCEPT ![c] = Closed]
\* Some other client's uncommitted insert of this key makes an insert wait.
EventPending(c, k) == \E d \in Clients \ {c} : tx[d].key = k /\ tx[d].event
JobPending(c, k) == \E d \in Clients \ {c} : tx[d].key = k /\ tx[d].job
Counted == calls < MaxCalls /\ calls' = calls + 1

\* AuthenticatedPubSubReceiver.receive, up to claim_event_and_enqueue's transaction.
Receive(c, e) ==
  /\ Counted /\ InCall(c, "none")
  /\ tx' = [tx EXCEPT ![c] = [Closed EXCEPT !.call = "receive", !.key = e, !.payload = PayloadOf[e]]]
  /\ UNCHANGED <<events, rows, acked, claims>>

InsertEvent_Committed(c) ==
  /\ InCall(c, "receive") /\ tx[c].key \notin events
  /\ ~EventPending(c, tx[c].key)
  /\ tx' = [tx EXCEPT ![c].call = "received", ![c].event = TRUE]
  /\ events' = events \cup {tx[c].key}
  /\ UNCHANGED <<rows, acked, calls, claims>>

\* INSERT INTO google_processed_events ... ON CONFLICT DO NOTHING, a new event.
InsertEvent(c) ==
  /\ InCall(c, "receive") /\ tx[c].key \notin events
  /\ ~EventPending(c, tx[c].key)
  /\ tx' = [tx EXCEPT ![c].call = "received", ![c].event = TRUE]
  /\ UNCHANGED <<events, rows, acked, calls, claims>>

\* The same statement, an event already there: PushResult(True, duplicate).
Duplicate(c) ==
  /\ InCall(c, "receive") /\ tx[c].key \in events
  /\ acked' = acked \cup {tx[c].key}
  /\ Close(c) /\ UNCHANGED <<events, rows, calls, claims>>

\* INSERT INTO background_jobs ... ON CONFLICT DO NOTHING: a row that is there
\* stays, with the payload it was enqueued with.
InsertJob(c) ==
  /\ InCall(c, "received") /\ ~JobPending(c, tx[c].key)
  /\ tx' = [tx EXCEPT ![c].call = "commit", ![c].job = rows[tx[c].key] = None]
  /\ UNCHANGED <<events, rows, acked, calls, claims>>

\* COMMIT, then PushResult(True, ...) acknowledges the delivery.
Commit(c) ==
  /\ InCall(c, "commit")
  /\ events' = events \cup {tx[c].key}
  /\ rows' = IF tx[c].job THEN [rows EXCEPT ![tx[c].key] = Queued(tx[c].payload)] ELSE rows
  /\ acked' = acked \cup {tx[c].key}
  /\ Close(c) /\ UNCHANGED <<calls, claims>>

\* PostgresJobQueue.enqueue: the key is looked up ...
Enqueue(c, k, p) ==
  /\ Counted /\ InCall(c, "none")
  /\ rows[k] = None      \* else the row is returned, or another payload refused
  /\ tx' = [tx EXCEPT ![c] = [Closed EXCEPT !.call = "enqueue", !.key = k, !.payload = p]]
  /\ UNCHANGED <<events, rows, acked, claims>>

\* ... and inserted with no ON CONFLICT: a row that came in between is an error.
EnqueueRow(c) ==
  /\ InCall(c, "enqueue") /\ ~JobPending(c, tx[c].key)
  /\ rows' = IF rows[tx[c].key] = None
               THEN [rows EXCEPT ![tx[c].key] = Queued(tx[c].payload)] ELSE rows
  /\ Close(c) /\ UNCHANGED <<events, acked, calls, claims>>

\* claim_for_tenant: FOR UPDATE SKIP LOCKED passes over a row another client has
\* locked, and looks again at one that changed since the statement began.
Candidates(c) ==
  {k \in Events : /\ rows[k] # None /\ rows[k].state = "QUEUED"
                  /\ ~\E d \in Clients \ {c} : InCall(d, "claim") /\ tx[d].key = k}

Lock(c) ==
  /\ InCall(c, "none")
  /\ \E k \in Candidates(c) :
       tx' = [tx EXCEPT ![c] = [Closed EXCEPT !.call = "claim", !.key = k]]
  /\ UNCHANGED <<events, rows, acked, calls, claims>>

\* ... and its UPDATE and commit: nothing in this class ever ends the job.
Claim(c) ==
  LET k == tx[c].key IN
    /\ InCall(c, "claim") /\ claims[k] < MaxClaims
    /\ rows' = [rows EXCEPT ![k].state = "RUNNING", ![k].attempts = @ + 1]
    /\ claims' = [claims EXCEPT ![k] = @ + 1]
    /\ Close(c) /\ UNCHANGED <<events, acked, calls>>

\* The client dies or loses its connection: its transaction is rolled back.
Crash(c) ==
  /\ Counted /\ ~InCall(c, "none")
  /\ Close(c) /\ UNCHANGED <<events, rows, acked, claims>>

Next == \E c \in Clients :
  \/ \E e \in Events : Receive(c, e) \/ \E p \in Payloads : Enqueue(c, e, p)
  \/ InsertEvent(c) \/ Duplicate(c) \/ InsertJob(c) \/ Commit(c)
  \/ EnqueueRow(c) \/ Lock(c) \/ Claim(c) \/ Crash(c)

Spec == Init /\ [][Next]_vars

-----------------------------------------------------------------------------
\* An event that was acknowledged is recorded, and a recorded event has a job:
\* no crash between the two statements loses an event that Pub/Sub will not
\* deliver again, or whose next delivery is taken for a duplicate.
AcknowledgedIsQueued ==
  acked \subseteq events /\ \A e \in events : rows[e] # None

\* A job is handed to one worker only, however many claim at once.
OneClaim == \A k \in Events : claims[k] <= 1
=============================================================================
