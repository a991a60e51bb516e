------------------------ MODULE NotificationOutboxProofs ------------------------
(***************************************************************************)
(* Theorems about NotificationOutbox, for any notifications, keys, limits, *)
(* processes, threads and stand-alone workers: what the table says as sent *)
(* went out, dead letters have used up their attempts, whatever copies the *)
(* processes have; and, where it holds, that nothing is sent twice or      *)
(* after it was settled.                                                   *)
(*                                                                         *)
(* The inductive invariant says of every copy of a row, in the table, in a *)
(* store, in the hands of a thread or in a transaction, what the           *)
(* properties say of the table: any of them may get there.                 *)
(***************************************************************************)
EXTENDS OutboxDelivery, TLAPS

Rows == [Notifications -> Row]

\* The notifications of which a message left, or an operator said so.
Told == {n \in Notifications : messages[n] > 0 \/ marked[n]}

\* A copy of a row has the status SENT only if the notification is told, and is
\* a dead letter only without attempts left.
Fits(row, n, told) ==
  /\ row.status = "SENT" => n \in told
  /\ row.dead => row.attempts >= MaxAttempts

Sound(rows, told) == rows \in Rows /\ \A n \in Notifications : Fits(rows[n], n, told)

RequestSound(request, told) ==
  /\ request \in Act
  /\ request.at \notin {"idle", "choosing"} => request.n \in Notifications
  /\ Sound(request.own, told)
  /\ request.at = "saving" => Fits(request.row, request.n, told)
  /\ request.at = "left" => request.n \in told

StoresSound(stores, told) == stores \in [Servers -> Rows] /\ \A s \in Servers : Sound(stores[s], told)
RequestsSound(requests, told) ==
  requests \in [Threads -> Act] /\ \A t \in Threads : RequestSound(requests[t], told)
TransactionsSound(transactions, told) ==
  /\ transactions \in [Daemons -> Transaction]
  /\ \A d \in Daemons : Sound(transactions[d].rows, told)

HistoryType ==
  /\ messages \in [Notifications -> 0..2]
  /\ lost \in [Notifications -> BOOLEAN]
  /\ marked \in [Notifications -> BOOLEAN]
  /\ restarts \in Nat

OutboxInv ==
  /\ Sound(db, Told)
  /\ StoresSound(store, Told)
  /\ RequestsSound(act, Told)
  /\ TransactionsSound(daemon, Told)
  /\ HistoryType

-----------------------------------------------------------------------------
(* Rows. *)

LEMMA CountType == ASSUME NEW k \in 0..CountTo PROVE Count(k) \in 0..CountTo /\ Count(k) >= k
  BY BoundsAssumption DEF Count

LEMMA NoRowFits == NoRow \in Row /\ NewRow \in Row /\ NoRows \in Rows
                   /\ \A n, told : Fits(NoRow, n, told) /\ Fits(NewRow, n, told)
  <1>1. NoRow \in Row
    BY BoundsAssumption DEF NoRow, Row
  <1>2. NewRow \in Row /\ NewRow.status = "PENDING" /\ ~NewRow.dead
    <2>1. ~NoRow.dead
      BY DEF NoRow
    <2> QED
      BY <1>1, <2>1 DEF NewRow, Row, Status
  <1>3. NoRow.status = "absent" /\ ~NoRow.dead
    BY DEF NoRow
  <1>4. NoRows \in Rows
    BY <1>1 DEF NoRows, Rows
  <1> QED
    BY <1>1, <1>2, <1>3, <1>4 DEF Fits

LEMMA NoRowsSound == ASSUME NEW told PROVE Sound(NoRows, told)
  BY NoRowFits DEF Sound, NoRows

LEMMA FitsStays ==
  ASSUME NEW row, NEW n, NEW told, NEW more, told \subseteq more, Fits(row, n, told)
  PROVE  Fits(row, n, more)
  BY DEF Fits

LEMMA SoundStays ==
  ASSUME NEW rows, NEW told, NEW more, told \subseteq more, Sound(rows, told)
  PROVE  Sound(rows, more)
  BY DEF Sound, Fits

LEMMA SoundUpdate ==
  ASSUME NEW rows, NEW told, Sound(rows, told), NEW n \in Notifications, NEW row \in Row,
         Fits(row, n, told)
  PROVE  Sound([rows EXCEPT ![n] = row], told)
  BY DEF Sound, Rows

\* An attempt more.
LEMMA CountedFits ==
  ASSUME NEW row \in Row, NEW n, NEW told, Fits(row, n, told)
  PROVE  /\ [row EXCEPT !.attempts = Count(@)] \in Row
         /\ Fits([row EXCEPT !.attempts = Count(@)], n, told)
         /\ [row EXCEPT !.attempts = Count(@)].status = row.status
  <1>1. row.attempts \in 0..CountTo /\ MaxAttempts \in Nat
    BY LimitsAssumption DEF Row
  <1>2. Count(row.attempts) \in 0..CountTo /\ Count(row.attempts) >= row.attempts
    BY <1>1, CountType
  <1> QED
    BY <1>1, <1>2 DEF Row, Fits

LEMMA AgedFits ==
  ASSUME NEW row \in Row, NEW n, NEW told, Fits(row, n, told)
  PROVE  Aged(row) \in Row /\ Fits(Aged(row), n, told) /\ Aged(row).status = row.status
  BY DEF Aged, Row, Fits

LEMMA SettledFits ==
  ASSUME NEW row \in Row, NEW n, NEW told, Fits(row, n, told), NEW status \in Settled,
         status = "SENT" => n \in told
  PROVE  [row EXCEPT !.status = status] \in Row /\ Fits([row EXCEPT !.status = status], n, told)
  BY DEF Row, Fits, Settled, Status

LEMMA SucceededFits ==
  ASSUME NEW row \in Row, NEW n, NEW told, Fits(row, n, told), n \in told, NEW t
  PROVE  Succeeded(t, row) \in Row /\ Fits(Succeeded(t, row), n, told)
  <1>1. CASE act[t].by = "worker"
    BY <1>1 DEF Succeeded, Row, Fits, Status
  <1>2. CASE act[t].by # "worker"
    <2>1. row.attempts \in 0..CountTo /\ MaxAttempts \in Nat
      BY LimitsAssumption DEF Row
    <2>2. Count(row.attempts) \in 0..CountTo /\ Count(row.attempts) >= row.attempts
      BY <2>1, CountType
    <2> DEFINE sent == [row EXCEPT !.status = "SENT", !.attempts = Count(@)]
    <2>3. sent \in Row /\ sent.dead = row.dead /\ sent.attempts = Count(row.attempts)
      BY <2>2 DEF Row, Status
    <2>4. Fits(sent, n, told)
      BY <2>1, <2>2, <2>3 DEF Fits
    <2> QED
      BY <1>2, <2>3, <2>4 DEF Succeeded
  <1> QED
    BY <1>1, <1>2

\* A failed attempt of a worker, in an API process or not.
LEMMA GivenUpFits ==
  ASSUME NEW row \in Row, NEW n, NEW told, Fits(row, n, told)
  PROVE  LET failed == IF GivenUp(row) THEN [row EXCEPT !.next = "none", !.dead = TRUE]
                                       ELSE [row EXCEPT !.next = "later"]
         IN failed \in Row /\ Fits(failed, n, told) /\ failed.status = row.status
  BY DEF GivenUp, Row, Fits

LEMMA FailedFits ==
  ASSUME NEW row \in Row, NEW n, NEW told, Fits(row, n, told), NEW t
  PROVE  Failed(t, row) \in Row /\ Fits(Failed(t, row), n, told) /\ Failed(t, row).status = row.status
  BY CountedFits, GivenUpFits DEF Failed

-----------------------------------------------------------------------------
(* Stores and requests. *)

LEMMA IdleSound == ASSUME NEW told PROVE RequestSound(Idle, told) /\ Idle \in Act
  BY NoRowFits, NoRowsSound DEF RequestSound, Idle, Act, Rows

LEMMA RequestStays ==
  ASSUME NEW request, NEW told, NEW more, told \subseteq more, RequestSound(request, told)
  PROVE  RequestSound(request, more)
  BY SoundStays, FitsStays DEF RequestSound

LEMMA AllStay ==
  ASSUME NEW told, NEW more, told \subseteq more, OutboxInv, Told = told
  PROVE  /\ Sound(db, more) /\ StoresSound(store, more) /\ RequestsSound(act, more)
         /\ TransactionsSound(daemon, more)
  BY SoundStays, RequestStays DEF OutboxInv, StoresSound, RequestsSound, TransactionsSound

LEMMA KeptSound ==
  ASSUME NEW told, StoresSound(store, told), NEW s \in Servers, NEW n \in Notifications,
         NEW row \in Row, Fits(row, n, told), Keep(s, n, row)
  PROVE  StoresSound(store', told)
  <1>1. Sound([store[s] EXCEPT ![n] = row], told)
    BY SoundUpdate DEF StoresSound
  <1>2. store' = [store EXCEPT ![s] = [store[s] EXCEPT ![n] = row]]
    BY DEF Keep, StoresSound
  <1> QED
    BY <1>1, <1>2 DEF StoresSound, Sound

LEMMA RequestUpdate ==
  ASSUME NEW told, RequestsSound(act, told), NEW t \in Threads, NEW next, RequestSound(next, told),
         act' = [act EXCEPT ![t] = next]
  PROVE  RequestsSound(act', told)
  BY DEF RequestsSound, RequestSound

LEMMA SeenSound ==
  ASSUME NEW told, Sound(db, told), StoresSound(store, told), NEW s \in Servers,
         NEW n \in Notifications
  PROVE  Seen(s, n) \in Row /\ Fits(Seen(s, n), n, told)
  BY DEF Seen, Sound, StoresSound, Rows

LEMMA ObjectSound ==
  ASSUME NEW told, StoresSound(store, told), RequestsSound(act, told), NEW t \in Threads,
         NEW n \in Notifications
  PROVE  Object(t, n) \in Row /\ Fits(Object(t, n), n, told)
  BY ServersAssumption DEF Object, RequestsSound, RequestSound, Sound, StoresSound, Rows

LEMMA ChangedSound ==
  ASSUME NEW told, StoresSound(store, told), RequestsSound(act, told), NEW t \in Threads,
         NEW n \in Notifications, NEW row \in Row, Fits(row, n, told), NEW next,
         RequestSound(next, told), Changed(t, n, row, next)
  PROVE  StoresSound(store', told) /\ RequestsSound(act', told)
  <1>1. CASE Present(act[t].own[n])
    <2> DEFINE own == [next.own EXCEPT ![n] = row]
    <2>1. Sound(own, told)
      BY SoundUpdate DEF RequestSound
    <2>2. RequestSound([next EXCEPT !.own = own], told)
      BY <2>1 DEF RequestSound, Act, Sound, Rows
    <2>3. UNCHANGED store /\ act' = [act EXCEPT ![t] = [next EXCEPT !.own = own]]
      BY <1>1 DEF Changed, RequestSound, Act
    <2> HIDE DEF own
    <2> QED
      BY <2>2, <2>3, RequestUpdate
  <1>2. CASE ~Present(act[t].own[n])
    BY <1>2, KeptSound, RequestUpdate, ServersAssumption DEF Changed
  <1> QED
    BY <1>1, <1>2

LEMMA FetchedSound ==
  ASSUME NEW told, Sound(db, told), StoresSound(store, told), NEW s \in Servers, NEW S
  PROVE  Sound(Fetched(s, S), told)
  BY DEF Fetched, Sound, StoresSound, Rows

LEMMA DetachedSound ==
  ASSUME NEW told, StoresSound(store, told), RequestsSound(act, told), NEW u \in Threads, NEW S
  PROVE  RequestSound(Detached(u, S), told)
  <1> DEFINE own == [n \in Notifications |->
    IF /\ db[n].status \in S /\ ~Present(act[u].own[n])
       /\ n \in act[u].todo \/ (n = act[u].n /\ act[u].at \in {"sending", "left", "failed"})
      THEN store[ServerOf[u]][n] ELSE act[u].own[n]]
  <1>1. Sound(own, told)
    BY ServersAssumption DEF RequestsSound, RequestSound, StoresSound, Sound, Rows
  <1>2. Detached(u, S) = [act[u] EXCEPT !.own = own] /\ RequestSound(act[u], told)
    BY DEF Detached, RequestsSound
  <1> HIDE DEF own
  <1> QED
    BY <1>1, <1>2 DEF RequestSound, Act, Sound, Rows

LEMMA FetchSound ==
  ASSUME NEW told, Sound(db, told), StoresSound(store, told), RequestsSound(act, told),
         NEW t \in Threads, NEW S, NEW next, RequestSound(next, told), Fetch(t, S, next)
  PROVE  StoresSound(store', told) /\ RequestsSound(act', told)
  <1>1. StoresSound(store', told)
    BY FetchedSound, ServersAssumption DEF Fetch, StoresSound, Sound
  <1>2. ASSUME NEW u \in Threads
        PROVE  RequestSound(act'[u], told) /\ act'[u] \in Act
    <2>1. act'[u] \in {next, Detached(u, S), act[u]}
      BY DEF Fetch
    <2> QED
      BY <2>1, DetachedSound DEF RequestsSound, RequestSound
  <1> QED
    BY <1>1, <1>2 DEF Fetch, RequestsSound

LEMMA SavingSound ==
  ASSUME NEW told, RequestsSound(act, told), NEW t \in Threads, NEW n \in Notifications,
         NEW row \in Row, Fits(row, n, told), NEW whole \in BOOLEAN
  PROVE  RequestSound(Saving(t, n, row, whole), told)
  <1>1. RequestSound(act[t], told) /\ act[t] \in Act
    BY DEF RequestsSound
  <1>2. /\ Saving(t, n, row, whole) \in Act
        /\ Saving(t, n, row, whole).at = "saving" /\ Saving(t, n, row, whole).n = n
        /\ Saving(t, n, row, whole).row = row /\ Saving(t, n, row, whole).own = act[t].own
    BY <1>1 DEF Saving, Act
  <1> QED
    BY <1>1, <1>2 DEF RequestSound

-----------------------------------------------------------------------------
(* Steps. *)

\* A step that sends nothing and settles nothing by hand.
LEMMA QuietHistory ==
  ASSUME OutboxInv, UNCHANGED history
  PROVE  Told' = Told /\ HistoryType'
  BY DEF OutboxInv, HistoryType, history, Told

LEMMA QueueSound ==
  ASSUME OutboxInv, NEW t \in Threads, NEW n \in Notifications, Queue(t, n)
  PROVE  OutboxInv'
  <1>1. Told' = Told /\ HistoryType'
    BY QuietHistory DEF Queue
  <1>2. StoresSound(store', Told)
    BY KeptSound, NoRowFits, ServersAssumption DEF Queue, OutboxInv
  <1>3. Sound(db', Told)
    <2>1. Sound([db EXCEPT ![n] = NewRow], Told)
      BY SoundUpdate, NoRowFits DEF OutboxInv
    <2> QED
      BY <2>1 DEF Queue, OutboxInv
  <1> QED
    BY <1>1, <1>2, <1>3 DEF Queue, OutboxInv

LEMMA ListSound ==
  ASSUME OutboxInv, NEW t \in Threads, List(t)
  PROVE  OutboxInv'
  <1>1. Told' = Told /\ HistoryType'
    BY QuietHistory DEF List
  <1>2. PICK S : Fetch(t, S, Idle)
    BY DEF List
  <1>3. StoresSound(store', Told) /\ RequestsSound(act', Told)
    BY <1>2, FetchSound, IdleSound DEF OutboxInv
  <1> QED
    BY <1>1, <1>3 DEF List, OutboxInv

LEMMA SettleSound ==
  ASSUME OutboxInv, NEW t \in Threads, NEW n \in Notifications, Cancel(t, n) \/ MarkSent(t, n)
  PROVE  OutboxInv'
  <1> DEFINE seen == Seen(ServerOf[t], n)
  <1>1. seen \in Row /\ Fits(seen, n, Told) /\ ServerOf[t] \in Servers
    BY SeenSound, ServersAssumption DEF OutboxInv
  <1>2. Told \subseteq Told' /\ HistoryType' /\ (MarkSent(t, n) => n \in Told')
    <2>1. MarkSent(t, n) => n \in Told'
      BY DEF MarkSent, OutboxInv, HistoryType, Told
    <2>2. CASE Cancel(t, n)
      BY <2>1, <2>2, QuietHistory DEF Cancel
    <2>3. CASE MarkSent(t, n)
      BY <2>1, <2>3 DEF MarkSent, OutboxInv, HistoryType, Told
    <2> QED
      BY <2>2, <2>3
  <1>3. PICK status \in Settled :
          /\ status = "SENT" => n \in Told'
          /\ Keep(ServerOf[t], n, [seen EXCEPT !.status = status])
          /\ act' = [act EXCEPT ![t] = Saving(t, n, [seen EXCEPT !.status = status], TRUE)]
          /\ UNCHANGED <<db, daemon>>
    <2>1. CASE Cancel(t, n)
      BY <2>1 DEF Cancel, Settled
    <2>2. CASE MarkSent(t, n)
      BY <1>2, <2>2 DEF MarkSent, Settled
    <2> QED
      BY <2>1, <2>2
  <1> DEFINE row == [seen EXCEPT !.status = status]
             told == Told'
  <1>4. /\ Sound(db, told) /\ StoresSound(store, told) /\ RequestsSound(act, told)
        /\ TransactionsSound(daemon, told)
    BY <1>2, AllStay
  <1>5. Fits(seen, n, told)
    BY <1>1, <1>2, FitsStays
  <1>6. row \in Row /\ Fits(row, n, told)
    BY <1>1, <1>3, <1>5, SettledFits
  <1> HIDE DEF row
  <1>7. StoresSound(store', told)
    BY <1>1, <1>3, <1>4, <1>6, KeptSound DEF row
  <1>8. RequestsSound(act', told)
    <2>1. RequestSound(Saving(t, n, row, TRUE), told)
      BY <1>4, <1>6, SavingSound
    <2> QED
      BY <1>3, <1>4, <2>1, RequestUpdate DEF row
  <1> QED
    BY <1>2, <1>3, <1>4, <1>7, <1>8 DEF OutboxInv

LEMMA DeliverSound ==
  ASSUME OutboxInv, NEW t \in Threads, NEW n \in Notifications, Deliver(t, n)
  PROVE  OutboxInv'
  <1> DEFINE row == Seen(ServerOf[t], n)
             at == IF Deliverable(row) THEN "sending" ELSE "failed"
             next == [act[t] EXCEPT !.by = "request", !.n = n, !.at = at]
  <1>1. Told' = Told /\ HistoryType'
    BY QuietHistory DEF Deliver
  <1>2. row \in Row /\ Fits(row, n, Told) /\ ServerOf[t] \in Servers
    BY SeenSound, ServersAssumption DEF OutboxInv
  <1>3. StoresSound(store', Told)
    BY <1>2, KeptSound DEF Deliver, OutboxInv
  <1>4. RequestSound(act[t], Told) /\ act[t] \in Act
    BY DEF OutboxInv, RequestsSound
  <1>5. act' = [act EXCEPT ![t] = next]
    BY DEF Deliver, OutboxInv, RequestsSound
  <1>6. at \in {"sending", "failed"}
    OBVIOUS
  <1> HIDE DEF at
  <1>7. next \in Act /\ next.at = at /\ next.n = n /\ next.own = act[t].own
    BY <1>4, <1>6 DEF Act
  <1>8. RequestSound(next, Told)
    BY <1>4, <1>6, <1>7 DEF RequestSound
  <1>9. RequestsSound(act', Told)
    BY <1>5, <1>8, RequestUpdate DEF OutboxInv
  <1> QED
    BY <1>1, <1>3, <1>9 DEF Deliver, OutboxInv

LEMMA RunWorkerSound ==
  ASSUME OutboxInv, NEW t \in Threads, RunWorker(t)
  PROVE  OutboxInv'
  <1>1. Told' = Told /\ HistoryType'
    BY QuietHistory DEF RunWorker
  <1>2. PICK todo \in SUBSET Notifications :
          Fetch(t, {"PENDING"}, [Idle EXCEPT !.at = "choosing", !.by = "worker", !.todo = todo])
    <2> DEFINE fetched == Fetched(ServerOf[t], {"PENDING"})
               pending == {n \in Notifications : fetched[n].status = "PENDING"}
    <2>1. PICK chosen \in SUBSET pending :
            Fetch(t, {"PENDING"}, [Idle EXCEPT !.at = "choosing", !.by = "worker",
                                               !.todo = {n \in chosen : Due(fetched[n])}])
      BY DEF RunWorker
    <2>2. {n \in chosen : Due(fetched[n])} \in SUBSET Notifications
      OBVIOUS
    <2> QED
      BY <2>1, <2>2
  <1> DEFINE next == [Idle EXCEPT !.at = "choosing", !.by = "worker", !.todo = todo]
  <1>3. next \in Act /\ next.at = "choosing" /\ next.own = Idle.own
    BY IdleSound DEF Act
  <1>4. RequestSound(next, Told)
    BY <1>3, IdleSound DEF RequestSound
  <1>5. StoresSound(store', Told) /\ RequestsSound(act', Told)
    BY <1>2, <1>4, FetchSound DEF OutboxInv
  <1> QED
    BY <1>1, <1>5 DEF RunWorker, OutboxInv

LEMMA NextOfBatchSound ==
  ASSUME OutboxInv, NEW t \in Threads, NEW n \in Notifications, NextOfBatch(t, n)
  PROVE  OutboxInv'
  <1> DEFINE row == Object(t, n)
             counted == [row EXCEPT !.attempts = Count(@)]
             at == IF Deliverable(row) THEN "sending" ELSE "failed"
             next == [act[t] EXCEPT !.n = n, !.todo = @ \ {n}, !.at = at]
  <1>1. Told' = Told /\ HistoryType'
    BY QuietHistory DEF NextOfBatch
  <1>2. row \in Row /\ Fits(row, n, Told)
    BY ObjectSound DEF OutboxInv
  <1>3. counted \in Row /\ Fits(counted, n, Told)
    BY <1>2, CountedFits
  <1>4. RequestSound(act[t], Told) /\ act[t] \in Act
    BY DEF OutboxInv, RequestsSound
  <1>5. Changed(t, n, counted, next)
    BY DEF NextOfBatch
  <1>6. at \in {"sending", "failed"}
    OBVIOUS
  <1> HIDE DEF at, counted
  <1>7. next \in Act /\ next.at = at /\ next.n = n /\ next.own = act[t].own
    BY <1>4, <1>6 DEF Act
  <1>8. RequestSound(next, Told)
    BY <1>4, <1>6, <1>7 DEF RequestSound
  <1> HIDE DEF next
  <1>9. StoresSound(store', Told) /\ RequestsSound(act', Told)
    BY <1>3, <1>5, <1>8, ChangedSound DEF OutboxInv
  <1> QED
    BY <1>1, <1>9 DEF NextOfBatch, OutboxInv

LEMMA BatchEndsSound ==
  ASSUME OutboxInv, NEW t \in Threads, BatchEnds(t)
  PROVE  OutboxInv'
  <1>1. Told' = Told /\ HistoryType'
    BY QuietHistory DEF BatchEnds
  <1>2. RequestsSound(act', Told)
    BY IdleSound, RequestUpdate DEF BatchEnds, OutboxInv
  <1> QED
    BY <1>1, <1>2 DEF BatchEnds, OutboxInv

LEMMA SentType ==
  ASSUME HistoryType, NEW n \in Notifications, Sent(n)
  PROVE  messages' \in [Notifications -> 0..2] /\ messages'[n] > 0
         /\ \A m \in Notifications : messages[m] > 0 => messages'[m] > 0
  BY DEF Sent, HistoryType

LEMMA SendEndsSound ==
  ASSUME OutboxInv, NEW t \in Threads, SendEnds(t)
  PROVE  OutboxInv'
  <1> DEFINE n == act[t].n
  <1>1. RequestSound(act[t], Told) /\ act[t] \in Act /\ n \in Notifications
    BY DEF OutboxInv, RequestsSound, RequestSound, SendEnds
  <1>2. PICK left \in BOOLEAN, outcome \in {"left", "failed", "idle"} :
          /\ outcome = "left" => left
          /\ outcome = "idle" => act[t].by = "request"
          /\ IF left THEN Sent(n) ELSE UNCHANGED messages
          /\ lost' = [lost EXCEPT ![n] = @ \/ (left /\ outcome # "left")]
          /\ act' = [act EXCEPT ![t] = IF outcome = "idle" THEN Idle ELSE [@ EXCEPT !.at = outcome]]
    BY DEF SendEnds
  <1>3. UNCHANGED <<db, store, daemon, marked, restarts>>
    BY DEF SendEnds
  <1>4. Told \subseteq Told' /\ (left => n \in Told')
    BY <1>1, <1>2, <1>3, SentType DEF OutboxInv, Told
  <1>5. HistoryType'
    BY <1>1, <1>2, <1>3, SentType DEF OutboxInv, HistoryType
  <1> DEFINE told == Told'
             next == IF outcome = "idle" THEN Idle ELSE [act[t] EXCEPT !.at = outcome]
  <1>6. /\ Sound(db, told) /\ StoresSound(store, told) /\ RequestsSound(act, told)
        /\ TransactionsSound(daemon, told)
    BY <1>4, AllStay
  <1>7. RequestSound(next, told)
    <2>1. CASE outcome = "idle"
      BY <2>1, IdleSound
    <2>2. CASE outcome # "idle"
      <3>1. /\ next \in Act /\ next.at = outcome /\ next.n = n /\ next.own = act[t].own
        BY <1>1, <2>2 DEF Act
      <3>2. RequestSound(act[t], told)
        BY <1>6 DEF RequestsSound
      <3> QED
        BY <1>1, <1>2, <1>4, <3>1, <3>2 DEF RequestSound
    <2> QED
      BY <2>1, <2>2
  <1>8. act' = [act EXCEPT ![t] = next]
    BY <1>2 DEF OutboxInv, RequestsSound
  <1> HIDE DEF next
  <1>9. RequestsSound(act', told)
    BY <1>6, <1>7, <1>8, RequestUpdate
  <1> QED
    BY <1>3, <1>5, <1>6, <1>9 DEF OutboxInv

LEMMA NoteSound ==
  ASSUME OutboxInv, NEW t \in Threads, Note(t)
  PROVE  OutboxInv'
  <1> DEFINE n == act[t].n
             object == Object(t, n)
             row == IF act[t].at = "left" THEN Succeeded(t, object) ELSE Failed(t, object)
             whole == act[t].at = "left" \/ act[t].by = "worker"
             next == Saving(t, n, row, whole)
  <1>1. Told' = Told /\ HistoryType'
    BY QuietHistory DEF Note
  <1>2. RequestSound(act[t], Told) /\ n \in Notifications /\ (act[t].at = "left" => n \in Told)
    BY DEF OutboxInv, RequestsSound, RequestSound, Note
  <1>3. object \in Row /\ Fits(object, n, Told)
    BY <1>2, ObjectSound DEF OutboxInv
  <1>4. row \in Row /\ Fits(row, n, Told)
    BY <1>2, <1>3, SucceededFits, FailedFits
  <1>5. Changed(t, n, row, next) /\ whole \in BOOLEAN
    BY DEF Note
  <1> HIDE DEF row, whole
  <1>6. RequestSound(next, Told)
    BY <1>2, <1>4, <1>5, SavingSound DEF OutboxInv
  <1> HIDE DEF next
  <1>7. StoresSound(store', Told) /\ RequestsSound(act', Told)
    BY <1>2, <1>4, <1>5, <1>6, ChangedSound DEF OutboxInv
  <1> QED
    BY <1>1, <1>7 DEF Note, OutboxInv

LEMMA SaveSound ==
  ASSUME OutboxInv, NEW t \in Threads, Save(t)
  PROVE  OutboxInv'
  <1> DEFINE n == act[t].n
             row == act[t].row
             next == IF act[t].by = "worker"
                       THEN [act[t] EXCEPT !.at = "choosing", !.n = None, !.row = NoRow,
                                           !.whole = FALSE, !.own[n] = NoRow]
                       ELSE Idle
  <1>1. Told' = Told /\ HistoryType'
    BY QuietHistory DEF Save
  <1>2. /\ RequestSound(act[t], Told) /\ act[t] \in Act /\ n \in Notifications /\ row \in Row
        /\ Fits(row, n, Told)
    BY DEF OutboxInv, RequestsSound, RequestSound, Save, Act
  <1>3. Sound(db', Told)
    <2>1. db[n] \in Row /\ Fits(db[n], n, Told)
      BY <1>2 DEF OutboxInv, Sound, Rows
    <2>2. /\ [row EXCEPT !.status = db[n].status] \in Row
          /\ Fits([row EXCEPT !.status = db[n].status], n, Told)
      BY <1>2, <2>1 DEF Row, Fits
    <2>3. \/ db' = db \/ db' = [db EXCEPT ![n] = row]
          \/ db' = [db EXCEPT ![n] = [row EXCEPT !.status = db[n].status]]
      BY DEF Save, Written
    <2> QED
      BY <1>2, <2>2, <2>3, SoundUpdate DEF OutboxInv
  <1>4. RequestSound(next, Told)
    <2>1. CASE act[t].by = "worker"
      <3> DEFINE own == [act[t].own EXCEPT ![n] = NoRow]
      <3>1. Sound(own, Told)
        BY <1>2, NoRowFits, SoundUpdate DEF RequestSound
      <3>2. next = [act[t] EXCEPT !.at = "choosing", !.n = None, !.row = NoRow, !.whole = FALSE,
                                  !.own = own]
        BY <1>2, <2>1 DEF Act
      <3> HIDE DEF own, next
      <3>3. next \in Act /\ next.at = "choosing" /\ next.own = own
        BY <1>2, <3>1, <3>2, NoRowFits DEF Act, Sound, Rows
      <3> QED
        BY <3>1, <3>3 DEF RequestSound
    <2>2. CASE act[t].by # "worker"
      BY <2>2, IdleSound
    <2> QED
      BY <2>1, <2>2
  <1>5. act' = [act EXCEPT ![t] = next]
    BY DEF Save, OutboxInv, RequestsSound
  <1> HIDE DEF next
  <1>6. RequestsSound(act', Told)
    BY <1>4, <1>5, RequestUpdate DEF OutboxInv
  <1> QED
    BY <1>1, <1>3, <1>6 DEF Save, OutboxInv

LEMMA RestartSound ==
  ASSUME OutboxInv, NEW s \in Servers, Restart(s)
  PROVE  OutboxInv'
  <1>1. Told' = Told /\ HistoryType'
    BY DEF Restart, OutboxInv, HistoryType, Told
  <1>2. StoresSound(store', Told)
    BY NoRowsSound, NoRowFits DEF Restart, OutboxInv, StoresSound
  <1>3. RequestsSound(act', Told)
    BY IdleSound DEF Restart, OutboxInv, RequestsSound
  <1> QED
    BY <1>1, <1>2, <1>3 DEF Restart, OutboxInv

LEMMA TransactionUpdate ==
  ASSUME NEW told, TransactionsSound(daemon, told), NEW d \in Daemons,
         NEW next \in Transaction, Sound(next.rows, told), daemon' = [daemon EXCEPT ![d] = next]
  PROVE  TransactionsSound(daemon', told)
  BY DEF TransactionsSound

LEMMA ClosedSound == ASSUME NEW told PROVE Closed \in Transaction /\ Sound(Closed.rows, told)
  BY NoRowsSound, NoRowFits DEF Closed, Transaction, Rows

LEMMA SelectSound ==
  ASSUME OutboxInv, NEW d \in Daemons, Select(d)
  PROVE  OutboxInv'
  <1>1. Told' = Told /\ HistoryType'
    BY QuietHistory DEF Select
  <1>2. PICK chosen \in SUBSET Notifications : daemon' = [daemon EXCEPT ![d].todo = chosen]
    <2> DEFINE pending == {n \in Notifications : db[n].status = "PENDING" /\ Due(db[n]) /\ ~Locked(n)}
    <2>1. \E chosen \in SUBSET pending : daemon' = [daemon EXCEPT ![d].todo = chosen]
      BY DEF Select
    <2> QED
      BY <2>1
  <1> DEFINE next == [daemon[d] EXCEPT !.todo = chosen]
  <1>3. daemon[d] \in Transaction /\ Sound(daemon[d].rows, Told)
    BY DEF OutboxInv, TransactionsSound
  <1>4. next \in Transaction /\ next.rows = daemon[d].rows
    BY <1>3 DEF Transaction
  <1>5. daemon' = [daemon EXCEPT ![d] = next]
    BY <1>2 DEF OutboxInv, TransactionsSound
  <1>6. TransactionsSound(daemon', Told)
    BY <1>3, <1>4, <1>5, TransactionUpdate DEF OutboxInv
  <1> QED
    BY <1>1, <1>6 DEF Select, OutboxInv

\* The row an attempt of a stand-alone worker leaves in the transaction.
LEMMA AttemptedFits ==
  ASSUME NEW row \in Row, NEW n, NEW told, Fits(row, n, told), NEW ok \in BOOLEAN,
         ok => n \in told
  PROVE  LET tried == [row EXCEPT !.attempts = Count(@)]
             failed == IF GivenUp(tried) THEN [tried EXCEPT !.next = "none", !.dead = TRUE]
                                         ELSE [tried EXCEPT !.next = "later"]
             done == IF ok THEN [tried EXCEPT !.status = "SENT", !.next = "none"] ELSE failed
         IN done \in Row /\ Fits(done, n, told)
  <1> DEFINE tried == [row EXCEPT !.attempts = Count(@)]
             failed == IF GivenUp(tried) THEN [tried EXCEPT !.next = "none", !.dead = TRUE]
                                         ELSE [tried EXCEPT !.next = "later"]
             sent == [tried EXCEPT !.status = "SENT", !.next = "none"]
  <1>1. tried \in Row /\ Fits(tried, n, told)
    BY CountedFits
  <1> HIDE DEF tried
  <1>2. failed \in Row /\ Fits(failed, n, told)
    BY <1>1, GivenUpFits
  <1>3. ok => sent \in Row /\ Fits(sent, n, told)
    BY <1>1 DEF Row, Fits, Status
  <1> QED
    BY <1>2, <1>3 DEF tried

LEMMA AttemptSound ==
  ASSUME OutboxInv, NEW d \in Daemons, NEW n \in Notifications, Attempt(d, n)
  PROVE  OutboxInv'
  <1> DEFINE tried == [db[n] EXCEPT !.attempts = Count(@)]
             failed == IF GivenUp(tried) THEN [tried EXCEPT !.next = "none", !.dead = TRUE]
                                         ELSE [tried EXCEPT !.next = "later"]
             Done(ok) == IF ok THEN [tried EXCEPT !.status = "SENT", !.next = "none"] ELSE failed
             After(row) == [todo |-> daemon[d].todo \ {n}, done |-> daemon[d].done \cup {n},
                            rows |-> [daemon[d].rows EXCEPT ![n] = row]]
  <1>1. PICK left \in BOOLEAN, ok \in BOOLEAN :
          /\ ok => left
          /\ IF left THEN Sent(n) ELSE UNCHANGED messages
          /\ lost' = [lost EXCEPT ![n] = @ \/ (left /\ ~ok)]
          /\ daemon' = [daemon EXCEPT ![d] = After(Done(ok))]
    BY DEF Attempt, OutboxInv, TransactionsSound
  <1>2. UNCHANGED <<db, store, act, marked, restarts>>
    BY DEF Attempt
  <1>3. Told \subseteq Told' /\ (left => n \in Told')
    BY <1>1, <1>2, SentType DEF OutboxInv, Told
  <1>4. HistoryType'
    BY <1>1, <1>2, SentType DEF OutboxInv, HistoryType
  <1> DEFINE told == Told'
             row == Done(ok)
  <1>5. /\ Sound(db, told) /\ StoresSound(store, told) /\ RequestsSound(act, told)
        /\ TransactionsSound(daemon, told)
    BY <1>3, AllStay
  <1>6. db[n] \in Row /\ Fits(db[n], n, told)
    BY <1>5 DEF Sound, Rows
  <1>7. row \in Row /\ Fits(row, n, told)
    BY <1>1, <1>3, <1>6, AttemptedFits
  <1>8. daemon' = [daemon EXCEPT ![d] = After(row)]
    BY <1>1
  <1> HIDE DEF row
  <1>9. Sound(After(row).rows, told) /\ After(row) \in Transaction
    <2>1. daemon[d] \in Transaction /\ Sound(daemon[d].rows, told)
      BY <1>5 DEF TransactionsSound
    <2>2. Sound([daemon[d].rows EXCEPT ![n] = row], told)
      BY <1>7, <2>1, SoundUpdate
    <2> QED
      BY <2>1, <2>2 DEF Transaction, Sound, Rows
  <1>10. TransactionsSound(daemon', told)
    BY <1>5, <1>8, <1>9, TransactionUpdate
  <1> QED
    BY <1>2, <1>4, <1>5, <1>10 DEF OutboxInv

LEMMA CommitSound ==
  ASSUME OutboxInv, NEW d \in Daemons, Commit(d)
  PROVE  OutboxInv'
  <1>1. Told' = Told /\ HistoryType'
    BY QuietHistory DEF Commit
  <1>2. Sound(db', Told)
    <2>1. Sound(db, Told) /\ Sound(daemon[d].rows, Told)
      BY DEF OutboxInv, TransactionsSound
    <2> QED
      BY <2>1 DEF Commit, Sound, Rows
  <1>3. TransactionsSound(daemon', Told)
    BY ClosedSound, TransactionUpdate DEF Commit, OutboxInv
  <1> QED
    BY <1>1, <1>2, <1>3 DEF Commit, OutboxInv

LEMMA RollbackSound ==
  ASSUME OutboxInv, NEW d \in Daemons, Rollback(d)
  PROVE  OutboxInv'
  <1>1. Told' = Told /\ HistoryType'
    BY DEF Rollback, OutboxInv, HistoryType, Told
  <1>2. TransactionsSound(daemon', Told)
    BY ClosedSound, TransactionUpdate DEF Rollback, OutboxInv
  <1> QED
    BY <1>1, <1>2 DEF Rollback, OutboxInv

\* Time passes for every copy of a row.
LEMMA AgedSound ==
  ASSUME NEW rows, NEW told, Sound(rows, told), NEW n \in Notifications
  PROVE  Sound([rows EXCEPT ![n] = Aged(@)], told)
  <1>1. rows[n] \in Row /\ Fits(rows[n], n, told)
    BY DEF Sound, Rows
  <1>2. Aged(rows[n]) \in Row /\ Fits(Aged(rows[n]), n, told)
    BY <1>1, AgedFits
  <1> QED
    BY <1>2, SoundUpdate

LEMMA DueSound ==
  ASSUME OutboxInv, NEW n \in Notifications, NextAttemptIsDue(n)
  PROVE  OutboxInv'
  <1>1. Told' = Told /\ HistoryType'
    BY QuietHistory DEF NextAttemptIsDue
  <1>2. Sound(db', Told)
    BY AgedSound DEF NextAttemptIsDue, OutboxInv
  <1>3. StoresSound(store', Told)
    <2>1. ASSUME NEW s \in Servers PROVE Sound([store[s] EXCEPT ![n] = Aged(@)], Told)
      BY AgedSound DEF OutboxInv, StoresSound
    <2> QED
      BY <2>1 DEF NextAttemptIsDue, StoresSound, Sound
  <1>4. RequestsSound(act', Told)
    <2>1. ASSUME NEW t \in Threads PROVE RequestSound(act'[t], Told) /\ act'[t] \in Act
      <3> DEFINE own == [act[t].own EXCEPT ![n] = Aged(@)]
                 row == IF act[t].n = n THEN Aged(act[t].row) ELSE act[t].row
      <3>1. RequestSound(act[t], Told) /\ act[t] \in Act /\ act[t].row \in Row
        BY DEF OutboxInv, RequestsSound, Act
      <3>2. Sound(own, Told)
        BY <3>1, AgedSound DEF RequestSound
      <3>3. row \in Row /\ (act[t].at = "saving" => Fits(row, act[t].n, Told))
        <4>1. Aged(act[t].row) \in Row
          BY <3>1 DEF Aged, Row
        <4>2. act[t].at = "saving" => Fits(Aged(act[t].row), act[t].n, Told)
          BY <3>1, AgedFits DEF RequestSound
        <4> QED
          BY <3>1, <4>1, <4>2 DEF RequestSound
      <3>4. act'[t] = [act[t] EXCEPT !.row = row, !.own = own]
        BY <3>1 DEF NextAttemptIsDue, Act
      <3> HIDE DEF own, row
      <3>5. /\ act'[t] \in Act /\ act'[t].at = act[t].at /\ act'[t].n = act[t].n
            /\ act'[t].row = row /\ act'[t].own = own
        BY <3>1, <3>2, <3>3, <3>4 DEF Act, Sound, Rows
      <3> QED
        BY <3>1, <3>2, <3>3, <3>5 DEF RequestSound
    <2>2. DOMAIN act' = Threads /\ act' = [t \in Threads |-> act'[t]]
      BY DEF NextAttemptIsDue
    <2> QED
      BY <2>1, <2>2 DEF RequestsSound
  <1>5. TransactionsSound(daemon', Told)
    <2>1. ASSUME NEW d \in Daemons
          PROVE  daemon'[d] \in Transaction /\ Sound(daemon'[d].rows, Told)
      <3> DEFINE rows == [daemon[d].rows EXCEPT ![n] = Aged(@)]
      <3>1. daemon[d] \in Transaction
        BY DEF OutboxInv, TransactionsSound
      <3>2. Sound(rows, Told)
        BY AgedSound DEF OutboxInv, TransactionsSound
      <3>3. daemon'[d] = [daemon[d] EXCEPT !.rows = rows]
        BY <3>1 DEF NextAttemptIsDue, Transaction
      <3> HIDE DEF rows
      <3> QED
        BY <3>1, <3>2, <3>3 DEF Transaction, Sound, Rows
    <2>2. daemon' = [d \in Daemons |-> daemon'[d]]
      BY DEF NextAttemptIsDue
    <2> QED
      BY <2>1, <2>2 DEF TransactionsSound
  <1> QED
    BY <1>1, <1>2, <1>3, <1>4, <1>5 DEF OutboxInv

LEMMA OutboxInvInitially == Init => OutboxInv
  <1> SUFFICES ASSUME Init PROVE OutboxInv
    OBVIOUS
  <1>1. HistoryType
    BY DEF Init, HistoryType
  <1>2. Sound(db, Told)
    BY NoRowsSound DEF Init
  <1>3. StoresSound(store, Told)
    BY NoRowsSound, NoRowFits DEF Init, StoresSound
  <1>4. RequestsSound(act, Told)
    BY IdleSound DEF Init, RequestsSound
  <1>5. TransactionsSound(daemon, Told)
    BY ClosedSound DEF Init, TransactionsSound
  <1> QED
    BY <1>1, <1>2, <1>3, <1>4, <1>5 DEF OutboxInv

LEMMA OutboxInvInductive == OutboxInv /\ [Next]_vars => OutboxInv'
  <1> SUFFICES ASSUME OutboxInv, [Next]_vars PROVE OutboxInv'
    OBVIOUS
  <1>1. ASSUME NEW t \in Threads, ThreadStep(t) PROVE OutboxInv'
    BY <1>1, ListSound, RunWorkerSound, SendEndsSound, NoteSound, SaveSound, BatchEndsSound,
      NextOfBatchSound, QueueSound, SettleSound, DeliverSound DEF ThreadStep, Progress
  <1>2. ASSUME NEW s \in Servers, Restart(s) PROVE OutboxInv'
    BY <1>2, RestartSound
  <1>3. ASSUME NEW d \in Daemons, DaemonStep(d) PROVE OutboxInv'
    BY <1>3, SelectSound, CommitSound, RollbackSound, AttemptSound DEF DaemonStep
  <1>4. ASSUME NEW n \in Notifications, NextAttemptIsDue(n) PROVE OutboxInv'
    BY <1>4, DueSound
  <1>5. CASE UNCHANGED vars
    BY <1>5 DEF vars, OutboxInv, HistoryType, Told, history
  <1> QED
    BY <1>1, <1>2, <1>3, <1>4, <1>5 DEF Next

LEMMA OutboxInvType == OutboxInv => TypeOK
  BY DEF OutboxInv, TypeOK, Sound, StoresSound, RequestsSound, RequestSound, TransactionsSound,
    HistoryType, Rows

\* Every copy of a notification's row, wherever it is on its way, says SENT only
\* of what was told, and is dead only without attempts left.
THEOREM CopiesAreSound == Spec => []OutboxInv
  BY OutboxInvInitially, OutboxInvInductive, PTL DEF Spec

\* update_notification, record_notification_attempt and the stand-alone worker's
\* UPDATE overwrite each other with what they saw: SENT is true nevertheless.
THEOREM SentStandsTrue == Spec => []SentIsTrue
  <1>1. OutboxInv => SentIsTrue
    <2>1. OutboxInv => \A n \in Notifications : Fits(db[n], n, Told)
      BY DEF OutboxInv, Sound
    <2> QED
      BY <2>1, OutboxInvType DEF SentIsTrue, Fits, Told
  <1> QED
    BY <1>1, CopiesAreSound, PTL

\* Attempts counted by deliver, by the worker of a process and by the stand-alone
\* one never leave a dead letter with attempts to spare.
THEOREM DeadStandsExhausted == Spec => []DeadIsExhausted
  <1>1. OutboxInv => DeadIsExhausted
    BY DEF OutboxInv, Sound, Fits, DeadIsExhausted
  <1> QED
    BY <1>1, CopiesAreSound, PTL

-----------------------------------------------------------------------------
(* Stand-alone workers alone, each with the locks of the rows it chose:    *)
(* two messages only if an outcome was lost.                               *)

DaemonsSpec == Init /\ [][DaemonsNext]_vars

Holds(d, n) == n \in daemon[d].todo \cup daemon[d].done

\* A row is in one transaction, pending for everyone else, and sent in it only
\* when it was tried.
LocksHold ==
  /\ \A d, e \in Daemons, n \in Notifications : Holds(d, n) /\ Holds(e, n) => d = e
  /\ \A d \in Daemons, n \in Notifications :
       /\ Holds(d, n) => db[n].status = "PENDING"
       /\ daemon[d].rows[n].status = "SENT" => n \in daemon[d].done
       /\ n \notin daemon[d].todo \/ n \notin daemon[d].done

\* The table, or a transaction that may still commit, has the row as sent.
Out(n) == db[n].status = "SENT" \/ \E d \in Daemons : daemon[d].rows[n].status = "SENT"

MessagesCount ==
  \A n \in Notifications : lost[n] \/ (messages[n] <= 1 /\ (~Out(n) => messages[n] = 0))

OnceInv == OutboxInv /\ LocksHold /\ MessagesCount

LEMMA DaemonsNextIsNext == [DaemonsNext]_vars => [Next]_vars
  BY DEF DaemonsNext, Next, ThreadStep

LEMMA TypesOfOutbox ==
  ASSUME OutboxInv
  PROVE  /\ db \in Rows /\ daemon \in [Daemons -> Transaction]
         /\ messages \in [Notifications -> 0..2] /\ lost \in [Notifications -> BOOLEAN]
  BY DEF OutboxInv, Sound, TransactionsSound, HistoryType

\* What no step changes but those of the row itself.
LEMMA LocksUnmoved ==
  ASSUME LocksHold, UNCHANGED daemon,
         \A n \in Notifications : db[n].status = "PENDING" => db'[n].status = "PENDING"
  PROVE  LocksHold'
  BY DEF LocksHold, Holds

LEMMA QueueOnce ==
  ASSUME OnceInv, NEW t \in Threads, NEW n \in Notifications, Queue(t, n)
  PROVE  LocksHold' /\ MessagesCount'
  <1>1. UNCHANGED <<daemon, messages, lost>> /\ (db' = db \/ db' = [db EXCEPT ![n] = NewRow])
    BY DEF Queue, history
  <1>2. ~Known(n)
    <2>1. n >= n
      BY NotificationsAssumption
    <2> QED
      BY <2>1 DEF Queue
  <1>3. db \in Rows /\ NewRow.status = "PENDING" /\ messages[n] = 0 /\ ~Present(db[n])
    <2>1. NewRow.status = "PENDING"
      BY DEF NewRow, NoRow
    <2> QED
      BY <1>2, <2>1, TypesOfOutbox DEF Known, OnceInv
  <1>4. LocksHold'
    BY <1>1, <1>3, LocksUnmoved DEF OnceInv, Rows
  <1>5. ASSUME NEW m \in Notifications, ~Out(m)'
        PROVE  m = n \/ ~Out(m)
    BY <1>1, <1>3, <1>5 DEF Out, Rows
  <1>6. MessagesCount'
    BY <1>1, <1>3, <1>5 DEF OnceInv, MessagesCount
  <1> QED
    BY <1>4, <1>6

LEMMA SelectOnce ==
  ASSUME OnceInv, NEW d \in Daemons, Select(d)
  PROVE  LocksHold' /\ MessagesCount'
  <1> DEFINE pending == {n \in Notifications : db[n].status = "PENDING" /\ Due(db[n]) /\ ~Locked(n)}
  <1>1. PICK chosen \in SUBSET pending : daemon' = [daemon EXCEPT ![d].todo = chosen]
    BY DEF Select
  <1>2. daemon[d] = Closed /\ UNCHANGED <<db, messages, lost>> /\ daemon \in [Daemons -> Transaction]
    BY TypesOfOutbox DEF Select, history, OnceInv
  <1>3. \A n \in chosen : db[n].status = "PENDING" /\ \A e \in Daemons : ~Holds(e, n)
    BY DEF Locked, Holds
  <1>4. /\ daemon'[d].todo = chosen /\ daemon'[d].done = {}
        /\ \A e \in Daemons : daemon'[e].rows = daemon[e].rows
        /\ \A e \in Daemons : e # d => daemon'[e] = daemon[e]
    BY <1>1, <1>2 DEF Closed, Transaction
  <1>5. \A n \in Notifications : daemon[d].rows[n].status # "SENT"
    BY <1>2 DEF OnceInv, LocksHold, Closed
  <1>6. LocksHold'
    <2>1. \A e \in Daemons, n \in Notifications :
            Holds(e, n)' <=> (IF e = d THEN n \in chosen ELSE Holds(e, n))
      BY <1>4 DEF Holds
    <2>2. \A e, f \in Daemons, n \in Notifications : Holds(e, n)' /\ Holds(f, n)' => e = f
      BY <1>3, <2>1 DEF OnceInv, LocksHold
    <2>3. ASSUME NEW e \in Daemons, NEW n \in Notifications
          PROVE  /\ Holds(e, n)' => db'[n].status = "PENDING"
                 /\ daemon'[e].rows[n].status = "SENT" => n \in daemon'[e].done
                 /\ n \notin daemon'[e].todo \/ n \notin daemon'[e].done
      BY <1>2, <1>3, <1>4, <1>5, <2>1 DEF OnceInv, LocksHold
    <2> QED
      BY <2>2, <2>3 DEF LocksHold
  <1>7. \A n \in Notifications : Out(n)' <=> Out(n)
    BY <1>2, <1>4 DEF Out
  <1>8. MessagesCount'
    BY <1>2, <1>7 DEF OnceInv, MessagesCount
  <1> QED
    BY <1>6, <1>8

LEMMA AttemptOnce ==
  ASSUME OnceInv, NEW d \in Daemons, NEW n \in Notifications, Attempt(d, n)
  PROVE  LocksHold' /\ MessagesCount'
  <1> DEFINE tried == [db[n] EXCEPT !.attempts = Count(@)]
             failed == IF GivenUp(tried) THEN [tried EXCEPT !.next = "none", !.dead = TRUE]
                                         ELSE [tried EXCEPT !.next = "later"]
             Done(ok) == IF ok THEN [tried EXCEPT !.status = "SENT", !.next = "none"] ELSE failed
             After(row) == [todo |-> daemon[d].todo \ {n}, done |-> daemon[d].done \cup {n},
                            rows |-> [daemon[d].rows EXCEPT ![n] = row]]
  <1>1. PICK left \in BOOLEAN, ok \in BOOLEAN :
          /\ ok => left
          /\ IF left THEN Sent(n) ELSE UNCHANGED messages
          /\ lost' = [lost EXCEPT ![n] = @ \/ (left /\ ~ok)]
          /\ daemon' = [daemon EXCEPT ![d] = After(Done(ok))]
    BY TypesOfOutbox DEF Attempt, OnceInv
  <1>2. /\ n \in daemon[d].todo /\ UNCHANGED db /\ db \in Rows /\ daemon \in [Daemons -> Transaction]
        /\ messages \in [Notifications -> 0..2] /\ lost \in [Notifications -> BOOLEAN]
    BY TypesOfOutbox DEF Attempt, OnceInv
  <1>3. db[n] \in Row /\ db[n].status = "PENDING" /\ daemon[d].rows[n].status # "SENT"
    BY <1>2 DEF OnceInv, LocksHold, Holds, Rows
  <1>4. Done(ok).status = IF ok THEN "SENT" ELSE "PENDING"
    <2>1. tried \in [status : Status \cup {"absent"}, attempts : {Count(db[n].attempts)},
                     next : {"none", "later", "past"}, dead : BOOLEAN] /\ tried.status = "PENDING"
      BY <1>3 DEF Row
    <2> HIDE DEF tried
    <2> QED
      BY <2>1
  <1> DEFINE row == Done(ok)
  <1>5. row.status = (IF ok THEN "SENT" ELSE "PENDING") /\ daemon' = [daemon EXCEPT ![d] = After(row)]
    BY <1>1, <1>4
  <1> HIDE DEF row
  <1>6. /\ daemon'[d].todo = daemon[d].todo \ {n} /\ daemon'[d].done = daemon[d].done \cup {n}
        /\ daemon'[d].rows[n] = row
        /\ \A m \in Notifications : m # n => daemon'[d].rows[m] = daemon[d].rows[m]
        /\ \A e \in Daemons : e # d => daemon'[e] = daemon[e]
    BY <1>2, <1>5 DEF Transaction, Rows
  <1>7. LocksHold'
    <2>1. \A e \in Daemons, m \in Notifications : Holds(e, m)' <=> Holds(e, m)
      BY <1>2, <1>6 DEF Holds
    <2>2. \A e, f \in Daemons, m \in Notifications : Holds(e, m)' /\ Holds(f, m)' => e = f
      BY <2>1 DEF OnceInv, LocksHold
    <2>3. ASSUME NEW e \in Daemons, NEW m \in Notifications
          PROVE  /\ Holds(e, m)' => db'[m].status = "PENDING"
                 /\ daemon'[e].rows[m].status = "SENT" => m \in daemon'[e].done
                 /\ m \notin daemon'[e].todo \/ m \notin daemon'[e].done
      BY <1>2, <1>6, <2>1 DEF OnceInv, LocksHold
    <2> QED
      BY <2>2, <2>3 DEF LocksHold
  <1>8. ASSUME NEW m \in Notifications, m # n
        PROVE  (Out(m)' <=> Out(m)) /\ messages'[m] = messages[m] /\ lost'[m] = lost[m]
    <2>1. \A e \in Daemons : daemon'[e].rows[m] = daemon[e].rows[m]
      BY <1>6, <1>8
    <2> QED
      BY <1>1, <1>2, <1>8, <2>1 DEF Out, Sent
  <1>9. ~Out(n)
    <2>1. \A e \in Daemons : daemon[e].rows[n].status = "SENT" => e = d
      BY <1>2 DEF OnceInv, LocksHold, Holds
    <2> QED
      BY <1>3, <2>1 DEF Out
  <1>10. lost'[n] \/ (messages'[n] <= 1 /\ (~Out(n)' => messages'[n] = 0))
    <2>1. lost[n] \/ messages[n] = 0
      BY <1>9 DEF OnceInv, MessagesCount
    <2>2. CASE left
      <3>1. messages[n] = 0 => messages'[n] = 1
        BY <1>1, <1>2, <2>2 DEF Sent
      <3>2. ok => Out(n)'
        BY <1>5, <1>6 DEF Out
      <3>3. lost'[n] <=> (lost[n] \/ ~ok)
        BY <1>1, <1>2, <2>2
      <3> QED
        BY <2>1, <3>1, <3>2, <3>3
    <2>3. CASE ~left
      BY <1>1, <1>2, <2>1, <2>3
    <2> QED
      BY <2>2, <2>3
  <1>11. MessagesCount'
    BY <1>8, <1>10 DEF OnceInv, MessagesCount
  <1> QED
    BY <1>7, <1>11

LEMMA CommitOnce ==
  ASSUME OnceInv, NEW d \in Daemons, Commit(d)
  PROVE  LocksHold' /\ MessagesCount'
  <1>1. /\ db' = [n \in Notifications |-> IF n \in daemon[d].done THEN daemon[d].rows[n] ELSE db[n]]
        /\ daemon' = [daemon EXCEPT ![d] = Closed]
        /\ daemon \in [Daemons -> Transaction] /\ UNCHANGED <<messages, lost>>
    BY TypesOfOutbox DEF Commit, history, OnceInv
  <1>2. /\ daemon'[d].todo = {} /\ daemon'[d].done = {}
        /\ \A n \in Notifications : daemon'[d].rows[n].status # "SENT"
        /\ \A e \in Daemons : e # d => daemon'[e] = daemon[e]
    BY <1>1 DEF Closed, NoRows, NoRow
  <1>3. LocksHold'
    <2>1. \A e \in Daemons, n \in Notifications : Holds(e, n)' <=> (e # d /\ Holds(e, n))
      BY <1>2 DEF Holds
    <2>2. \A e, f \in Daemons, n \in Notifications : Holds(e, n)' /\ Holds(f, n)' => e = f
      BY <2>1 DEF OnceInv, LocksHold
    <2>3. ASSUME NEW e \in Daemons, NEW n \in Notifications, Holds(e, n)'
          PROVE  db'[n].status = "PENDING"
      <3>1. n \notin daemon[d].done /\ db[n].status = "PENDING"
        BY <2>1, <2>3 DEF OnceInv, LocksHold, Holds
      <3> QED
        BY <1>1, <3>1
    <2>4. ASSUME NEW e \in Daemons, NEW n \in Notifications
          PROVE  /\ daemon'[e].rows[n].status = "SENT" => n \in daemon'[e].done
                 /\ n \notin daemon'[e].todo \/ n \notin daemon'[e].done
      BY <1>2 DEF OnceInv, LocksHold
    <2> QED
      BY <2>2, <2>3, <2>4 DEF LocksHold
  <1>4. ASSUME NEW n \in Notifications, Out(n) PROVE Out(n)'
    <2>1. CASE db[n].status = "SENT"
      <3>1. n \notin daemon[d].done
        BY <2>1 DEF OnceInv, LocksHold, Holds
      <3> QED
        BY <1>1, <2>1, <3>1 DEF Out
    <2>2. CASE \E e \in Daemons : daemon[e].rows[n].status = "SENT"
      <3>1. PICK e \in Daemons : daemon[e].rows[n].status = "SENT"
        BY <2>2
      <3>2. CASE e = d
        <4>1. n \in daemon[d].done
          BY <3>1, <3>2 DEF OnceInv, LocksHold
        <4> QED
          BY <1>1, <3>1, <3>2, <4>1 DEF Out
      <3>3. CASE e # d
        BY <1>2, <3>1, <3>3 DEF Out
      <3> QED
        BY <3>2, <3>3
    <2> QED
      BY <1>4, <2>1, <2>2 DEF Out
  <1>5. MessagesCount'
    BY <1>1, <1>4 DEF OnceInv, MessagesCount
  <1> QED
    BY <1>3, <1>5

LEMMA RollbackOnce ==
  ASSUME OnceInv, NEW d \in Daemons, Rollback(d)
  PROVE  LocksHold' /\ MessagesCount'
  <1>1. /\ lost' = [n \in Notifications |-> lost[n] \/ daemon[d].rows[n].status = "SENT"]
        /\ daemon' = [daemon EXCEPT ![d] = Closed]
        /\ daemon \in [Daemons -> Transaction] /\ UNCHANGED <<db, messages>>
    BY TypesOfOutbox DEF Rollback, OnceInv
  <1>2. /\ daemon'[d].todo = {} /\ daemon'[d].done = {}
        /\ \A n \in Notifications : daemon'[d].rows[n].status # "SENT"
        /\ \A e \in Daemons : e # d => daemon'[e] = daemon[e]
    BY <1>1 DEF Closed, NoRows, NoRow
  <1>3. LocksHold'
    <2>1. \A e \in Daemons, n \in Notifications : Holds(e, n)' <=> (e # d /\ Holds(e, n))
      BY <1>2 DEF Holds
    <2> QED
      BY <1>1, <1>2, <2>1 DEF OnceInv, LocksHold
  <1>4. ASSUME NEW n \in Notifications, Out(n) PROVE lost'[n] \/ Out(n)'
    BY <1>1, <1>2, <1>4 DEF Out
  <1>5. \A n \in Notifications : lost[n] => lost'[n]
    BY <1>1
  <1>6. MessagesCount'
    BY <1>1, <1>4, <1>5 DEF OnceInv, MessagesCount
  <1> QED
    BY <1>3, <1>6

LEMMA DueOnce ==
  ASSUME OnceInv, NEW k \in Notifications, NextAttemptIsDue(k)
  PROVE  LocksHold' /\ MessagesCount'
  <1>1. /\ db' = [db EXCEPT ![k] = Aged(@)]
        /\ daemon' = [d \in Daemons |-> [daemon[d] EXCEPT !.rows[k] = Aged(@)]]
        /\ db \in Rows /\ daemon \in [Daemons -> Transaction] /\ UNCHANGED <<messages, lost>>
    BY TypesOfOutbox DEF NextAttemptIsDue, history, OnceInv
  <1>2. \A row \in Row : Aged(row).status = row.status
    BY DEF Aged, Row
  <1>3. \A n \in Notifications : db'[n].status = db[n].status
    BY <1>1, <1>2 DEF Rows
  <1>4. ASSUME NEW d \in Daemons
        PROVE  /\ daemon'[d].todo = daemon[d].todo /\ daemon'[d].done = daemon[d].done
               /\ \A n \in Notifications : daemon'[d].rows[n].status = daemon[d].rows[n].status
    <2>1. daemon[d] \in Transaction /\ daemon'[d] = [daemon[d] EXCEPT !.rows[k] = Aged(@)]
      BY <1>1
    <2> QED
      BY <1>2, <2>1 DEF Transaction
  <1>5. LocksHold'
    BY <1>3, <1>4 DEF OnceInv, LocksHold, Holds
  <1>6. \A n \in Notifications : Out(n)' <=> Out(n)
    BY <1>3, <1>4 DEF Out
  <1>7. MessagesCount'
    BY <1>1, <1>6 DEF OnceInv, MessagesCount
  <1> QED
    BY <1>5, <1>7

LEMMA OnceInvInitially == Init => OnceInv
  <1> SUFFICES ASSUME Init PROVE LocksHold /\ MessagesCount
    BY OutboxInvInitially DEF OnceInv
  <1>1. \A d \in Daemons : daemon[d] = Closed
    BY DEF Init
  <1>2. LocksHold
    BY <1>1 DEF LocksHold, Holds, Closed, NoRows, NoRow
  <1>3. MessagesCount
    BY DEF Init, MessagesCount
  <1> QED
    BY <1>2, <1>3

LEMMA OnceInvInductive == OnceInv /\ [DaemonsNext]_vars => OnceInv'
  <1> SUFFICES ASSUME OnceInv, [DaemonsNext]_vars PROVE LocksHold' /\ MessagesCount'
    BY DaemonsNextIsNext, OutboxInvInductive DEF OnceInv
  <1>1. ASSUME NEW d \in Daemons, DaemonStep(d) PROVE LocksHold' /\ MessagesCount'
    BY <1>1, SelectOnce, AttemptOnce, CommitOnce, RollbackOnce DEF DaemonStep
  <1>2. CASE UNCHANGED vars
    BY <1>2 DEF vars, OnceInv, LocksHold, Holds, MessagesCount, Out
  <1> QED
    BY <1>1, <1>2, QueueOnce, DueOnce DEF DaemonsNext

LEMMA OnceMeansOne == OnceInv => AtMostOneMessage
  BY TypesOfOutbox DEF OnceInv, MessagesCount, AtMostOneMessage

\* Each step of the stand-alone workers keeps the locks and the count.
THEOREM RowsAreTriedUnderLock == DaemonsSpec => []OnceInv
  BY OnceInvInitially, OnceInvInductive, PTL DEF DaemonsSpec

\* FOR UPDATE SKIP LOCKED: however many stand-alone workers run, a second
\* message leaves only when the outcome of an earlier attempt was lost.
THEOREM WorkersSendOnce == DaemonsSpec => []AtMostOneMessage
  BY OnceMeansOne, RowsAreTriedUnderLock, PTL

\* The same of the two parts of OutboxDelivery: where one API process queues and only
\* stand-alone workers deliver, a second message leaves only if an outcome was lost.
THEOREM WorkersOfAllPartsSendOnce == PartsSpec => []WorkersSendAtMostOne
  <1> DEFINE Alone == part = "daemons" => OnceInv
  <1>1. PartsInit => Alone
    BY OnceInvInitially DEF PartsInit
  <1>2. Alone /\ [PartsNext]_<<vars, part>> => Alone'
    <2> SUFFICES ASSUME Alone, [PartsNext]_<<vars, part>>, part' = "daemons" PROVE OnceInv'
      OBVIOUS
    <2>1. part = "daemons" /\ OnceInv
      BY DEF PartsNext
    <2>2. [DaemonsNext]_vars
      BY <2>1 DEF PartsNext, WorkersNext, DaemonsNext
    <2> QED
      BY <2>1, <2>2, OnceInvInductive
  <1>3. Alone => WorkersSendAtMostOne
    BY OnceMeansOne DEF WorkersSendAtMostOne
  <1> QED
    BY <1>1, <1>2, <1>3, PTL DEF PartsSpec

-----------------------------------------------------------------------------
(* One API process that serves one request at a time, and no stand-alone   *)
(* worker: what its store has as pending, nobody has settled.              *)

OneThread(t) == Threads = {t} /\ Daemons = {}

\* The store of the thread, what it has in hand, and the table.
Current(rows, table) ==
  \A n \in Notifications : rows[n].status = "PENDING" => table[n].status \notin Settled

InStep(request, rows, table) ==
  /\ request.own = NoRows
  /\ Current(rows, table)
  /\ request.at = "sending" => rows[request.n].status = "PENDING"
  /\ request.at = "saving" => rows[request.n].status = request.row.status

\* What the store has as sent the table has too, unless it was never there or is
\* being written; and a message that left is known to the thread, the store or,
\* after a restart, the table.
Recorded(table, n) == table[n].status \in {"SENT", "absent"}

Accounted(request, rows, table, sent, gone) ==
  \A n \in Notifications :
    /\ rows[n].status = "SENT" =>
         Recorded(table, n) \/ (request.at = "saving" /\ request.n = n /\ request.whole)
    /\ \/ gone[n] \/ sent[n] = 0
       \/ /\ sent[n] = 1
          /\ \/ request.at = "left" /\ request.n = n
             \/ rows[n].status = "SENT"
             \/ rows[n].status = "absent" /\ Recorded(table, n)

Mine(t) == store[ServerOf[t]]

InHand(t) == InStep(act[t], Mine(t), db) /\ Accounted(act[t], Mine(t), db, messages, lost)
InHandNext(t) ==
  InStep(act'[t], Mine(t)', db') /\ Accounted(act'[t], Mine(t)', db', messages', lost')

LEMMA TypesInHand ==
  ASSUME OutboxInv, NEW t \in Threads
  PROVE  /\ db \in Rows /\ act \in [Threads -> Act] /\ act[t] \in Act
         /\ ServerOf[t] \in Servers /\ store \in [Servers -> Rows] /\ Mine(t) \in Rows
         /\ act[t].at \notin {"idle", "choosing"} => act[t].n \in Notifications
  BY ServersAssumption DEF OutboxInv, Sound, StoresSound, RequestsSound, RequestSound, Mine

\* The store has all the objects: a change is a change of the store.
LEMMA ChangedInStep ==
  ASSUME OutboxInv, NEW t \in Threads, act[t].own = NoRows, NEW n \in Notifications, NEW row,
         NEW next, Changed(t, n, row, next)
  PROVE  /\ Object(t, n) = Mine(t)[n]
         /\ Mine(t)' = [Mine(t) EXCEPT ![n] = row]
         /\ act'[t] = next
  <1>1. ~Present(act[t].own[n])
    BY DEF Present, NoRows, NoRow
  <1>2. Keep(ServerOf[t], n, row) /\ act' = [act EXCEPT ![t] = next]
    BY <1>1 DEF Changed
  <1> QED
    BY <1>1, <1>2, TypesInHand DEF Object, Keep, Mine

\* What keeps the store and the table apart at one row only.
LEMMA CurrentUpdate ==
  ASSUME NEW rows \in Rows, NEW table, Current(rows, table), NEW n \in Notifications, NEW row,
         row.status = "PENDING" => table[n].status \notin Settled
  PROVE  Current([rows EXCEPT ![n] = row], table)
  BY DEF Current, Rows

\* What is not on its way stays accounted for, and so does a row that changes
\* in the store if its status tells.
LEMMA AccountedUpdate ==
  ASSUME NEW a, NEW next, NEW rows \in Rows, NEW table, NEW sent, NEW gone,
         Accounted(a, rows, table, sent, gone), NEW n \in Notifications, NEW row,
         a.at # "saving", a.at = "left" => a.n = n,
         row.status = "SENT" =>
           Recorded(table, n) \/ (next.at = "saving" /\ next.n = n /\ next.whole),
         \/ gone[n] \/ sent[n] = 0
         \/ row.status = "SENT" \/ (row.status = "absent" /\ Recorded(table, n))
  PROVE  Accounted(next, [rows EXCEPT ![n] = row], table, sent, gone)
  <1>1. [rows EXCEPT ![n] = row][n] = row
    BY DEF Rows
  <1>2. \A m \in Notifications : m # n => [rows EXCEPT ![n] = row][m] = rows[m]
    BY DEF Rows
  <1>3. gone[n] \/ sent[n] = 0 \/ sent[n] = 1
    BY DEF Accounted
  <1> QED
    BY <1>1, <1>2, <1>3 DEF Accounted

LEMMA FetchInStep ==
  ASSUME OutboxInv, NEW t \in Threads, InHand(t), NEW S, NEW next,
         next.own = NoRows, next.at \in {"idle", "choosing"}, Fetch(t, S, next),
         act[t].at = "idle", UNCHANGED <<db, history>>
  PROVE  InHandNext(t)
  <1>1. act'[t] = next /\ Mine(t)' = Fetched(ServerOf[t], S)
    BY TypesInHand DEF Fetch, Mine
  <1>2. Current(Fetched(ServerOf[t], S), db)
    BY DEF Fetched, Current, InStep, InHand, Mine, Settled
  <1>3. InStep(act'[t], Mine(t)', db')
    BY <1>1, <1>2 DEF InStep
  <1>4. \A n \in Notifications :
          Fetched(ServerOf[t], S)[n] = IF db[n].status \in S THEN db[n] ELSE Mine(t)[n]
    BY DEF Fetched, Mine
  <1>5. Accounted(next, Fetched(ServerOf[t], S), db, messages, lost)
    BY <1>4 DEF InHand, Accounted, Recorded
  <1> QED
    BY <1>1, <1>3, <1>5 DEF InHandNext, history

LEMMA SeenInStep ==
  ASSUME NEW t \in Threads, InHand(t), NEW n \in Notifications, act[t].at = "idle"
  PROVE  LET row == Seen(ServerOf[t], n)
         IN /\ row.status = "PENDING" => db[n].status \notin Settled
            /\ row.status = "SENT" => Recorded(db, n)
            /\ lost[n] \/ messages[n] = 0 \/ row.status \in {"SENT", "absent"}
  BY DEF Seen, Present, InHand, InStep, Current, Accounted, Recorded, Mine, Settled

LEMMA KeepInStep ==
  ASSUME OutboxInv, NEW t \in Threads, NEW n \in Notifications, NEW row, Keep(ServerOf[t], n, row)
  PROVE  Mine(t)' = [Mine(t) EXCEPT ![n] = row]
  BY TypesInHand DEF Keep, Mine

LEMMA QueueInStep ==
  ASSUME OutboxInv, NEW t \in Threads, NEW n \in Notifications, Queue(t, n),
         InHand(t)
  PROVE  InHandNext(t)
  <1>1. /\ Mine(t)' = [Mine(t) EXCEPT ![n] = NewRow] /\ act' = act /\ act[t].at = "idle"
        /\ UNCHANGED <<messages, lost>>
    BY KeepInStep DEF Queue, history
  <1>2. ~Present(db[n]) /\ messages[n] = 0
    <2>1. n >= n
      BY NotificationsAssumption
    <2> QED
      BY <2>1, TypesOfOutbox DEF Queue, Known
  <1>3. db' = db \/ db' = [db EXCEPT ![n] = NewRow]
    BY DEF Queue
  <1>4. NewRow.status = "PENDING"
    BY DEF NewRow, NoRow
  <1>5. \A m \in Notifications : db'[m].status \in Settled => db[m].status \in Settled
    BY <1>3, <1>4, TypesInHand DEF Rows, Settled
  <1>6. Current([Mine(t) EXCEPT ![n] = NewRow], db)
    BY <1>2, CurrentUpdate, TypesInHand DEF InHand, InStep, Present, Settled
  <1>7. Current([Mine(t) EXCEPT ![n] = NewRow], db')
    BY <1>5, <1>6 DEF Current
  <1>8. InStep(act'[t], Mine(t)', db')
    BY <1>1, <1>7 DEF InHand, InStep
  <1>9. Accounted(act[t], [Mine(t) EXCEPT ![n] = NewRow], db', messages, lost)
    <2>1. \A m \in Notifications : m # n =>
            db'[m] = db[m] /\ [Mine(t) EXCEPT ![n] = NewRow][m] = Mine(t)[m]
      BY <1>3, TypesInHand DEF Rows
    <2>2. [Mine(t) EXCEPT ![n] = NewRow][n] = NewRow
      BY TypesInHand DEF Rows
    <2> QED
      BY <1>1, <1>2, <1>4, <2>1, <2>2 DEF InHand, Accounted, Recorded
  <1> QED
    BY <1>1, <1>8, <1>9 DEF InHandNext

LEMMA SettleInStep ==
  ASSUME OutboxInv, NEW t \in Threads, NEW n \in Notifications, Cancel(t, n) \/ MarkSent(t, n),
         InHand(t)
  PROVE  InHandNext(t)
  <1>1. PICK status \in Settled :
          /\ Keep(ServerOf[t], n, [Seen(ServerOf[t], n) EXCEPT !.status = status])
          /\ act' = [act EXCEPT ![t] = Saving(t, n, [Seen(ServerOf[t], n) EXCEPT !.status = status], TRUE)]
          /\ act[t].at = "idle" /\ Seen(ServerOf[t], n).status = "PENDING"
          /\ UNCHANGED <<db, messages, lost>>
    BY DEF Cancel, Cancellable, MarkSent, Settled, history
  <1> DEFINE row == [Seen(ServerOf[t], n) EXCEPT !.status = status]
  <1>2. row.status = status
    <2>1. Seen(ServerOf[t], n) \in Row
      BY TypesInHand DEF Seen, Rows, Mine
    <2> QED
      BY <2>1 DEF Row
  <1> HIDE DEF row
  <1>3. Mine(t)' = [Mine(t) EXCEPT ![n] = row] /\ act'[t] = Saving(t, n, row, TRUE)
    BY <1>1, KeepInStep, TypesInHand DEF row
  <1>4. Current([Mine(t) EXCEPT ![n] = row], db)
    BY <1>2, CurrentUpdate, TypesInHand DEF InHand, InStep, Settled
  <1>5. /\ act'[t].own = act[t].own /\ act'[t].at = "saving" /\ act'[t].n = n /\ act'[t].row = row
        /\ act'[t].whole
    BY <1>3, TypesInHand DEF Saving, Act
  <1>6. [Mine(t) EXCEPT ![n] = row][n] = row
    BY TypesInHand DEF Rows
  <1>7. InStep(act'[t], Mine(t)', db')
    BY <1>1, <1>3, <1>4, <1>5, <1>6 DEF InHand, InStep
  <1>8. lost[n] \/ messages[n] = 0
    BY <1>1, SeenInStep
  <1>9. Accounted(act'[t], [Mine(t) EXCEPT ![n] = row], db, messages, lost)
    BY <1>1, <1>5, <1>8, AccountedUpdate, TypesInHand DEF InHand
  <1> QED
    BY <1>1, <1>3, <1>7, <1>9 DEF InHandNext

LEMMA DeliverInStep ==
  ASSUME OutboxInv, NEW t \in Threads, NEW n \in Notifications, Deliver(t, n),
         InHand(t)
  PROVE  InHandNext(t)
  <1> DEFINE row == Seen(ServerOf[t], n)
             at == IF Deliverable(row) THEN "sending" ELSE "failed"
             next == [act[t] EXCEPT !.by = "request", !.n = n, !.at = at]
  <1>1. /\ Mine(t)' = [Mine(t) EXCEPT ![n] = row] /\ act[t].at = "idle" /\ Present(row)
        /\ UNCHANGED <<db, messages, lost>>
    BY KeepInStep DEF Deliver, history
  <1>2. act'[t] = next
    BY TypesInHand DEF Deliver
  <1>3. Current([Mine(t) EXCEPT ![n] = row], db)
    BY <1>1, SeenInStep, CurrentUpdate, TypesInHand DEF InHand, InStep
  <1>4. next.at = at /\ next.n = n /\ next.own = act[t].own
    BY TypesInHand DEF Act
  <1>5. [Mine(t) EXCEPT ![n] = row][n] = row
    BY TypesInHand DEF Rows
  <1>6. InStep(act'[t], Mine(t)', db')
    BY <1>1, <1>2, <1>3, <1>4, <1>5 DEF InHand, InStep, Deliverable
  <1>7. /\ row.status = "SENT" => Recorded(db, n)
        /\ lost[n] \/ messages[n] = 0 \/ row.status = "SENT"
    BY <1>1, SeenInStep DEF Present
  <1> HIDE DEF row, next
  <1>8. Accounted(next, [Mine(t) EXCEPT ![n] = row], db, messages, lost)
    BY <1>1, <1>7, AccountedUpdate, TypesInHand DEF InHand
  <1> QED
    BY <1>1, <1>2, <1>6, <1>8 DEF InHandNext

LEMMA RunWorkerInStep ==
  ASSUME OutboxInv, NEW t \in Threads, RunWorker(t), InHand(t)
  PROVE  InHandNext(t)
  <1>1. PICK todo : /\ Fetch(t, {"PENDING"}, [Idle EXCEPT !.at = "choosing", !.by = "worker", !.todo = todo])
                    /\ UNCHANGED <<db, history>> /\ act[t].at = "idle"
    BY DEF RunWorker
  <1>2. [Idle EXCEPT !.at = "choosing", !.by = "worker", !.todo = todo].own = NoRows
    BY DEF Idle
  <1>3. [Idle EXCEPT !.at = "choosing", !.by = "worker", !.todo = todo].at = "choosing"
    BY DEF Idle
  <1> QED
    BY <1>1, <1>2, <1>3, FetchInStep

LEMMA NextOfBatchInStep ==
  ASSUME OutboxInv, NEW t \in Threads, NEW n \in Notifications, NextOfBatch(t, n),
         InHand(t)
  PROVE  InHandNext(t)
  <1> DEFINE counted == [Object(t, n) EXCEPT !.attempts = Count(@)]
             at == IF Deliverable(Object(t, n)) THEN "sending" ELSE "failed"
             next == [act[t] EXCEPT !.n = n, !.todo = @ \ {n}, !.at = at]
  <1>1. Changed(t, n, counted, next) /\ act[t].at = "choosing" /\ UNCHANGED <<db, messages, lost>>
    BY DEF NextOfBatch, history
  <1>2. Object(t, n) = Mine(t)[n] /\ Mine(t)' = [Mine(t) EXCEPT ![n] = counted] /\ act'[t] = next
    BY <1>1, ChangedInStep DEF InHand, InStep
  <1>3. Mine(t) \in Rows /\ counted.status = Mine(t)[n].status
    BY <1>2, TypesInHand DEF Rows, Row
  <1>4. next.at = at /\ next.n = n /\ next.own = act[t].own
    BY TypesInHand DEF Act
  <1> HIDE DEF counted
  <1>5. Current([Mine(t) EXCEPT ![n] = counted], db)
    BY <1>3, CurrentUpdate DEF InHand, InStep, Current
  <1>6. [Mine(t) EXCEPT ![n] = counted][n] = counted
    BY <1>3 DEF Rows
  <1>7. InStep(act'[t], Mine(t)', db')
    BY <1>1, <1>2, <1>3, <1>4, <1>5, <1>6 DEF InHand, InStep, Deliverable
  <1>8. /\ counted.status = "SENT" => Recorded(db, n)
        /\ \/ lost[n] \/ messages[n] = 0
           \/ counted.status = "SENT" \/ (counted.status = "absent" /\ Recorded(db, n))
    BY <1>1, <1>3 DEF InHand, Accounted
  <1> HIDE DEF next
  <1>9. Accounted(next, [Mine(t) EXCEPT ![n] = counted], db, messages, lost)
    BY <1>1, <1>3, <1>8, AccountedUpdate DEF InHand
  <1> QED
    BY <1>1, <1>2, <1>7, <1>9 DEF InHandNext

LEMMA NoteInStep ==
  ASSUME OutboxInv, NEW t \in Threads, Note(t), InHand(t)
  PROVE  InHandNext(t)
  <1> DEFINE n == act[t].n
             row == IF act[t].at = "left" THEN Succeeded(t, Object(t, n)) ELSE Failed(t, Object(t, n))
             whole == act[t].at = "left" \/ act[t].by = "worker"
  <1>1. /\ n \in Notifications /\ Changed(t, n, row, Saving(t, n, row, whole))
        /\ act[t].at \in {"left", "failed"} /\ UNCHANGED <<db, messages, lost>>
    BY TypesInHand DEF Note, history
  <1>2. /\ Object(t, n) = Mine(t)[n] /\ Mine(t)' = [Mine(t) EXCEPT ![n] = row]
        /\ act'[t] = Saving(t, n, row, whole)
    BY <1>1, ChangedInStep DEF InHand, InStep
  <1>3. Mine(t) \in Rows /\ Mine(t)[n] \in Row
    BY <1>1, TypesInHand DEF Rows
  <1>4. row.status = IF act[t].at = "left" THEN "SENT" ELSE Mine(t)[n].status
    <2>1. Succeeded(t, Mine(t)[n]).status = "SENT"
      BY <1>3 DEF Succeeded, Row
    <2>2. Fits(Mine(t)[n], n, Told) => Failed(t, Mine(t)[n]).status = Mine(t)[n].status
      BY <1>3, FailedFits
    <2>3. Fits(Mine(t)[n], n, Told)
      BY <1>1, TypesInHand DEF OutboxInv, StoresSound, Sound, Mine
    <2> QED
      BY <1>2, <2>1, <2>2, <2>3
  <1> HIDE DEF row
  <1>5. Current([Mine(t) EXCEPT ![n] = row], db)
    BY <1>1, <1>3, <1>4, CurrentUpdate DEF InHand, InStep, Current
  <1>6. /\ act'[t].own = act[t].own /\ act'[t].at = "saving" /\ act'[t].n = n /\ act'[t].row = row
        /\ act'[t].whole = whole
    BY <1>2, TypesInHand DEF Saving, Act
  <1>7. [Mine(t) EXCEPT ![n] = row][n] = row
    BY <1>1, <1>3 DEF Rows
  <1>8. InStep(act'[t], Mine(t)', db')
    BY <1>1, <1>2, <1>5, <1>6, <1>7 DEF InHand, InStep
  <1>9. /\ row.status = "SENT" => Recorded(db, n) \/ act'[t].whole
        /\ \/ lost[n] \/ messages[n] = 0
           \/ row.status = "SENT" \/ (row.status = "absent" /\ Recorded(db, n))
    <2>1. CASE act[t].at = "left"
      BY <1>4, <1>6, <2>1
    <2>2. CASE act[t].at = "failed"
      BY <1>1, <1>4, <2>2 DEF InHand, Accounted
    <2> QED
      BY <1>1, <2>1, <2>2
  <1>10. Accounted(act'[t], [Mine(t) EXCEPT ![n] = row], db, messages, lost)
    BY <1>1, <1>3, <1>6, <1>9, AccountedUpdate DEF InHand
  <1> QED
    BY <1>1, <1>2, <1>8, <1>10 DEF InHandNext

\* What goes to the table is what the store has.
LEMMA SaveInStep ==
  ASSUME OutboxInv, NEW t \in Threads, Save(t), InHand(t)
  PROVE  InHandNext(t)
  <1> DEFINE n == act[t].n
             next == IF act[t].by = "worker"
                       THEN [act[t] EXCEPT !.at = "choosing", !.n = None, !.row = NoRow,
                                           !.whole = FALSE, !.own[n] = NoRow]
                       ELSE Idle
  <1>1. /\ n \in Notifications /\ act[t].at = "saving" /\ UNCHANGED <<store, messages, lost>>
        /\ db' = Written(n, act[t].row, act[t].whole) /\ act'[t] = next
    BY TypesInHand DEF Save, history
  <1>2. next.own = NoRows /\ next.at \in {"choosing", "idle"}
    <2>1. [NoRows EXCEPT ![n] = NoRow] = NoRows
      BY DEF NoRows
    <2> QED
      BY <2>1, TypesInHand DEF Idle, Act, InHand, InStep
  <1>3. Mine(t)' = Mine(t)
    BY <1>1 DEF Mine
  <1>4. act[t].row \in Row /\ db \in Rows
    BY TypesInHand DEF Act
  <1>5. \A m \in Notifications : m # n => db'[m] = db[m]
    BY <1>1, <1>4 DEF Written, Rows
  <1>6. db'[n].status \in {db[n].status, act[t].row.status}
    BY <1>1, <1>4 DEF Written, Rows, Row
  <1>7. Current(Mine(t), db')
    BY <1>1, <1>5, <1>6 DEF InHand, InStep, Current, Settled
  <1> HIDE DEF next
  <1>8. InStep(act'[t], Mine(t)', db')
    BY <1>1, <1>2, <1>3, <1>7 DEF InStep
  <1>9. (Recorded(db, n) \/ act[t].whole) /\ Mine(t)[n].status = "SENT" => Recorded(db', n)
    <2>1. act[t].whole /\ Present(db[n]) => db'[n] = act[t].row
      BY <1>1, <1>4 DEF Written, Rows
    <2>2. ~Present(db[n]) => db'[n] = db[n]
      BY <1>1 DEF Written
    <2>3. ~act[t].whole => db'[n].status = db[n].status
      BY <1>1, <1>4 DEF Written, Rows, Row
    <2>4. act[t].row.status = Mine(t)[n].status
      BY <1>1 DEF InHand, InStep
    <2> QED
      BY <2>1, <2>2, <2>3, <2>4 DEF Recorded, Present
  <1>10. Mine(t)[n].status = "absent" /\ Recorded(db, n) => Recorded(db', n)
    <2>1. act[t].row.status = Mine(t)[n].status
      BY <1>1 DEF InHand, InStep
    <2> QED
      BY <1>6, <2>1 DEF Recorded
  <1>11. \A m \in Notifications : m # n => (Recorded(db', m) <=> Recorded(db, m))
    BY <1>5 DEF Recorded
  <1>12. Accounted(next, Mine(t), db', messages, lost)
    BY <1>1, <1>2, <1>9, <1>10, <1>11 DEF InHand, Accounted
  <1> QED
    BY <1>1, <1>3, <1>8, <1>12 DEF InHandNext

LEMMA SendEndsInStep ==
  ASSUME OutboxInv, NEW t \in Threads, SendEnds(t), InHand(t)
  PROVE  InHandNext(t)
  <1> DEFINE n == act[t].n
  <1>1. PICK left \in BOOLEAN, outcome \in {"left", "failed", "idle"} :
          /\ outcome = "left" => left
          /\ IF left THEN Sent(n) ELSE UNCHANGED messages
          /\ lost' = [lost EXCEPT ![n] = @ \/ (left /\ outcome # "left")]
          /\ act' = [act EXCEPT ![t] = IF outcome = "idle" THEN Idle ELSE [@ EXCEPT !.at = outcome]]
    BY DEF SendEnds
  <1>2. /\ UNCHANGED <<db, store>> /\ act[t].at = "sending" /\ n \in Notifications
        /\ Mine(t)[n].status = "PENDING"
    BY TypesInHand DEF SendEnds, InHand, InStep
  <1>3. /\ act'[t].own = NoRows /\ act'[t].at = outcome
        /\ outcome = "left" => act'[t].n = n
    BY <1>1, TypesInHand DEF Idle, Act, InHand, InStep
  <1>4. Mine(t)' = Mine(t)
    BY <1>2 DEF Mine
  <1>5. InStep(act'[t], Mine(t)', db')
    BY <1>2, <1>3, <1>4 DEF InHand, InStep
  <1>6. lost[n] \/ messages[n] = 0
    BY <1>2 DEF InHand, Accounted
  <1>7. \/ lost'[n] \/ messages'[n] = 0
        \/ messages'[n] = 1 /\ outcome = "left"
    <2>0. lost'[n] <=> (lost[n] \/ (left /\ outcome # "left"))
      BY <1>1, <1>2, TypesOfOutbox
    <2>1. CASE left
      <3>1. messages[n] = 0 => messages'[n] = 1
        BY <1>1, <1>2, <2>1, TypesOfOutbox DEF Sent
      <3> QED
        BY <1>6, <2>0, <2>1, <3>1
    <2>2. CASE ~left
      BY <1>1, <1>6, <2>0, <2>2
    <2> QED
      BY <2>1, <2>2
  <1>8. \A m \in Notifications : m # n => messages'[m] = messages[m] /\ lost'[m] = lost[m]
    BY <1>1, <1>2, TypesOfOutbox DEF Sent
  <1>9. Accounted(act'[t], Mine(t), db, messages', lost')
    BY <1>2, <1>3, <1>7, <1>8 DEF InHand, Accounted
  <1> QED
    BY <1>2, <1>4, <1>5, <1>9 DEF InHandNext

LEMMA BatchEndsInStep ==
  ASSUME OutboxInv, NEW t \in Threads, BatchEnds(t), InHand(t)
  PROVE  InHandNext(t)
  <1>1. /\ act'[t] = Idle /\ act[t].at = "choosing" /\ UNCHANGED <<db, store, messages, lost>>
    BY TypesInHand DEF BatchEnds, history
  <1>2. Mine(t)' = Mine(t)
    BY <1>1 DEF Mine
  <1>3. Idle.own = NoRows /\ Idle.at = "idle"
    BY DEF Idle
  <1> QED
    BY <1>1, <1>2, <1>3 DEF InHand, InHandNext, InStep, Accounted

LEMMA RestartInStep ==
  ASSUME OutboxInv, NEW t \in Threads, NEW s \in Servers, Restart(s), InHand(t)
  PROVE  InHandNext(t)
  <1>1. UNCHANGED <<db, messages>>
    BY DEF Restart
  <1>2. CASE ServerOf[t] = s
    <2>1. act'[t] = Idle /\ Mine(t)' = NoRows
      BY <1>2, TypesInHand DEF Restart, Mine
    <2>2. InStep(act'[t], Mine(t)', db')
      BY <1>1, <2>1 DEF InStep, Idle, Current, NoRows, NoRow
    <2>3. \A n \in Notifications : NoRows[n].status = "absent"
      BY DEF NoRows, NoRow
    <2>4. \A n \in Notifications :
            lost[n] \/ (act[t].n = n /\ (act[t].at = "left" \/ act[t].row.status = "SENT")) => lost'[n]
      BY <1>2 DEF Restart
    <2>5. \A n \in Notifications : lost'[n] \/ messages[n] = 0 \/ (messages[n] = 1 /\ Recorded(db, n))
      BY <2>4 DEF InHand, InStep, Accounted
    <2>6. Accounted(Idle, NoRows, db, messages, lost')
      BY <2>3, <2>5 DEF Accounted
    <2> QED
      BY <1>1, <2>1, <2>2, <2>6 DEF InHandNext
  <1>3. CASE ServerOf[t] # s
    <2>1. act'[t] = act[t] /\ Mine(t)' = Mine(t)
      BY <1>3, TypesInHand DEF Restart, Mine
    <2>2. \A n \in Notifications : lost[n] => lost'[n]
      BY DEF Restart
    <2> QED
      BY <1>1, <2>1, <2>2 DEF InHand, InHandNext, Accounted
  <1> QED
    BY <1>2, <1>3

LEMMA DueInStep ==
  ASSUME OutboxInv, NEW t \in Threads, NEW k \in Notifications, NextAttemptIsDue(k),
         InHand(t)
  PROVE  InHandNext(t)
  <1>1. \A row \in Row : Aged(row).status = row.status
    BY DEF Aged, Row
  <1>2. \A n \in Notifications : db'[n].status = db[n].status
    BY <1>1, TypesInHand DEF NextAttemptIsDue, Rows
  <1>3. \A n \in Notifications : Mine(t)'[n].status = Mine(t)[n].status
    BY <1>1, TypesInHand DEF NextAttemptIsDue, Rows, Mine
  <1> DEFINE row == IF act[t].n = k THEN Aged(act[t].row) ELSE act[t].row
  <1>4. row.status = act[t].row.status
    BY <1>1, TypesInHand DEF Act
  <1>5. [act[t].own EXCEPT ![k] = Aged(@)] = NoRows
    <2>1. Aged(NoRow) = NoRow
      BY DEF Aged, NoRow
    <2> QED
      BY <2>1 DEF InHand, InStep, NoRows
  <1>6. act'[t] = [act[t] EXCEPT !.row = row, !.own = [act[t].own EXCEPT ![k] = Aged(@)]]
    BY TypesInHand DEF NextAttemptIsDue, Act
  <1> HIDE DEF row
  <1>7. /\ act'[t].own = NoRows /\ act'[t].at = act[t].at /\ act'[t].n = act[t].n
        /\ act'[t].row = row /\ act'[t].whole = act[t].whole
    BY <1>5, <1>6, TypesInHand DEF Act
  <1>8. Current(Mine(t)', db')
    BY <1>2, <1>3 DEF InHand, InStep, Current
  <1>9. act[t].at \in {"sending", "saving"} => Mine(t)'[act[t].n].status = Mine(t)[act[t].n].status
    BY <1>3, TypesInHand
  <1>10. InStep(act'[t], Mine(t)', db')
    BY <1>4, <1>7, <1>8, <1>9 DEF InHand, InStep
  <1>11. Accounted(act'[t], Mine(t)', db', messages, lost)
    BY <1>2, <1>3, <1>7 DEF InHand, Accounted, Recorded
  <1> QED
    BY <1>10, <1>11 DEF InHandNext, NextAttemptIsDue, history

\* Without a second thread that fetches behind its back, the thread works on the
\* objects of its store, pending there is not settled in the table, and what
\* left is accounted for.
THEOREM OneThreadStaysInStep ==
  ASSUME NEW t, OneThread(t)
  PROVE  Spec => [](OutboxInv /\ InHand(t))
  <1>1. t \in Threads
    BY DEF OneThread
  <1>2. Init => InHand(t)
    <2> SUFFICES ASSUME Init PROVE InHand(t)
      OBVIOUS
    <2>1. act[t] = Idle /\ Mine(t) = NoRows
      BY <1>1, ServersAssumption DEF Init, Mine
    <2>2. Idle.own = NoRows /\ Idle.at = "idle"
      BY DEF Idle
    <2>3. Current(NoRows, db)
      BY DEF Current, NoRows, NoRow
    <2>4. Accounted(Idle, NoRows, db, messages, lost)
      BY DEF Init, Accounted, NoRows, NoRow
    <2> QED
      BY <2>1, <2>2, <2>3, <2>4 DEF InStep, InHand
  <1>3. OutboxInv /\ InHand(t) /\ [Next]_vars => InHand(t)'
    <2> SUFFICES ASSUME OutboxInv, InHand(t), [Next]_vars PROVE InHandNext(t)
      BY DEF InHand, InHandNext
    <2>1. CASE List(t)
      <3>1. PICK S : Fetch(t, S, Idle) /\ act[t].at = "idle" /\ UNCHANGED <<db, history>>
        BY <2>1 DEF List
      <3>2. Idle.own = NoRows /\ Idle.at = "idle"
        BY DEF Idle
      <3> QED
        BY <1>1, <3>1, <3>2, FetchInStep
    <2>2. CASE Progress(t)
      BY <1>1, <2>2, SendEndsInStep, BatchEndsInStep, NoteInStep, SaveInStep, NextOfBatchInStep
        DEF Progress
    <2>3. CASE ThreadStep(t)
      BY <1>1, <2>1, <2>2, <2>3, RunWorkerInStep, QueueInStep, SettleInStep, DeliverInStep DEF ThreadStep
    <2>4. CASE UNCHANGED vars
      BY <2>4 DEF vars, Mine, InHand, InHandNext
    <2> QED
      BY <1>1, <2>3, <2>4, RestartInStep, DueInStep DEF Next, OneThread
  <1> QED
    BY <1>2, <1>3, OutboxInvInitially, OutboxInvInductive, PTL DEF Spec

\* A process that serves one request at a time sends no second message unless the
\* outcome of an attempt was lost, although deliver and run_worker note it after
\* the message left and write it to the table later still.
THEOREM OneThreadSendsOnce ==
  ASSUME NEW t, OneThread(t)
  PROVE  Spec => []AtMostOneMessage
  <1>1. OutboxInv /\ InHand(t) => AtMostOneMessage
    BY TypesOfOutbox DEF InHand, Accounted, AtMostOneMessage
  <1> QED
    BY <1>1, OneThreadStaysInStep, PTL

\* "only pending notifications can be delivered", for a process alone: no
\* message leaves for what the table has as sent or cancelled.
THEOREM OnlyPendingStandsDelivered ==
  ASSUME NEW t, OneThread(t)
  PROVE  Spec => OnlyPendingIsDelivered
  <1> DEFINE Kept(n) == db[n].status \in Settled => messages'[n] = messages[n]
  <1>1. ASSUME OutboxInv, InHand(t), Next, NEW n \in Notifications
        PROVE  Kept(n)
    <2>1. CASE SendEnds(t)
      <3>1. t \in Threads /\ act[t].n \in Notifications
        BY <1>1, <2>1, TypesInHand DEF OneThread, SendEnds
      <3>2. db[act[t].n].status \notin Settled
        BY <1>1, <2>1, <3>1 DEF SendEnds, InHand, InStep, Current
      <3>3. n # act[t].n => messages'[n] = messages[n]
        BY <1>1, <2>1, TypesOfOutbox DEF SendEnds, Sent
      <3> QED
        BY <3>2, <3>3
    <2>2. CASE ThreadStep(t) /\ ~SendEnds(t)
      BY <2>2 DEF ThreadStep, Progress, List, RunWorker, Note, Save, BatchEnds, NextOfBatch,
        Queue, Cancel, MarkSent, Deliver, history
    <2>3. ASSUME NEW s \in Servers, Restart(s) PROVE Kept(n)
      BY <2>3 DEF Restart
    <2>4. ASSUME NEW m \in Notifications, NextAttemptIsDue(m) PROVE Kept(n)
      BY <2>4 DEF NextAttemptIsDue, history
    <2> QED
      BY <1>1, <2>1, <2>2, <2>3, <2>4 DEF Next, OneThread
  <1>2. OutboxInv /\ InHand(t) /\ [Next]_vars
          => [\A n \in Notifications : db[n].status \in Settled => messages'[n] = messages[n]]_vars
    BY <1>1
  <1> QED
    BY <1>2, OneThreadStaysInStep, PTL DEF Spec, OnlyPendingIsDelivered

=============================================================================
