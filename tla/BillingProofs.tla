---------------------------- MODULE BillingProofs ----------------------------
(***************************************************************************)
(* Theorems about Billing, for any organizations, subscriptions, offers,   *)
(* threads and bounds: whatever PayPal repeats and reorders, whatever      *)
(* requests cross and wherever they are cut short.                         *)
(*                                                                         *)
(* A webhook and a confirmation write from a row they read earlier.  What  *)
(* carries the proofs is Fit: such a row still names the organization and  *)
(* the offer of the table's, and a status PayPal has reported.             *)
(***************************************************************************)
EXTENDS Billing, WellFoundedInduction, SequenceTheorems, TLAPS

-----------------------------------------------------------------------------
(* The inductive invariant. *)

\* What a request has in hand is what the table and PayPal have said.
Fit(a) ==
  /\ a.at # "idle" => a.sub \in Subs
  /\ a.at \in {"seen", "find", "update", "event"} => a.op = "webhook"
  /\ a.at \in {"ask", "insert"} => a.op = "confirm"
  /\ a.at # "idle" /\ a.op = "webhook" => a.event \in Events /\ a.sub = a.event.sub
  /\ a.op = "confirm" => a.event = NoEvent
  /\ a.at \in {"ask", "update", "insert", "account", "event"}
       => a.row \in Tx /\ a.row.event = a.event
  /\ a.at \in {"update", "insert", "account", "event"}
       => a.row.offer = OfferOf[a.sub] /\ a.row.status \in PayPalStatuses(a.sub)
  /\ a.at \in {"update", "account", "event"} => tx[a.sub].org = a.row.org

RequestsFit == \A t \in Threads : Fit(act[t])

RowsFit ==
  \A s \in Subs : Known(s) => tx[s].offer = OfferOf[s] /\ tx[s].status \in PayPalStatuses(s)

LinkInv == TypeOK /\ RequestsFit /\ RowsFit

\* The account of an organization whose requests did not cross is about to be told the
\* status that the table has.
StatusIsOnItsWay ==
  \A t \in Threads :
    act[t].at = "account" /\ act[t].row.org \notin mixed
      => tx[act[t].sub].status = act[t].row.status

\* An event that makes the next delivery a duplicate is recorded, or about to be, or one of
\* its deliveries was cut short.
Handled(e) ==
  \/ e \in recorded \cup dropped \cup cut
  \/ \E t \in Threads : act[t].event = e /\ act[t].at \in {"account", "event"}

LastEventsAreHandled == \A s \in Subs : tx[s].event # NoEvent => Handled(tx[s].event)

-----------------------------------------------------------------------------
(* What PayPal says. *)

\* A set of numbers that is not empty and has a bound has a greatest number.
LEMMA MaxIn ==
  ASSUME NEW m \in Nat, NEW S \in SUBSET (1..m), S # {}
  PROVE  Max(S) \in S
  <1> DEFINE R == OpToRel(<, Nat)
             Bounds == {k \in Nat : \A i \in S : i <= k}
  <1>1. IsWellFoundedOn(R, Nat)
    BY NatLessThanWellFounded
  <1>2. m \in Bounds
    OBVIOUS
  <1>3. PICK k \in Bounds : \A i \in Bounds : ~(<<i, k>> \in R)
    <2>1. Bounds \subseteq Nat /\ Bounds # {}
      BY <1>2
    <2> HIDE DEF R, Bounds
    <2> QED
      BY <1>1, <2>1, WFMin
  <1>4. \A i \in Bounds : ~(i < k)
    BY <1>3 DEF OpToRel
  <1>5. k \in S
    <2>1. SUFFICES ASSUME k \notin S PROVE FALSE
      OBVIOUS
    <2>2. \A i \in S : i <= k - 1 /\ i >= 1
      BY <2>1
    <2>3. PICK i \in S : i \in 1..m
      OBVIOUS
    <2>4. k - 1 \in Nat
      BY <2>2, <2>3
    <2> QED
      BY <1>4, <2>2, <2>4
  <1>6. \A i \in S : k >= i
    OBVIOUS
  <1> QED
    BY <1>5, <1>6 DEF Max

LEMMA StatusAfterType == ASSUME NEW type, NEW st \in Status PROVE StatusAfter(type, st) \in Status
  BY DEF StatusAfter, Status, Active, Terminal

\* An event's status does not depend on the one before, or is the one before.
LEMMA StatusAfterCases ==
  ASSUME NEW type, NEW st
  PROVE  StatusAfter(type, st) \in {StatusAfter(type, "ACTIVE"), st}
  BY DEF StatusAfter

LEMMA ReportedType == ASSUME TypeOK, NEW s \in Subs PROVE PayPalStatuses(s) \subseteq Status
  <1>1. "ACTIVE" \in Status
    BY DEF Status, Active
  <1> QED
    BY <1>1, StatusAfterType DEF PayPalStatuses

\* What PayPal answers when it is asked is something it has reported.
LEMMA SaidIsReported == ASSUME TypeOK, NEW s \in Subs PROVE PayPalSays(s) \in PayPalStatuses(s)
  <1> DEFINE changes == {n \in DOMAIN sent[s] : sent[s][n] \in LifecycleTypes}
  <1>1. Len(sent[s]) \in Nat /\ DOMAIN sent[s] = 1..Len(sent[s])
    BY DEF TypeOK
  <1>2. changes \in SUBSET (1..Len(sent[s]))
    BY <1>1
  <1>3. changes # {} => Max(changes) \in changes
    <2> HIDE DEF changes
    <2> QED
      BY <1>1, <1>2, MaxIn
  <1>4. changes # {} => StatusAfter(sent[s][Max(changes)], "ACTIVE") \in PayPalStatuses(s)
    BY <1>3 DEF PayPalStatuses
  <1>5. "ACTIVE" \in PayPalStatuses(s)
    BY DEF PayPalStatuses
  <1> QED
    BY <1>4, <1>5 DEF PayPalSays

LEMMA EventReported ==
  ASSUME TypeOK, NEW e \in Events, NEW st \in PayPalStatuses(e.sub)
  PROVE  StatusAfter(sent[e.sub][e.n], st) \in PayPalStatuses(e.sub)
  <1>1. e.sub \in Subs /\ e.n \in DOMAIN sent[e.sub]
    BY DEF Events, TypeOK
  <1>2. StatusAfter(sent[e.sub][e.n], "ACTIVE") \in PayPalStatuses(e.sub)
    BY <1>1 DEF PayPalStatuses
  <1> QED
    BY <1>2, StatusAfterCases

LEMMA EventsType == ASSUME TypeOK PROVE Events \subseteq Event
  BY DEF Events, Event, TypeOK

\* PayPal takes nothing back.
LEMMA SendGrows ==
  ASSUME TypeOK, NEW s \in Subs, NEW type \in Types, Send(s, type)
  PROVE  /\ sent' \in [Subs -> Seq(Types)]
         /\ Events \subseteq Events'
         /\ \A u \in Subs : PayPalStatuses(u) \subseteq PayPalStatuses(u)'
  <1>1. sent' = [sent EXCEPT ![s] = Append(sent[s], type)] /\ sent \in [Subs -> Seq(Types)]
    BY DEF Send, TypeOK
  <1>2. sent' \in [Subs -> Seq(Types)]
    BY <1>1
  <1>3. ASSUME NEW u \in Subs
        PROVE  /\ 1..Len(sent[u]) \subseteq 1..Len(sent'[u])
               /\ \A n \in 1..Len(sent[u]) : sent'[u][n] = sent[u][n]
    <2>1. CASE u = s
      BY <1>1, <2>1
    <2>2. CASE u # s
      BY <1>1, <2>2
    <2> QED
      BY <2>1, <2>2
  <1>4. Events \subseteq Events'
    BY <1>3 DEF Events
  <1>5. ASSUME NEW u \in Subs PROVE PayPalStatuses(u) \subseteq PayPalStatuses(u)'
    <2>1. DOMAIN sent[u] = 1..Len(sent[u]) /\ DOMAIN sent'[u] = 1..Len(sent'[u])
      BY <1>1, <1>2
    <2> QED
      BY <1>3, <2>1 DEF PayPalStatuses
  <1> QED
    BY <1>2, <1>4, <1>5

-----------------------------------------------------------------------------
(* Steps: what every request leaves alone, and where the one that moves comes to. *)

\* Events, reports and links are never taken back.
Grows ==
  /\ Events \subseteq Events'
  /\ \A s \in Subs : PayPalStatuses(s) \subseteq PayPalStatuses(s)'
  /\ \A s \in Subs : tx[s].org # Nobody => tx'[s].org = tx[s].org

Moves(t) ==
  /\ TypeOK' /\ Grows /\ Fit(act[t])'
  /\ \A u \in Threads \ {t} : act'[u] = act[u]

LEMMA Kinds ==
  /\ NoTx \notin Tx /\ NoTx.org = Nobody /\ Nobody \notin Orgs
  /\ \A r \in Tx : r # NoTx /\ r.org \in Orgs /\ r.org # Nobody
  /\ NoEvent.sub = Nobody /\ \A e \in Event : e # NoEvent
  /\ Idle \in Act /\ Idle.at = "idle"
  BY NobodyAssumption DEF NoTx, Tx, Event, NoEvent, Idle, Act

LEMMA IdleFits == Fit(Idle) /\ Fit(Idle)'
  BY DEF Fit, Idle

LEMMA SentSame ==
  ASSUME UNCHANGED sent
  PROVE  Events' = Events /\ \A s : PayPalStatuses(s)' = PayPalStatuses(s)
  BY DEF Events, PayPalStatuses

LEMMA SameGrows == ASSUME UNCHANGED <<sent, tx>> PROVE Grows
  BY SentSame DEF Grows

LEMMA OthersFit ==
  ASSUME LinkInv, Grows, NEW u \in Threads, act'[u] = act[u]
  PROVE  Fit(act[u])'
  <1>1. Fit(act[u])
    BY DEF LinkInv, RequestsFit
  <1>2. act[u].at \in {"update", "account", "event"} => tx'[act[u].sub].org = tx[act[u].sub].org
    BY <1>1, Kinds DEF Fit, Grows
  <1> QED
    BY <1>1, <1>2 DEF Fit, Grows

\* A request that ends, and one that goes on with what it has.
LEMMA DoneMoves ==
  ASSUME LinkInv, NEW t \in Threads, Done(t)
  PROVE  /\ act' \in [Threads -> Act] /\ Fit(act[t])' /\ act'[t] = Idle
         /\ \A u \in Threads \ {t} : act'[u] = act[u]
  BY IdleFits, Kinds DEF LinkInv, TypeOK, Done

LEMMA GoMoves ==
  ASSUME LinkInv, NEW t \in Threads, NEW at \in {"find", "account", "event"}, Go(t, at)
  PROVE  /\ act' \in [Threads -> Act]
         /\ act'[t].at = at /\ act'[t].op = act[t].op /\ act'[t].event = act[t].event
         /\ act'[t].sub = act[t].sub /\ act'[t].row = act[t].row
         /\ \A u \in Threads \ {t} : act'[u] = act[u]
  BY DEF LinkInv, TypeOK, Go, Act

LEMMA DeliverMoves ==
  ASSUME LinkInv, NEW t \in Threads, NEW e \in Events, Deliver(t, e)
  PROVE  Moves(t) /\ UNCHANGED <<sent, tx>>
  <1> DEFINE a == [Idle EXCEPT !.at = "seen", !.event = e, !.sub = e.sub]
  <1>1. e \in Event /\ e.sub \in Subs
    BY EventsType DEF LinkInv, Event
  <1>2. a \in Act
    BY <1>1 DEF Idle, Act
  <1>3. act' \in [Threads -> Act] /\ act'[t] = a /\ \A u \in Threads \ {t} : act'[u] = act[u]
    BY <1>2 DEF Deliver, LinkInv, TypeOK
  <1>4. Grows /\ Events' = Events
    BY SameGrows, SentSame DEF Deliver
  <1>5. Fit(act[t])'
    BY <1>1, <1>3, <1>4 DEF Fit, Idle
  <1>6. repeats' \in Nat
    BY DEF Deliver, LinkInv, TypeOK
  <1>7. TypeOK'
    BY <1>3, <1>4, <1>6 DEF Deliver, LinkInv, TypeOK
  <1> QED
    BY <1>3, <1>4, <1>5, <1>7 DEF Moves, Deliver

LEMMA ConfirmMoves ==
  ASSUME LinkInv, NEW t \in Threads, NEW o \in Orgs, NEW s \in Subs, NEW offer \in Offers,
         Confirm(t, o, s, offer)
  PROVE  Moves(t) /\ UNCHANGED <<sent, tx>>
  <1> DEFINE row == [NoTx EXCEPT !.org = o, !.offer = offer, !.status = "CREATED"]
             a == [Idle EXCEPT !.at = "ask", !.op = "confirm", !.sub = s, !.row = row]
  <1>1. row \in Tx /\ row.event = NoEvent
    BY DEF NoTx, Tx, Status
  <1>2. a \in Act
    BY <1>1 DEF Idle, Act
  <1>3. act' \in [Threads -> Act] /\ act'[t] = a /\ \A u \in Threads \ {t} : act'[u] = act[u]
    BY <1>2 DEF Confirm, LinkInv, TypeOK
  <1>4. Grows /\ Events' = Events
    BY SameGrows, SentSame DEF Confirm
  <1>5. Fit(act[t])'
    BY <1>1, <1>3 DEF Fit, Idle
  <1>6. TypeOK'
    BY <1>3, <1>4 DEF Confirm, LinkInv, TypeOK
  <1> QED
    BY <1>3, <1>4, <1>5, <1>6 DEF Moves, Confirm

LEMMA CheckSeenMoves ==
  ASSUME LinkInv, NEW t \in Threads, CheckSeen(t)
  PROVE  Moves(t) /\ UNCHANGED <<sent, tx>>
  <1>1. Grows /\ Events' = Events
    BY SameGrows, SentSame DEF CheckSeen
  <1>2. Fit(act[t])
    BY DEF LinkInv, RequestsFit
  <1>3. act[t].event \in Events
    BY <1>2 DEF Fit, CheckSeen
  <1>4. accepted' \subseteq Events' /\ dropped' \subseteq accepted'
    BY <1>1, <1>3 DEF CheckSeen, Accept, LinkInv, TypeOK
  <1>5. /\ act' \in [Threads -> Act] /\ Fit(act[t])'
        /\ \A u \in Threads \ {t} : act'[u] = act[u]
    <2>1. CASE Done(t)
      BY <2>1, DoneMoves
    <2>2. CASE Go(t, "find")
      <3>1. Fit(act[t])'
        BY <1>1, <1>2, <2>2, GoMoves DEF Fit, CheckSeen
      <3> QED
        BY <2>2, <3>1, GoMoves
    <2> QED
      BY <2>1, <2>2 DEF CheckSeen
  <1>6. TypeOK'
    BY <1>1, <1>4, <1>5 DEF CheckSeen, LinkInv, TypeOK
  <1> QED
    BY <1>1, <1>5, <1>6 DEF Moves, CheckSeen

\* The row a webhook is going to write.
LEMMA ChangedFits ==
  ASSUME LinkInv, NEW e \in Events, Known(e.sub)
  PROVE  LET row == Changed(tx[e.sub], e)
         IN /\ row \in Tx /\ row.event = e
            /\ row.org = tx[e.sub].org /\ row.offer = OfferOf[e.sub]
            /\ row.status \in PayPalStatuses(e.sub)
  <1>1. e \in Event /\ e.sub \in Subs /\ tx[e.sub] \in Tx
    BY EventsType DEF LinkInv, Event, TypeOK, Known
  <1>2. tx[e.sub].offer = OfferOf[e.sub] /\ tx[e.sub].status \in PayPalStatuses(e.sub)
    BY <1>1 DEF LinkInv, RowsFit
  <1>3. StatusAfter(sent[e.sub][e.n], tx[e.sub].status) \in PayPalStatuses(e.sub)
    BY <1>2, EventReported DEF LinkInv
  <1>4. StatusAfter(sent[e.sub][e.n], tx[e.sub].status) \in Status
    BY <1>1, <1>3, ReportedType DEF LinkInv
  <1> QED
    BY <1>1, <1>2, <1>3, <1>4 DEF Changed, Tx

LEMMA FindMoves ==
  ASSUME LinkInv, NEW t \in Threads, Find(t)
  PROVE  Moves(t) /\ UNCHANGED <<sent, tx>>
  <1>1. Grows /\ Events' = Events /\ \A s : PayPalStatuses(s)' = PayPalStatuses(s)
    BY SameGrows, SentSame DEF Find
  <1>2. Fit(act[t])
    BY DEF LinkInv, RequestsFit
  <1>3. act[t].event \in Events /\ act[t].op = "webhook" /\ act[t].sub = act[t].event.sub
    BY <1>2 DEF Fit, Find
  <1>4. accepted' \subseteq Events' /\ dropped' \subseteq accepted'
    BY <1>1, <1>3 DEF Find, Accept, LinkInv, TypeOK
  <1>5. /\ act' \in [Threads -> Act] /\ Fit(act[t])'
        /\ \A u \in Threads \ {t} : act'[u] = act[u]
    <2>1. CASE Done(t)
      BY <2>1, DoneMoves
    <2>2. CASE /\ Known(act[t].sub)
               /\ act' = [act EXCEPT ![t].at = "update",
                                     ![t].row = Changed(tx[act[t].sub], act[t].event)]
      <3> DEFINE row == Changed(tx[act[t].sub], act[t].event)
      <3>1. /\ row \in Tx /\ row.event = act[t].event
            /\ row.org = tx[act[t].sub].org /\ row.offer = OfferOf[act[t].sub]
            /\ row.status \in PayPalStatuses(act[t].sub)
        BY <1>3, <2>2, ChangedFits
      <3> HIDE DEF row
      <3>2. act' = [act EXCEPT ![t].at = "update", ![t].row = row]
        BY <2>2 DEF row
      <3>3. /\ act' \in [Threads -> Act] /\ \A u \in Threads \ {t} : act'[u] = act[u]
            /\ act'[t].at = "update" /\ act'[t].row = row /\ act'[t].op = act[t].op
            /\ act'[t].event = act[t].event /\ act'[t].sub = act[t].sub
        BY <3>1, <3>2 DEF LinkInv, TypeOK, Act
      <3>4. act[t].sub \in Subs /\ tx' = tx
        BY <1>2 DEF Fit, Find
      <3>5. Fit(act[t])'
        BY <1>1, <1>3, <3>1, <3>3, <3>4 DEF Fit
      <3> QED
        BY <3>3, <3>5
    <2> QED
      BY <2>1, <2>2 DEF Find
  <1>6. TypeOK'
    BY <1>1, <1>4, <1>5 DEF Find, LinkInv, TypeOK
  <1> QED
    BY <1>1, <1>5, <1>6 DEF Moves, Find

LEMMA AskPayPalMoves ==
  ASSUME LinkInv, NEW t \in Threads, AskPayPal(t)
  PROVE  Moves(t) /\ UNCHANGED <<sent, tx>>
  <1>1. Grows /\ Events' = Events /\ \A s : PayPalStatuses(s)' = PayPalStatuses(s)
    BY SameGrows, SentSame DEF AskPayPal
  <1>2. Fit(act[t])
    BY DEF LinkInv, RequestsFit
  <1>3. /\ act[t].op = "confirm" /\ act[t].sub \in Subs /\ act[t].event = NoEvent
        /\ act[t].row \in Tx /\ act[t].row.event = act[t].event
    BY <1>2 DEF Fit, AskPayPal
  <1>4. /\ act' \in [Threads -> Act] /\ Fit(act[t])'
        /\ \A u \in Threads \ {t} : act'[u] = act[u]
    <2>1. CASE Done(t)
      BY <2>1, DoneMoves
    <2>2. CASE /\ OfferOf[act[t].sub] = act[t].row.offer
               /\ act' = [act EXCEPT ![t].at = "insert", ![t].row.status = PayPalSays(act[t].sub)]
      <3> DEFINE row == [act[t].row EXCEPT !.status = PayPalSays(act[t].sub)]
      <3>1. PayPalSays(act[t].sub) \in Status /\ PayPalSays(act[t].sub) \in PayPalStatuses(act[t].sub)
        BY <1>3, SaidIsReported, ReportedType DEF LinkInv
      <3>2. /\ row \in Tx /\ row.event = act[t].event /\ row.offer = OfferOf[act[t].sub]
            /\ row.status \in PayPalStatuses(act[t].sub)
        BY <1>3, <2>2, <3>1 DEF Tx
      <3>3. act' = [act EXCEPT ![t] = [[act[t] EXCEPT !.at = "insert"] EXCEPT !.row = row]]
        BY <1>3, <2>2 DEF LinkInv, TypeOK, Act
      <3> HIDE DEF row
      <3>4. /\ act' \in [Threads -> Act] /\ \A u \in Threads \ {t} : act'[u] = act[u]
            /\ act'[t].at = "insert" /\ act'[t].row = row /\ act'[t].op = act[t].op
            /\ act'[t].event = act[t].event /\ act'[t].sub = act[t].sub
        BY <3>2, <3>3 DEF LinkInv, TypeOK, Act
      <3>5. Fit(act[t])'
        BY <1>1, <1>3, <3>2, <3>4 DEF Fit
      <3> QED
        BY <3>4, <3>5
    <2> QED
      BY <2>1, <2>2 DEF AskPayPal, PlanMatches
  <1>5. TypeOK'
    BY <1>1, <1>4 DEF AskPayPal, LinkInv, TypeOK
  <1> QED
    BY <1>1, <1>4, <1>5 DEF Moves, AskPayPal

LEMMA MixedType ==
  ASSUME LinkInv, NEW t \in Threads, NEW o \in Orgs
  PROVE  Mixed(t, o) \subseteq Orgs /\ mixed \subseteq Mixed(t, o)
  BY DEF LinkInv, TypeOK, Mixed

\* What an update and an insertion write.
RowWritten(t) ==
  LET s == act[t].sub
      row == act[t].row
  IN /\ s \in Subs /\ tx'[s].org = row.org /\ tx'[s].offer = row.offer
     /\ tx'[s].status = row.status /\ tx'[s].event = row.event
     /\ \A u \in Subs \ {s} : tx'[u] = tx[u]
     /\ tx' \in [Subs -> Tx \cup {NoTx}]

LEMMA UpdateMoves ==
  ASSUME LinkInv, NEW t \in Threads, Update(t)
  PROVE  /\ Moves(t) /\ RowWritten(t) /\ UNCHANGED sent
         /\ tx[act[t].sub].org = act[t].row.org /\ act'[t] = [act[t] EXCEPT !.at = "account"]
  <1> DEFINE s == act[t].sub
             row == act[t].row
  <1>1. Fit(act[t])
    BY DEF LinkInv, RequestsFit
  <1>2. /\ s \in Subs /\ row \in Tx /\ row.event = act[t].event /\ tx[s].org = row.org
        /\ row.offer = OfferOf[s] /\ row.status \in PayPalStatuses(s)
    BY <1>1 DEF Fit, Update
  <1>3. tx[s] \in Tx
    BY <1>2, Kinds DEF LinkInv, TypeOK
  <1>4. tx' = [tx EXCEPT ![s] = [[tx[s] EXCEPT !.status = row.status] EXCEPT !.event = row.event]]
    BY <1>2, <1>3 DEF Update, UpdateRow, LinkInv, TypeOK
  <1>5. [[tx[s] EXCEPT !.status = row.status] EXCEPT !.event = row.event] \in Tx
    BY <1>2, <1>3 DEF Tx
  <1>6. /\ tx'[s].org = row.org /\ tx'[s].status = row.status /\ tx'[s].event = row.event
        /\ tx'[s].offer = tx[s].offer
        /\ \A u \in Subs \ {s} : tx'[u] = tx[u]
        /\ tx' \in [Subs -> Tx \cup {NoTx}]
    BY <1>2, <1>3, <1>4, <1>5 DEF LinkInv, TypeOK, Tx
  <1>7. tx[s].offer = OfferOf[s]
    BY <1>2, <1>3, Kinds DEF LinkInv, RowsFit, Known
  <1>8. RowWritten(t)
    BY <1>2, <1>6, <1>7 DEF RowWritten
  <1>9. Events' = Events /\ \A u : PayPalStatuses(u)' = PayPalStatuses(u)
    BY SentSame DEF Update
  <1>10. Grows
    BY <1>2, <1>6, <1>9 DEF Grows
  <1>11. /\ act' \in [Threads -> Act]
         /\ act'[t].at = "account" /\ act'[t].op = act[t].op /\ act'[t].event = act[t].event
         /\ act'[t].sub = s /\ act'[t].row = row
         /\ \A u \in Threads \ {t} : act'[u] = act[u]
    BY GoMoves DEF Update
  <1>12. Fit(act[t])'
    <2>1. act[t].op = "webhook" /\ act[t].event \in Events /\ s = act[t].event.sub
      BY <1>1 DEF Fit, Update
    <2> QED
      BY <1>2, <1>6, <1>9, <1>11, <2>1 DEF Fit
  <1>13. mixed' \subseteq Orgs
    BY <1>2, MixedType DEF Update, Tx
  <1>14. TypeOK'
    BY <1>6, <1>9, <1>11, <1>13 DEF Update, LinkInv, TypeOK
  <1>15. act'[t] = [act[t] EXCEPT !.at = "account"]
    BY DEF Update, Go, LinkInv, TypeOK
  <1> QED
    BY <1>2, <1>8, <1>10, <1>11, <1>12, <1>14, <1>15 DEF Moves, Update

LEMMA InsertMoves ==
  ASSUME LinkInv, NEW t \in Threads, Insert(t)
  PROVE  /\ Moves(t) /\ UNCHANGED sent
         /\ \/ UNCHANGED tx /\ act'[t] = Idle /\ UNCHANGED mixed
            \/ /\ RowWritten(t) /\ ~Known(act[t].sub) /\ mixed' = Mixed(t, act[t].row.org)
               /\ act'[t] = [act[t] EXCEPT !.at = "account"]
  <1> DEFINE s == act[t].sub
             row == act[t].row
  <1>1. Fit(act[t])
    BY DEF LinkInv, RequestsFit
  <1>2. /\ s \in Subs /\ row \in Tx /\ row.event = act[t].event
        /\ row.offer = OfferOf[s] /\ row.status \in PayPalStatuses(s)
    BY <1>1 DEF Fit, Insert
  <1>3. Events' = Events /\ \A u : PayPalStatuses(u)' = PayPalStatuses(u)
    BY SentSame DEF Insert
  <1>4. CASE Taken(s)
    <2>1. Done(t) /\ UNCHANGED <<sent, tx, mixed>>
      BY <1>4 DEF Insert
    <2>2. TypeOK'
      BY <1>3, <2>1, DoneMoves DEF Insert, LinkInv, TypeOK
    <2> QED
      BY <2>1, <2>2, DoneMoves, SameGrows DEF Moves
  <1>5. CASE ~Taken(s)
    <2>1. tx' = [tx EXCEPT ![s] = row] /\ Go(t, "account") /\ mixed' = Mixed(t, row.org)
      BY <1>5 DEF Insert, InsertRow
    <2>2. ~Known(s) /\ tx[s].org = Nobody
      BY <1>5, Kinds DEF Taken, Known
    <2>3. /\ tx'[s] = row /\ \A u \in Subs \ {s} : tx'[u] = tx[u]
          /\ tx' \in [Subs -> Tx \cup {NoTx}]
      BY <1>2, <2>1 DEF LinkInv, TypeOK
    <2>4. RowWritten(t)
      BY <1>2, <2>3 DEF RowWritten
    <2>5. Grows
      BY <1>3, <2>2, <2>3 DEF Grows
    <2>6. /\ act' \in [Threads -> Act]
          /\ act'[t].at = "account" /\ act'[t].op = act[t].op /\ act'[t].event = act[t].event
          /\ act'[t].sub = s /\ act'[t].row = row
          /\ \A u \in Threads \ {t} : act'[u] = act[u]
      BY <2>1, GoMoves
    <2>7. Fit(act[t])'
      <3>1. act[t].op = "confirm" /\ act[t].event = NoEvent
        BY <1>1 DEF Fit, Insert
      <3> QED
        BY <1>2, <1>3, <2>3, <2>6, <3>1 DEF Fit
    <2>8. mixed' \subseteq Orgs
      BY <1>2, <2>1, MixedType DEF Tx
    <2>9. TypeOK'
      BY <1>3, <2>3, <2>6, <2>8 DEF Insert, LinkInv, TypeOK
    <2>10. act'[t] = [act[t] EXCEPT !.at = "account"]
      BY <2>1 DEF Go, LinkInv, TypeOK
    <2> QED
      BY <2>1, <2>2, <2>4, <2>5, <2>6, <2>7, <2>9, <2>10 DEF Moves, Insert
  <1> QED
    BY <1>4, <1>5

LEMMA AccountForType ==
  ASSUME NEW s \in Subs, NEW row \in Tx
  PROVE  AccountFor(s, row) \in Account
  BY DEF AccountFor, AccountStatus, Account, Tx

LEMMA PutAccountMoves ==
  ASSUME LinkInv, NEW t \in Threads, PutAccount(t)
  PROVE  /\ Moves(t) /\ UNCHANGED <<sent, tx, mixed>>
         /\ act[t].row \in Tx /\ act[t].sub \in Subs
         /\ act[t].row.offer = OfferOf[act[t].sub] /\ tx[act[t].sub].org = act[t].row.org
  <1>1. Grows /\ Events' = Events /\ \A s : PayPalStatuses(s)' = PayPalStatuses(s)
    BY SameGrows, SentSame DEF PutAccount
  <1>2. Fit(act[t])
    BY DEF LinkInv, RequestsFit
  <1>3. /\ act[t].row \in Tx /\ act[t].sub \in Subs
        /\ act[t].row.offer = OfferOf[act[t].sub] /\ tx[act[t].sub].org = act[t].row.org
    BY <1>2 DEF Fit, PutAccount
  <1>4. account' \in [Orgs -> Account \cup {NoAccount}]
    BY <1>3, AccountForType DEF PutAccount, UpsertAccount, LinkInv, TypeOK
  <1>5. /\ act' \in [Threads -> Act] /\ Fit(act[t])'
        /\ \A u \in Threads \ {t} : act'[u] = act[u]
    <2>1. CASE Done(t)
      BY <2>1, DoneMoves
    <2>2. CASE act[t].op = "webhook" /\ Go(t, "event")
      <3>1. tx' = tx
        BY DEF PutAccount
      <3>2. Fit(act[t])'
        BY <1>1, <1>2, <2>2, <3>1, GoMoves DEF Fit, PutAccount
      <3> QED
        BY <2>2, <3>2, GoMoves
    <2> QED
      BY <2>1, <2>2 DEF PutAccount
  <1>6. TypeOK'
    BY <1>1, <1>4, <1>5 DEF PutAccount, LinkInv, TypeOK
  <1> QED
    BY <1>1, <1>3, <1>5, <1>6 DEF Moves, PutAccount

LEMMA RecordMoves ==
  ASSUME LinkInv, NEW t \in Threads, Record(t)
  PROVE  Moves(t) /\ UNCHANGED <<sent, tx>> /\ act'[t] = Idle
  <1>1. Grows /\ Events' = Events
    BY SameGrows, SentSame DEF Record
  <1>2. act[t].event \in Events
    BY DEF LinkInv, RequestsFit, Fit, Record
  <1>3. accepted' \subseteq Events' /\ dropped' \subseteq accepted' /\ recorded' \subseteq Events'
    BY <1>1, <1>2 DEF Record, RecordEvent, Accept, LinkInv, TypeOK
  <1>4. TypeOK'
    BY <1>1, <1>3, DoneMoves DEF Record, LinkInv, TypeOK
  <1> QED
    BY <1>1, <1>4, DoneMoves DEF Moves, Record

LEMMA FaultMoves ==
  ASSUME LinkInv, NEW t \in Threads, Fault(t)
  PROVE  Moves(t) /\ UNCHANGED <<sent, tx>> /\ act'[t] = Idle
  <1>1. Grows /\ Events' = Events
    BY SameGrows, SentSame DEF Fault
  <1>2. Fit(act[t])
    BY DEF LinkInv, RequestsFit
  <1>3. cut' \subseteq Events'
    BY <1>1, <1>2 DEF Fault, Fit, LinkInv, TypeOK
  <1>4. mixed' \subseteq Orgs
    BY <1>2 DEF Fault, Fit, LinkInv, TypeOK, Tx
  <1>5. faults' \in Nat
    BY DEF Fault, LinkInv, TypeOK
  <1>6. TypeOK'
    BY <1>1, <1>3, <1>4, <1>5, DoneMoves DEF Fault, LinkInv, TypeOK
  <1> QED
    BY <1>1, <1>6, DoneMoves DEF Moves, Fault

LEMMA SendStep ==
  ASSUME LinkInv, NEW s \in Subs, NEW type \in Types, Send(s, type)
  PROVE  TypeOK' /\ Grows /\ UNCHANGED <<act, tx>>
  <1>1. Grows
    BY SendGrows DEF Send, Grows, LinkInv
  <1>2. TypeOK'
    BY <1>1, SendGrows DEF Send, Grows, LinkInv, TypeOK
  <1> QED
    BY <1>1, <1>2 DEF Send

-----------------------------------------------------------------------------
(* The rows a request works from fit the table. *)

LEMMA InitLink == ASSUME Init PROVE LinkInv
  <1>1. TypeOK
    BY Kinds DEF Init, TypeOK
  <1>2. RequestsFit
    BY IdleFits DEF Init, RequestsFit
  <1>3. RowsFit
    BY DEF Init, RowsFit, Known
  <1> QED
    BY <1>1, <1>2, <1>3 DEF LinkInv

LEMMA MovesFit ==
  ASSUME LinkInv, NEW t \in Threads, Moves(t)
  PROVE  TypeOK' /\ RequestsFit'
  <1>1. \A u \in Threads \ {t} : Fit(act[u])'
    BY OthersFit DEF Moves
  <1> QED
    BY <1>1 DEF Moves, RequestsFit

LEMMA RowsStay == ASSUME LinkInv, Grows, UNCHANGED tx PROVE RowsFit'
  BY DEF LinkInv, RowsFit, Known, Grows

LEMMA RowsWritten ==
  ASSUME LinkInv, Grows, UNCHANGED sent, NEW t \in Threads, RowWritten(t),
         act[t].at \in {"update", "insert"}
  PROVE  RowsFit'
  <1>1. act[t].row.offer = OfferOf[act[t].sub] /\ act[t].row.status \in PayPalStatuses(act[t].sub)
    BY DEF LinkInv, RequestsFit, Fit
  <1>2. \A s : PayPalStatuses(s)' = PayPalStatuses(s)
    BY SentSame
  <1> QED
    BY <1>1, <1>2 DEF LinkInv, RowsFit, Known, RowWritten

\* What each step of a request does to it.
LEMMA RequestMoves ==
  ASSUME LinkInv, NEW t \in Threads,
         \/ \E e \in Events : Deliver(t, e)
         \/ \E o \in Orgs, s \in Subs, offer \in Offers : Confirm(t, o, s, offer)
         \/ Webhook(t) \/ Confirmation(t) \/ Fault(t)
  PROVE  /\ Moves(t) /\ UNCHANGED sent
         /\ UNCHANGED tx \/ (RowWritten(t) /\ (Update(t) \/ Insert(t)))
  <1>1. ASSUME NEW e \in Events, Deliver(t, e) PROVE Moves(t) /\ UNCHANGED <<sent, tx>>
    BY <1>1, DeliverMoves
  <1>2. ASSUME NEW o \in Orgs, NEW s \in Subs, NEW offer \in Offers, Confirm(t, o, s, offer)
        PROVE  Moves(t) /\ UNCHANGED <<sent, tx>>
    BY <1>2, ConfirmMoves
  <1>3. CASE CheckSeen(t) \/ Find(t) \/ PutAccount(t) \/ Record(t) \/ AskPayPal(t) \/ Fault(t)
    BY <1>3, CheckSeenMoves, FindMoves, PutAccountMoves, RecordMoves, AskPayPalMoves, FaultMoves
  <1>4. CASE Update(t) \/ Insert(t)
    BY <1>4, UpdateMoves, InsertMoves
  <1> QED
    BY <1>1, <1>2, <1>3, <1>4 DEF Webhook, Confirmation

LEMMA NextLink == ASSUME LinkInv, [Next]_vars PROVE LinkInv'
  <1>1. ASSUME NEW s \in Subs, NEW type \in Types, Send(s, type)
        PROVE  LinkInv'
    <2>1. TypeOK' /\ Grows /\ UNCHANGED <<act, tx>>
      BY <1>1, SendStep
    <2>2. \A u \in Threads : Fit(act[u])'
      BY <2>1, OthersFit
    <2> QED
      BY <2>1, <2>2, RowsStay DEF LinkInv, RequestsFit
  <1>2. ASSUME NEW t \in Threads,
               \/ \E e \in Events : Deliver(t, e)
               \/ \E o \in Orgs, s \in Subs, offer \in Offers : Confirm(t, o, s, offer)
               \/ Webhook(t) \/ Confirmation(t) \/ Fault(t)
        PROVE  LinkInv'
    <2>1. /\ Moves(t) /\ UNCHANGED sent
          /\ UNCHANGED tx \/ (RowWritten(t) /\ (Update(t) \/ Insert(t)))
      BY <1>2, RequestMoves
    <2>2. TypeOK' /\ RequestsFit'
      BY <2>1, MovesFit
    <2>3. Update(t) \/ Insert(t) => act[t].at \in {"update", "insert"}
      BY DEF Update, Insert
    <2>4. RowsFit'
      BY <2>1, <2>3, RowsStay, RowsWritten DEF Moves
    <2> QED
      BY <2>2, <2>4 DEF LinkInv
  <1>3. CASE UNCHANGED vars
    <2>1. Events' = Events /\ (\A s : PayPalStatuses(s)' = PayPalStatuses(s)) /\ Grows
      BY <1>3, SentSame, SameGrows DEF vars
    <2>2. TypeOK'
      BY <1>3, <2>1 DEF vars, LinkInv, TypeOK
    <2>3. \A u \in Threads : Fit(act[u])'
      BY <1>3, <2>1, OthersFit DEF vars
    <2> QED
      BY <1>3, <2>1, <2>2, <2>3, RowsStay DEF LinkInv, RequestsFit, vars
  <1> QED
    BY <1>1, <1>2, <1>3 DEF Next

\* Every reachable state has its type; every row of a subscription, and every row a request
\* holds, is of the organization and offer the table has, with a status PayPal reported.
THEOREM RowsFitWhatPayPalSaid == Spec => []LinkInv
  <1>1. Init => LinkInv
    BY InitLink
  <1>2. LinkInv /\ [Next]_vars => LinkInv'
    BY NextLink
  <1> QED
    BY <1>1, <1>2, PTL DEF Spec

-----------------------------------------------------------------------------
(* Whose account it is. *)

LEMMA InitAccounts == ASSUME Init PROVE AccountIsTheSubscribers
  <1>1. TypeOK
    BY InitLink DEF LinkInv
  <1> QED
    BY <1>1 DEF Init, AccountIsTheSubscribers

\* Accounts that stay do not become somebody else's: links are for ever.
LEMMA AccountsStay ==
  ASSUME LinkInv, AccountIsTheSubscribers, TypeOK', Grows, UNCHANGED account
  PROVE  AccountIsTheSubscribers'
  <1>1. ASSUME NEW o \in Orgs, account[o] # NoAccount
        PROVE  tx'[account[o].sub].org = o /\ account[o].offer = OfferOf[account[o].sub]
    <2>1. account[o].sub \in Subs
      BY <1>1 DEF LinkInv, TypeOK, Account
    <2>2. tx[account[o].sub].org = o /\ account[o].offer = OfferOf[account[o].sub]
      BY <1>1 DEF AccountIsTheSubscribers
    <2> QED
      BY <2>1, <2>2, Kinds DEF Grows
  <1> QED
    BY <1>1 DEF AccountIsTheSubscribers

LEMMA NextAccounts ==
  ASSUME LinkInv, AccountIsTheSubscribers, [Next]_vars
  PROVE  AccountIsTheSubscribers'
  <1>1. ASSUME NEW t \in Threads, PutAccount(t)
        PROVE  AccountIsTheSubscribers'
    <2> DEFINE s == act[t].sub
               row == act[t].row
    <2>1. /\ Moves(t) /\ UNCHANGED tx /\ row \in Tx /\ s \in Subs
          /\ row.offer = OfferOf[s] /\ tx[s].org = row.org
      BY <1>1, PutAccountMoves
    <2>2. account' = [account EXCEPT ![row.org] = AccountFor(s, row)] /\ row.org \in Orgs
      BY <1>1, <2>1 DEF PutAccount, UpsertAccount, Tx
    <2>3. AccountFor(s, row).sub = s /\ AccountFor(s, row).offer = row.offer
      BY DEF AccountFor
    <2>4. account'[row.org] = AccountFor(s, row) /\ \A o \in Orgs \ {row.org} : account'[o] = account[o]
      BY <2>2 DEF LinkInv, TypeOK
    <2> QED
      BY <2>1, <2>3, <2>4 DEF AccountIsTheSubscribers, Moves
  <1>2. ASSUME NEW t \in Threads,
               \/ \E e \in Events : Deliver(t, e)
               \/ \E o \in Orgs, s \in Subs, offer \in Offers : Confirm(t, o, s, offer)
               \/ CheckSeen(t) \/ Find(t) \/ Update(t) \/ Record(t) \/ Confirmation(t) \/ Fault(t)
        PROVE  AccountIsTheSubscribers'
    <2>1. Moves(t)
      BY <1>2, RequestMoves DEF Webhook
    <2>2. UNCHANGED account
      BY <1>2 DEF Deliver, Confirm, CheckSeen, Find, Update, Record, Confirmation, AskPayPal,
                  Insert, Fault
    <2> QED
      BY <2>1, <2>2, AccountsStay DEF Moves
  <1>3. ASSUME NEW s \in Subs, NEW type \in Types, Send(s, type)
        PROVE  AccountIsTheSubscribers'
    BY <1>3, SendStep, AccountsStay DEF Send
  <1>4. CASE UNCHANGED vars
    BY <1>4, SameGrows, NextLink, AccountsStay DEF vars, LinkInv
  <1> QED
    BY <1>1, <1>2, <1>3, <1>4 DEF Next, Webhook

\* An organization's account names a subscription that is its own, under the offer whose
\* plan it has, although webhooks write it from rows they read before and two
\* organizations may confirm one subscription at once.
THEOREM AccountsAreTheSubscribers == Spec => []AccountIsTheSubscribers
  <1>1. LinkInv /\ LinkInv' /\ AccountIsTheSubscribers /\ [Next]_vars => AccountIsTheSubscribers'
    BY NextAccounts
  <1>2. Init => AccountIsTheSubscribers
    BY InitAccounts
  <1> QED
    BY <1>1, <1>2, RowsFitWhatPayPalSaid, PTL DEF Spec

-----------------------------------------------------------------------------
(* What the account says of the subscription. *)

\* A request is about the organization of the row it holds.
LEMMA AboutItsRow ==
  ASSUME LinkInv, NEW u \in Threads, act[u].at = "account"
  PROVE  /\ OrgOf(u) = act[u].row.org /\ act[u].row.org \in Orgs /\ act[u].sub \in Subs
         /\ tx[act[u].sub].org = act[u].row.org
  BY Kinds DEF LinkInv, RequestsFit, Fit, OrgOf, TypeOK, Act

\* A step after which no request is newly about to write an account, and no row is new.
LEMMA StatusStays ==
  ASSUME StatusIsOnItsWay, NEW t \in Threads, Moves(t), UNCHANGED tx, mixed \subseteq mixed',
         act'[t].at # "account"
  PROVE  StatusIsOnItsWay'
  <1>1. ASSUME NEW u \in Threads, act'[u].at = "account", act'[u].row.org \notin mixed'
        PROVE  tx'[act'[u].sub].status = act'[u].row.status
    <2>1. u # t /\ act'[u] = act[u]
      BY <1>1 DEF Moves
    <2> QED
      BY <1>1, <2>1 DEF StatusIsOnItsWay
  <1> QED
    BY <1>1 DEF StatusIsOnItsWay

LEMMA StatusWritten ==
  ASSUME LinkInv, StatusIsOnItsWay, NEW t \in Threads, Moves(t), RowWritten(t),
         mixed' = Mixed(t, act[t].row.org), act'[t] = [act[t] EXCEPT !.at = "account"],
         tx[act[t].sub].org = act[t].row.org \/ ~Known(act[t].sub)
  PROVE  StatusIsOnItsWay'
  <1>1. act'[t].sub = act[t].sub /\ act'[t].row = act[t].row
    BY DEF LinkInv, TypeOK, Act
  <1>2. ASSUME NEW u \in Threads, act'[u].at = "account", act'[u].row.org \notin mixed'
        PROVE  tx'[act'[u].sub].status = act'[u].row.status
    <2>1. CASE u = t
      BY <1>1, <2>1 DEF RowWritten
    <2>2. CASE u # t
      <3>1. act'[u] = act[u]
        BY <2>2 DEF Moves
      <3>2. /\ OrgOf(u) = act[u].row.org /\ act[u].row.org \in Orgs /\ act[u].sub \in Subs
            /\ tx[act[u].sub].org = act[u].row.org
        BY <1>2, <3>1, AboutItsRow
      <3>3. act[u].sub # act[t].sub
        BY <1>2, <2>2, <3>1, <3>2, Kinds DEF Mixed, Known
      <3>4. act[u].row.org \notin mixed
        BY <1>2, <3>1 DEF Mixed
      <3> QED
        BY <1>2, <3>1, <3>2, <3>3, <3>4 DEF RowWritten, StatusIsOnItsWay
    <2> QED
      BY <2>1, <2>2
  <1> QED
    BY <1>2 DEF StatusIsOnItsWay

LEMMA NextStatus == ASSUME LinkInv, StatusIsOnItsWay, [Next]_vars PROVE StatusIsOnItsWay'
  <1>1. ASSUME NEW s \in Subs, NEW type \in Types, Send(s, type)
        PROVE  StatusIsOnItsWay'
    BY <1>1 DEF Send, StatusIsOnItsWay
  <1>2. ASSUME NEW t \in Threads, NEW e \in Events, Deliver(t, e)
        PROVE  StatusIsOnItsWay'
    <2>1. act'[t].at # "account" /\ UNCHANGED mixed
      BY <1>2 DEF Deliver, LinkInv, TypeOK, Idle
    <2> QED
      BY <1>2, <2>1, DeliverMoves, StatusStays
  <1>3. ASSUME NEW t \in Threads, NEW o \in Orgs, NEW s \in Subs, NEW offer \in Offers,
               Confirm(t, o, s, offer)
        PROVE  StatusIsOnItsWay'
    <2>1. act'[t].at # "account" /\ UNCHANGED mixed
      BY <1>3 DEF Confirm, LinkInv, TypeOK, Idle
    <2> QED
      BY <1>3, <2>1, ConfirmMoves, StatusStays
  <1>4. ASSUME NEW t \in Threads, CheckSeen(t) \/ Find(t) \/ PutAccount(t) \/ AskPayPal(t)
        PROVE  StatusIsOnItsWay'
    <2>1. Moves(t) /\ UNCHANGED tx
      BY <1>4, CheckSeenMoves, FindMoves, PutAccountMoves, AskPayPalMoves
    <2>2. UNCHANGED mixed
      BY <1>4 DEF CheckSeen, Find, PutAccount, AskPayPal
    <2>3. act[t] \in Act /\ act \in [Threads -> Act]
      BY DEF LinkInv, TypeOK
    <2>4. act'[t].at # "account"
      BY <1>4, <2>3 DEF CheckSeen, Find, PutAccount, AskPayPal, Go, Done, Idle, Act
    <2> QED
      BY <2>1, <2>2, <2>4, StatusStays
  <1>5. ASSUME NEW t \in Threads, Record(t) \/ Fault(t)
        PROVE  StatusIsOnItsWay'
    <2>1. Moves(t) /\ UNCHANGED tx /\ act'[t] = Idle
      BY <1>5, RecordMoves, FaultMoves
    <2>2. mixed \subseteq mixed'
      BY <1>5 DEF Record, Fault
    <2> QED
      BY <2>1, <2>2, Kinds, StatusStays
  <1>6. ASSUME NEW t \in Threads, Update(t)
        PROVE  StatusIsOnItsWay'
    BY <1>6, UpdateMoves, StatusWritten DEF Update
  <1>7. ASSUME NEW t \in Threads, Insert(t)
        PROVE  StatusIsOnItsWay'
    <2>1. CASE UNCHANGED tx /\ act'[t] = Idle /\ UNCHANGED mixed
      BY <1>7, <2>1, InsertMoves, Kinds, StatusStays
    <2>2. CASE ~(UNCHANGED tx /\ act'[t] = Idle /\ UNCHANGED mixed)
      BY <1>7, <2>2, InsertMoves, StatusWritten
    <2> QED
      BY <2>1, <2>2
  <1>8. CASE UNCHANGED vars
    BY <1>8 DEF vars, StatusIsOnItsWay
  <1> QED
    BY <1>1, <1>2, <1>3, <1>4, <1>5, <1>6, <1>7, <1>8 DEF Next, Webhook, Confirmation

\* An organization no request is about to write the account of, and none was in the step.
Settled(o) == \A t \in Threads : act[t].at = "account" => act[t].row.org # o

\* What the account says of one organization.
Tells(o) ==
  /\ account[o] # NoAccount => account[o] = AccountFor(account[o].sub, tx[account[o].sub])
  /\ (\E s \in Subs : tx[s].org = o) => account[o] # NoAccount

LEMMA TellsAll ==
  /\ AccountTellsTransaction <=> \A o \in Orgs \ mixed : Settled(o) => Tells(o)
  /\ AccountTellsTransaction' <=> \A o \in Orgs \ mixed' : Settled(o)' => Tells(o)'
  BY DEF AccountTellsTransaction, Settled, Tells

\* A step that writes no row and no account.
LEMMA TellsStay ==
  ASSUME AccountTellsTransaction, NEW t \in Threads, Moves(t), UNCHANGED <<tx, account>>,
         mixed \subseteq mixed',
         act[t].at = "account" => act[t].row.org \in mixed'
  PROVE  AccountTellsTransaction'
  <1>1. ASSUME NEW o \in Orgs \ mixed', Settled(o)' PROVE Tells(o)'
    <2>1. Settled(o)
      BY <1>1 DEF Settled, Moves
    <2>2. Tells(o)
      BY <1>1, <2>1, TellsAll
    <2> QED
      BY <2>2 DEF Tells
  <1> QED
    BY <1>1, TellsAll

LEMMA TellsWritten ==
  ASSUME LinkInv, AccountIsTheSubscribers, AccountTellsTransaction, NEW t \in Threads, Moves(t),
         RowWritten(t), UNCHANGED account, mixed \subseteq mixed',
         act[t].at # "account", act'[t] = [act[t] EXCEPT !.at = "account"]
  PROVE  AccountTellsTransaction'
  <1>1. act'[t].at = "account" /\ act'[t].row = act[t].row
    BY DEF LinkInv, TypeOK, Act
  <1>2. ASSUME NEW o \in Orgs \ mixed', Settled(o)' PROVE Tells(o)'
    <2>1. o # act[t].row.org
      BY <1>1, <1>2 DEF Settled
    <2>2. Tells(o)
      BY <1>2, TellsAll DEF Settled, Moves
    <2>3. \A s \in Subs : (tx'[s].org = o \/ tx[s].org = o) => tx'[s] = tx[s]
      BY <2>1, Kinds DEF RowWritten, Moves, Grows
    <2>4. account[o] # NoAccount => account[o].sub \in Subs /\ tx[account[o].sub].org = o
      BY DEF AccountIsTheSubscribers, TypeOK, Account
    <2> QED
      BY <2>2, <2>3, <2>4 DEF Tells, AccountFor
  <1> QED
    BY <1>2, TellsAll

LEMMA TellsPut ==
  ASSUME LinkInv, StatusIsOnItsWay, AccountTellsTransaction, NEW t \in Threads, PutAccount(t)
  PROVE  AccountTellsTransaction'
  <1> DEFINE s == act[t].sub
             row == act[t].row
  <1>1. /\ Moves(t) /\ UNCHANGED <<tx, mixed>> /\ row \in Tx /\ s \in Subs
        /\ row.offer = OfferOf[s] /\ tx[s].org = row.org
    BY PutAccountMoves
  <1>2. account' = [account EXCEPT ![row.org] = AccountFor(s, row)] /\ row.org \in Orgs
    BY <1>1 DEF PutAccount, UpsertAccount, Tx
  <1>3. account'[row.org] = AccountFor(s, row) /\ \A o \in Orgs \ {row.org} : account'[o] = account[o]
    BY <1>2 DEF LinkInv, TypeOK
  <1>4. tx[s].offer = row.offer
    BY <1>1, <1>2, Kinds DEF LinkInv, RowsFit, Known
  <1>5. ASSUME NEW o \in Orgs \ mixed', Settled(o)' PROVE Tells(o)'
    <2>1. CASE o = row.org
      <3>1. tx[s].status = row.status
        BY <1>1, <1>5, <2>1 DEF StatusIsOnItsWay, PutAccount
      <3>2. AccountFor(s, row) = AccountFor(s, tx[s]) /\ AccountFor(s, row).sub = s
        BY <1>4, <3>1 DEF AccountFor
      <3>3. AccountFor(s, row) # NoAccount
        BY <1>1, <3>2, NobodyAssumption DEF NoAccount
      <3> QED
        BY <1>1, <1>3, <2>1, <3>2, <3>3 DEF Tells, AccountFor
    <2>2. CASE o # row.org
      <3>1. Settled(o)
        BY <1>1, <1>5, <2>2 DEF Settled, Moves
      <3>2. Tells(o)
        BY <1>1, <1>5, <3>1, TellsAll
      <3> QED
        BY <1>1, <1>3, <2>2, <3>2 DEF Tells, AccountFor
    <2> QED
      BY <2>1, <2>2
  <1> QED
    BY <1>5, TellsAll

LEMMA NextTells ==
  ASSUME LinkInv, AccountIsTheSubscribers, StatusIsOnItsWay, AccountTellsTransaction, [Next]_vars
  PROVE  AccountTellsTransaction'
  <1>1. ASSUME NEW s \in Subs, NEW type \in Types, Send(s, type)
        PROVE  AccountTellsTransaction'
    BY <1>1 DEF Send, AccountTellsTransaction, AccountFor
  <1>2. ASSUME NEW t \in Threads,
               \/ \E e \in Events : Deliver(t, e)
               \/ \E o \in Orgs, s \in Subs, offer \in Offers : Confirm(t, o, s, offer)
               \/ CheckSeen(t) \/ Find(t) \/ AskPayPal(t) \/ Record(t)
        PROVE  AccountTellsTransaction'
    <2>1. Moves(t)
      BY <1>2, RequestMoves DEF Webhook, Confirmation
    <2>2. UNCHANGED <<tx, account, mixed>> /\ act[t].at # "account"
      BY <1>2 DEF Deliver, Confirm, CheckSeen, Find, AskPayPal, Record
    <2> QED
      BY <2>1, <2>2, TellsStay
  <1>3. ASSUME NEW t \in Threads, Fault(t)
        PROVE  AccountTellsTransaction'
    <2>1. /\ UNCHANGED account /\ mixed \subseteq mixed'
          /\ act[t].at = "account" => act[t].row.org \in mixed'
      BY <1>3 DEF Fault
    <2> QED
      BY <1>3, <2>1, FaultMoves, TellsStay
  <1>4. ASSUME NEW t \in Threads, Update(t)
        PROVE  AccountTellsTransaction'
    <2>1. UNCHANGED account /\ act[t].at # "account" /\ mixed \subseteq mixed'
      BY <1>4 DEF Update, Mixed
    <2> QED
      BY <1>4, <2>1, UpdateMoves, TellsWritten
  <1>5. ASSUME NEW t \in Threads, Insert(t)
        PROVE  AccountTellsTransaction'
    <2>1. UNCHANGED account /\ act[t].at # "account" /\ mixed \subseteq mixed'
      BY <1>5 DEF Insert, Mixed
    <2> QED
      BY <1>5, <2>1, InsertMoves, TellsStay, TellsWritten
  <1>6. ASSUME NEW t \in Threads, PutAccount(t)
        PROVE  AccountTellsTransaction'
    BY <1>6, TellsPut
  <1>7. CASE UNCHANGED vars
    BY <1>7 DEF vars, AccountTellsTransaction, AccountFor
  <1> QED
    BY <1>1, <1>2, <1>3, <1>4, <1>5, <1>6, <1>7 DEF Next, Webhook, Confirmation

LEMMA InitTells == ASSUME Init PROVE StatusIsOnItsWay /\ AccountTellsTransaction
  <1>1. StatusIsOnItsWay
    BY Kinds DEF Init, StatusIsOnItsWay
  <1>2. AccountTellsTransaction
    BY Kinds DEF Init, AccountTellsTransaction
  <1> QED
    BY <1>1, <1>2

\* Unless two requests about an organization were under way at once or one was cut short,
\* its account agrees with the transaction of the subscription it names, and is there as
\* soon as there is a transaction.
THEOREM AccountsTellTransactions == Spec => []AccountTellsTransaction
  <1>1. Init => StatusIsOnItsWay /\ AccountTellsTransaction
    BY InitTells
  <1>2. /\ LinkInv /\ AccountIsTheSubscribers
        /\ StatusIsOnItsWay /\ AccountTellsTransaction /\ [Next]_vars
        => (StatusIsOnItsWay /\ AccountTellsTransaction)'
    BY NextStatus, NextTells
  <1> QED
    BY <1>1, <1>2, RowsFitWhatPayPalSaid, AccountsAreTheSubscribers, PTL DEF Spec

-----------------------------------------------------------------------------
(* What the event log has of the accepted events. *)

LEMMA AcceptedAreHandled ==
  /\ AcceptedIsRecorded <=> \A e \in accepted : Handled(e)
  /\ AcceptedIsRecorded' <=> \A e \in accepted' : Handled(e)'
  BY DEF AcceptedIsRecorded, Handled

\* A handled event stays so unless the request that was about to record it ends otherwise.
LEMMA HandledStays ==
  ASSUME NEW t \in Threads, \A u \in Threads \ {t} : act'[u] = act[u],
         recorded \subseteq recorded', dropped \subseteq dropped', cut \subseteq cut',
         NEW e, Handled(e),
         act[t].event = e /\ act[t].at \in {"account", "event"} =>
           \/ e \in recorded' \cup cut'
           \/ act'[t].event = e /\ act'[t].at \in {"account", "event"}
  PROVE  Handled(e)'
  BY DEF Handled

EventInv == LastEventsAreHandled /\ AcceptedIsRecorded

\* A step that overwrites no row's event and accepts none but handled ones.
LEMMA EventsStay ==
  ASSUME EventInv, UNCHANGED tx, \A e \in Events : Handled(e) => Handled(e)',
         accepted \subseteq Events, \A s \in Subs : tx[s].event \in Events \cup {NoEvent},
         \A e \in accepted' \ accepted : Handled(e)'
  PROVE  EventInv'
  <1>1. LastEventsAreHandled'
    BY DEF EventInv, LastEventsAreHandled
  <1>2. AcceptedIsRecorded'
    BY AcceptedAreHandled DEF EventInv
  <1> QED
    BY <1>1, <1>2 DEF EventInv

\* The rows' events were sent.
EventsSent == \A s \in Subs : tx[s].event \in Events \cup {NoEvent}

LEMMA InitEvents == ASSUME Init PROVE EventsSent /\ EventInv
  BY DEF Init, EventsSent, EventInv, LastEventsAreHandled, AcceptedIsRecorded, NoTx

LEMMA NextSent == ASSUME LinkInv, EventsSent, [Next]_vars PROVE EventsSent'
  <1>1. CASE UNCHANGED vars
    BY <1>1, SentSame DEF vars, EventsSent
  <1>2. ASSUME NEW s \in Subs, NEW type \in Types, Send(s, type)
        PROVE  EventsSent'
    BY <1>2, SendStep DEF EventsSent, Grows
  <1>3. ASSUME NEW t \in Threads,
               \/ \E e \in Events : Deliver(t, e)
               \/ \E o \in Orgs, s \in Subs, offer \in Offers : Confirm(t, o, s, offer)
               \/ Webhook(t) \/ Confirmation(t) \/ Fault(t)
        PROVE  EventsSent'
    <2>1. /\ Moves(t) /\ UNCHANGED sent
          /\ UNCHANGED tx \/ (RowWritten(t) /\ (Update(t) \/ Insert(t)))
      BY <1>3, RequestMoves
    <2>2. Update(t) \/ Insert(t) => act[t].row.event \in Events \cup {NoEvent}
      BY DEF Update, Insert, LinkInv, RequestsFit, Fit
    <2>3. Events' = Events
      BY <2>1, SentSame
    <2> QED
      BY <2>1, <2>2, <2>3 DEF EventsSent, RowWritten
  <1> QED
    BY <1>1, <1>2, <1>3 DEF Next

LEMMA RequestEvents ==
  ASSUME LinkInv, EventsSent, EventInv, NEW t \in Threads,
         \/ \E e \in Events : Deliver(t, e)
         \/ \E o \in Orgs, s \in Subs, offer \in Offers : Confirm(t, o, s, offer)
         \/ Webhook(t) \/ Confirmation(t) \/ Fault(t)
  PROVE  EventInv'
  <1>1. Moves(t)
    BY RequestMoves
  <1>2. /\ \A u \in Threads \ {t} : act'[u] = act[u]
        /\ act[t] \in Act /\ act \in [Threads -> Act] /\ Fit(act[t])
    BY <1>1 DEF Moves, LinkInv, TypeOK, RequestsFit
  <1>3. accepted \subseteq Events /\ \A s \in Subs : tx[s].event \in Events \cup {NoEvent}
    BY DEF LinkInv, TypeOK, EventsSent
  <1>4. Events \subseteq Event /\ NoEvent \notin Event
    BY EventsType, Kinds DEF LinkInv
  <1>5. CASE \/ \E e \in Events : Deliver(t, e)
             \/ \E o \in Orgs, s \in Subs, offer \in Offers : Confirm(t, o, s, offer)
             \/ AskPayPal(t)
    <2>1. UNCHANGED <<tx, accepted, recorded, dropped, cut>> /\ act[t].at \in {"idle", "ask"}
      BY <1>5 DEF Deliver, Confirm, AskPayPal
    <2>2. \A e \in Events : Handled(e) => Handled(e)'
      BY <1>2, <2>1, HandledStays
    <2> QED
      BY <1>3, <2>1, <2>2, EventsStay
  <1>6. CASE CheckSeen(t)
    <2>1. UNCHANGED <<tx, recorded, dropped, cut>> /\ act[t].at = "seen"
      BY <1>6 DEF CheckSeen
    <2>2. \A e \in Events : Handled(e) => Handled(e)'
      BY <1>2, <2>1, HandledStays
    <2>3. ASSUME NEW e \in accepted' \ accepted PROVE Handled(e)'
      <3>1. e = act[t].event /\ Seen(e)
        BY <1>6, <2>3 DEF CheckSeen, Accept
      <3>2. e \in Events
        BY <1>2, <2>1, <3>1 DEF Fit
      <3>3. Handled(e)
        BY <1>4, <3>1, <3>2 DEF Seen, EventInv, LastEventsAreHandled
      <3> QED
        BY <2>2, <3>2, <3>3
    <2> QED
      BY <1>3, <2>1, <2>2, <2>3, EventsStay
  <1>7. CASE Find(t)
    <2>1. /\ UNCHANGED <<tx, recorded, cut>> /\ act[t].at = "find" /\ dropped \subseteq dropped'
          /\ \A e \in accepted' \ accepted : e \in dropped'
      BY <1>7 DEF Find, Accept
    <2>2. \A e \in Events : Handled(e) => Handled(e)'
      BY <1>2, <2>1, HandledStays
    <2>3. \A e \in accepted' \ accepted : Handled(e)'
      BY <2>1 DEF Handled
    <2> QED
      BY <1>3, <2>1, <2>2, <2>3, EventsStay
  <1>8. CASE PutAccount(t)
    <2>1. UNCHANGED <<tx, accepted, recorded, dropped, cut>>
      BY <1>8 DEF PutAccount
    <2>2. ASSUME NEW e \in Events, Handled(e) PROVE Handled(e)'
      <3>1. act[t].event = e => act[t].op = "webhook"
        BY <1>2, <1>4 DEF Fit, Act
      <3>2. act[t].event = e => act'[t].event = e /\ act'[t].at = "event"
        BY <1>2, <1>8, <3>1 DEF PutAccount, Go, Act
      <3> QED
        BY <1>2, <2>1, <2>2, <3>2, HandledStays
    <2> QED
      BY <1>3, <2>1, <2>2, EventsStay
  <1>9. CASE Record(t)
    <2>1. /\ UNCHANGED <<tx, dropped, cut>> /\ recorded \subseteq recorded'
          /\ act[t].event \in recorded' /\ \A e \in accepted' \ accepted : e = act[t].event
      BY <1>9 DEF Record, RecordEvent, Accept
    <2>2. \A e \in Events : Handled(e) => Handled(e)'
      BY <1>2, <2>1, HandledStays
    <2>3. \A e \in accepted' \ accepted : Handled(e)'
      BY <2>1 DEF Handled
    <2> QED
      BY <1>3, <2>1, <2>2, <2>3, EventsStay
  <1>10. CASE Fault(t)
    <2>1. UNCHANGED <<tx, accepted, recorded, dropped>> /\ cut \subseteq cut'
      BY <1>10 DEF Fault
    <2>2. ASSUME NEW e \in Events, Handled(e) PROVE Handled(e)'
      <3>1. act[t].event = e => act[t].op = "webhook"
        BY <1>2, <1>4 DEF Fit, Act
      <3>2. act[t].event = e /\ act[t].at \in {"account", "event"} => e \in cut'
        BY <1>10, <3>1 DEF Fault
      <3> QED
        BY <1>2, <2>1, <2>2, <3>2, HandledStays
    <2> QED
      BY <1>3, <2>1, <2>2, EventsStay
  <1>11. CASE Update(t) \/ Insert(t)
    <2>1. UNCHANGED <<accepted, recorded, dropped, cut>> /\ act[t].at \in {"update", "insert"}
      BY <1>11 DEF Update, Insert
    <2>2. \A e \in Events : Handled(e) => Handled(e)'
      BY <1>2, <2>1, HandledStays
    <2>3. CASE UNCHANGED tx
      BY <1>3, <2>1, <2>2, <2>3, EventsStay
    <2>4. CASE ~UNCHANGED tx
      <3>1. RowWritten(t) /\ act'[t] = [act[t] EXCEPT !.at = "account"]
        BY <1>11, <2>4, UpdateMoves, InsertMoves
      <3>2. act'[t].at = "account" /\ act'[t].event = act[t].event /\ act[t].row.event = act[t].event
        BY <1>2, <2>1, <3>1 DEF Fit, Act
      <3>3. Handled(act[t].event)'
        BY <3>2 DEF Handled
      <3>4. LastEventsAreHandled'
        BY <1>3, <2>2, <3>1, <3>2, <3>3 DEF LastEventsAreHandled, EventInv, RowWritten
      <3>5. AcceptedIsRecorded'
        BY <1>3, <2>1, <2>2, AcceptedAreHandled DEF EventInv
      <3> QED
        BY <3>4, <3>5 DEF EventInv
    <2> QED
      BY <2>3, <2>4
  <1> QED
    BY <1>5, <1>6, <1>7, <1>8, <1>9, <1>10, <1>11 DEF Webhook, Confirmation

LEMMA NextEvents == ASSUME LinkInv, EventsSent, EventInv, [Next]_vars PROVE EventInv'
  <1>1. ASSUME NEW s \in Subs, NEW type \in Types, Send(s, type)
        PROVE  EventInv'
    BY <1>1 DEF Send, EventInv, LastEventsAreHandled, AcceptedIsRecorded, Handled
  <1>2. CASE UNCHANGED vars
    BY <1>2 DEF vars, EventInv, LastEventsAreHandled, AcceptedIsRecorded, Handled
  <1> QED
    BY <1>1, <1>2, RequestEvents DEF Next

\* An event PayPal need not send again is in billing_events, or about to be, unless its
\* subscription was not known when it came or one of its deliveries was cut short.
THEOREM AcceptedEventsAreRecorded == Spec => []AcceptedIsRecorded
  <1>1. Init => EventsSent /\ EventInv
    BY InitEvents
  <1>2. LinkInv /\ EventsSent /\ EventInv /\ [Next]_vars => (EventsSent /\ EventInv)'
    BY NextSent, NextEvents
  <1>3. EventInv => AcceptedIsRecorded
    BY DEF EventInv
  <1> QED
    BY <1>1, <1>2, <1>3, RowsFitWhatPayPalSaid, PTL DEF Spec

-----------------------------------------------------------------------------
(* The table is a ledger. *)

LEMMA InitLedger == ASSUME Init PROVE Ledger!Init
  <1>1. LinkInv
    BY InitLink
  <1>2. \A s \in Subs : PayPalStatuses(s) \in SUBSET Status
    BY <1>1, ReportedType DEF LinkInv
  <1> QED
    BY <1>2 DEF Init, Ledger!Init, NoTx

\* A step that writes no row reports at most.
LEMMA LedgerReports == ASSUME Grows, UNCHANGED tx PROVE Ledger!Report
  BY DEF Ledger!Report, Grows

LEMMA LedgerTells ==
  ASSUME LinkInv, NEW t \in Threads, Update(t), NEW s, s = act[t].sub
  PROVE  Ledger!Tell(s)
  <1>1. /\ RowWritten(t) /\ UNCHANGED sent /\ tx[s].org = act[t].row.org
        /\ s \in Subs /\ act[t].row.org \in Orgs /\ act[t].row.status \in PayPalStatuses(s)
    BY UpdateMoves, Kinds DEF RowWritten, LinkInv, RequestsFit, Fit, Update
  <1>2. \A u : PayPalStatuses(u)' = PayPalStatuses(u)
    BY <1>1, SentSame
  <1>3. [u \in Subs |-> tx'[u].status]
          = [[u \in Subs |-> tx[u].status] EXCEPT ![s] = act[t].row.status]
    BY <1>1 DEF RowWritten
  <1>4. [u \in Subs |-> tx'[u].org] = [u \in Subs |-> tx[u].org]
    BY <1>1 DEF RowWritten
  <1> QED
    BY <1>1, <1>2, <1>3, <1>4, Kinds DEF Ledger!Tell

LEMMA LedgerLinks ==
  ASSUME LinkInv, NEW t \in Threads, Insert(t), ~UNCHANGED tx,
         NEW s, s = act[t].sub, NEW o, o = act[t].row.org
  PROVE  Ledger!Link(s, o)
  <1>1. /\ RowWritten(t) /\ UNCHANGED sent /\ ~Known(s)
        /\ s \in Subs /\ o \in Orgs /\ act[t].row.status \in PayPalStatuses(s)
    BY InsertMoves, Kinds DEF RowWritten, LinkInv, RequestsFit, Fit, Insert
  <1>2. \A u : PayPalStatuses(u)' = PayPalStatuses(u)
    BY <1>1, SentSame
  <1>3. [u \in Subs |-> tx'[u].status]
          = [[u \in Subs |-> tx[u].status] EXCEPT ![s] = act[t].row.status]
    BY <1>1 DEF RowWritten
  <1>4. [u \in Subs |-> tx'[u].org] = [[u \in Subs |-> tx[u].org] EXCEPT ![s] = o]
    BY <1>1 DEF RowWritten
  <1>5. tx[s].org = Nobody
    BY <1>1, Kinds DEF Known
  <1> QED
    BY <1>1, <1>2, <1>3, <1>4, <1>5 DEF Ledger!Link

LEMMA NextLedger == ASSUME LinkInv, [Next]_vars PROVE [Ledger!Next]_(Ledger!ledger)
  <1>1. ASSUME NEW s \in Subs, NEW type \in Types, Send(s, type) PROVE Ledger!Next
    BY <1>1, SendStep, LedgerReports DEF Ledger!Next
  <1>2. ASSUME NEW t \in Threads,
               \/ \E e \in Events : Deliver(t, e)
               \/ \E o \in Orgs, s \in Subs, offer \in Offers : Confirm(t, o, s, offer)
               \/ Webhook(t) \/ Confirmation(t) \/ Fault(t)
        PROVE  Ledger!Next
    <2>1. CASE UNCHANGED tx
      BY <1>2, <2>1, RequestMoves, LedgerReports DEF Ledger!Next, Moves
    <2>2. CASE ~UNCHANGED tx
      <3>1. Update(t) \/ Insert(t)
        BY <1>2, <2>2, RequestMoves
      <3>2. act[t].sub \in Subs /\ act[t].row.org \in Orgs
        BY <3>1, Kinds DEF LinkInv, RequestsFit, Fit, Update, Insert
      <3> PICK s \in Subs, o \in Orgs : s = act[t].sub /\ o = act[t].row.org
        BY <3>2
      <3>3. CASE Update(t)
        BY <3>3, LedgerTells DEF Ledger!Next
      <3>4. CASE Insert(t)
        BY <2>2, <3>4, LedgerLinks DEF Ledger!Next
      <3> QED
        BY <3>1, <3>3, <3>4
    <2> QED
      BY <2>1, <2>2
  <1>3. CASE UNCHANGED vars
    <2>1. Grows
      BY <1>3, SameGrows DEF vars
    <2> QED
      BY <1>3, <2>1, LedgerReports DEF Ledger!Next, vars
  <1> QED
    BY <1>1, <1>2, <1>3 DEF Next

\* The billing table is a ledger: a subscription is linked to at most one organization,
\* once and for ever, and its row says only what PayPal has said of it, however webhooks
\* and confirmations cross, repeat and fail.
THEOREM ImplementsLedger == Spec => LedgerSpec
  <1>1. Init => Ledger!Init
    BY InitLedger
  <1>2. LinkInv /\ [Next]_vars => [Ledger!Next]_(Ledger!ledger)
    BY NextLedger
  <1> QED
    BY <1>1, <1>2, RowsFitWhatPayPalSaid, PTL DEF Spec, LedgerSpec, Ledger!Spec

=============================================================================
