------------------------------ MODULE Billing ------------------------------
(***************************************************************************)
(* PayPal subscriptions: the webhook and the confirmation route of         *)
(* src/api_server.py over the tables of src/postgres_api_repository.py.    *)
(*                                                                         *)
(* A request is a few reads and then one transaction for each table; any   *)
(* may fail, and the process may die between them.  PayPal sends an event  *)
(* again until it is answered with 200, may send it again after that, and  *)
(* does not keep the events in order.  Events other than a subscription's  *)
(* find no row and are left out, as are the routes that only read.         *)
(***************************************************************************)
EXTENDS Naturals, Sequences, FiniteSetsExt

CONSTANTS
  Threads,          \* the threads that serve requests
  Orgs, Subs,       \* organizations and PayPal subscriptions
  Offers, OfferOf,  \* offers, and the one whose plan each subscription has
  Types,            \* the types of event that PayPal sends of subscriptions
  Nobody,           \* no organization, no subscription, no status
  MaxEvents,        \* bound: events that PayPal sends
  MaxRepeats,       \* bound: deliveries of events that were accepted before
  MaxFaults         \* bound: transactions that fail and processes that die

ASSUME OfferAssumption == OfferOf \in [Subs -> Offers]
ASSUME BoundAssumption == MaxEvents \in Nat /\ MaxRepeats \in Nat /\ MaxFaults \in Nat
ASSUME NobodyAssumption == Nobody \notin Orgs \cup Subs

VARIABLES
  sent,       \* external: the types of the events PayPal has sent of each subscription
  accepted,   \* external: the events that were answered with 200
  dropped,    \* history: the events that were accepted while their subscription was not known
  tx,         \* table billing_transactions, by the subscription, which is unique in it
  account,    \* table billing_accounts, by the organization
  recorded,   \* table billing_events: the events in it
  act,        \* where each thread is
  cut,        \* history: the requests that ended after their first write and before the last
  mixed,      \* history: organizations with requests cut short or under way at once
  repeats, faults

vars == <<sent, accepted, dropped, tx, account, recorded, act, cut, mixed, repeats, faults>>

Active == {"ACTIVE", "COMPLETED", "APPROVED", "TRIALING"}
Terminal == {"CANCELLED", "SUSPENDED", "EXPIRED", "PAYMENT_FAILED", "DENIED", "REVERSED",
             "REFUNDED"}
Status == Active \cup Terminal \cup {"CREATED", "APPROVAL_PENDING"}

\* account_status
AccountStatus(status) ==
  CASE status \in Active -> "active"
    [] status \in Terminal -> "restricted"
    [] OTHER -> "pending"

\* status_map: an event of a type it does not know leaves the status as it is.
StatusAfter(type, status) ==
  CASE type \in {"BILLING.SUBSCRIPTION.ACTIVATED", "BILLING.SUBSCRIPTION.UPDATED",
                 "PAYMENT.SALE.COMPLETED"} -> "ACTIVE"
    [] type = "BILLING.SUBSCRIPTION.CANCELLED" -> "CANCELLED"
    [] type = "BILLING.SUBSCRIPTION.SUSPENDED" -> "SUSPENDED"
    [] type = "BILLING.SUBSCRIPTION.EXPIRED" -> "EXPIRED"
    [] type = "BILLING.SUBSCRIPTION.PAYMENT.FAILED" -> "PAYMENT_FAILED"
    [] type = "PAYMENT.SALE.REFUNDED" -> "REFUNDED"
    [] type = "PAYMENT.SALE.REVERSED" -> "REVERSED"
    [] OTHER -> status

Event == [sub : Subs, n : Nat]
Events == UNION {[sub : {s}, n : 1..Len(sent[s])] : s \in Subs}
NoEvent == [sub |-> Nobody, n |-> 0]

Tx == [org : Orgs, offer : Offers, status : Status, event : Event \cup {NoEvent}]
NoTx == [org |-> Nobody, offer |-> Nobody, status |-> Nobody, event |-> NoEvent]
Account == [sub : Subs, offer : Offers, status : {"active", "restricted", "pending"}]
NoAccount == [sub |-> Nobody, offer |-> Nobody, status |-> "trial"]

\* What a request holds: the event or the subscription, and the row it read or made.
Act == [at : {"idle", "seen", "find", "update", "ask", "insert", "account", "event"},
        op : {"webhook", "confirm"}, event : Event \cup {NoEvent}, sub : Subs \cup {Nobody},
        row : Tx \cup {NoTx}]
Idle == [at |-> "idle", op |-> "webhook", event |-> NoEvent, sub |-> Nobody, row |-> NoTx]

TypeOK ==
  /\ sent \in [Subs -> Seq(Types)]
  /\ accepted \subseteq Events /\ dropped \subseteq accepted
  /\ tx \in [Subs -> Tx \cup {NoTx}]
  /\ account \in [Orgs -> Account \cup {NoAccount}]
  /\ recorded \subseteq Events
  /\ act \in [Threads -> Act]
  /\ cut \subseteq Events
  /\ mixed \subseteq Orgs
  /\ repeats \in Nat /\ faults \in Nat

Init ==
  /\ sent = [s \in Subs |-> <<>>]
  /\ accepted = {}
  /\ dropped = {}
  /\ tx = [s \in Subs |-> NoTx]
  /\ account = [o \in Orgs |-> NoAccount]
  /\ recorded = {}
  /\ act = [t \in Threads |-> Idle]
  /\ cut = {}
  /\ mixed = {}
  /\ repeats = 0
  /\ faults = 0

-----------------------------------------------------------------------------
\* External: PayPal.  Asked for a subscription it says what its last event of these types said.
LifecycleTypes == {"BILLING.SUBSCRIPTION.ACTIVATED", "BILLING.SUBSCRIPTION.CANCELLED",
                   "BILLING.SUBSCRIPTION.SUSPENDED", "BILLING.SUBSCRIPTION.EXPIRED"}

Send(s, type) ==
  /\ Cardinality(Events) < MaxEvents
  /\ sent' = [sent EXCEPT ![s] = Append(@, type)]
  /\ UNCHANGED <<accepted, dropped, tx, account, recorded, act, cut, mixed, repeats, faults>>

PayPalSays(s) ==
  LET changes == {n \in DOMAIN sent[s] : sent[s][n] \in LifecycleTypes}
  IN IF changes = {} THEN "ACTIVE" ELSE StatusAfter(sent[s][Max(changes)], "ACTIVE")

PayPalStatuses(s) == {"ACTIVE"} \cup {StatusAfter(sent[s][n], "ACTIVE") : n \in DOMAIN sent[s]}

(* The tables' operations, one transaction each. *)
Known(s) == tx[s] # NoTx

\* uq_billing_paypal_subscription_global refuses a second row of a subscription.
Taken_Never(s) == FALSE
Taken(s) == Known(s)
InsertRow(s, row) == tx' = [tx EXCEPT ![s] = row]

\* The organization, the offer and the kind stay.
UpdateRow(s, row) == tx' = [tx EXCEPT ![s].status = row.status, ![s].event = row.event]

AccountFor(s, row) ==
  [sub |-> s, offer |-> row.offer, status |-> AccountStatus(row.status)]

\* One row for an organization, whatever subscription it was about before.
UpsertAccount_FirstOnly(s, row) ==
  account' = IF account[row.org] # NoAccount THEN account
             ELSE [account EXCEPT ![row.org] = AccountFor(s, row)]
UpsertAccount(s, row) == account' = [account EXCEPT ![row.org] = AccountFor(s, row)]

\* ON CONFLICT (paypal_event_id) DO NOTHING.
RecordEvent(e) == recorded' = recorded \cup {e}

\* Some transaction's last event is this one.
Seen_Older(e) == tx[e.sub].event.n >= e.n
Seen(e) == \E s \in Subs : tx[s].event = e

-----------------------------------------------------------------------------
Accept(e) == accepted' = accepted \cup {e}

Go(t, place) == act' = [act EXCEPT ![t].at = place]
Done(t) == act' = [act EXCEPT ![t] = Idle]

\* History: another request about the organization is under way.
OrgOf(t) ==
  CASE act[t].at = "idle" -> Nobody
    [] act[t].op = "confirm" -> act[t].row.org
    [] OTHER -> tx[act[t].sub].org
Mixed(t, o) == IF \E u \in Threads \ {t} : OrgOf(u) = o THEN mixed \cup {o} ELSE mixed

-----------------------------------------------------------------------------
(* POST /v1/paypal/webhook *)

\* PayPal delivers an event: one it has no answer to, or one again.  The signature was
\* verified.
Deliver(t, e) ==
  /\ act[t].at = "idle"
  /\ IF e \in accepted THEN repeats < MaxRepeats /\ repeats' = repeats + 1
                       ELSE UNCHANGED repeats
  /\ act' = [act EXCEPT ![t] = [Idle EXCEPT !.at = "seen", !.event = e, !.sub = e.sub]]
  /\ UNCHANGED <<sent, accepted, dropped, tx, account, recorded, cut, mixed, faults>>

CheckSeen(t) ==
  /\ act[t].at = "seen"
  /\ IF Seen(act[t].event) THEN Accept(act[t].event) /\ Done(t)
                           ELSE Go(t, "find") /\ UNCHANGED accepted
  /\ UNCHANGED <<sent, dropped, tx, account, recorded, cut, mixed, repeats, faults>>

\* The row the webhook will write: the one it read, changed by the event.
Changed(row, e) ==
  [row EXCEPT !.status = StatusAfter(sent[e.sub][e.n], row.status), !.event = e]

\* Without a row the event is accepted and forgotten; a row of the store is in the table too.
Find(t) ==
  /\ act[t].at = "find"
  /\ LET a == act[t]
     IN IF Known(a.sub)
        THEN /\ act' = [act EXCEPT ![t].at = "update", ![t].row = Changed(tx[a.sub], a.event)]
             /\ UNCHANGED <<accepted, dropped>>
        ELSE Accept(a.event) /\ dropped' = dropped \cup {a.event} /\ Done(t)
  /\ UNCHANGED <<sent, tx, account, recorded, cut, mixed, repeats, faults>>

Update(t) ==
  /\ act[t].at = "update"
  /\ UpdateRow(act[t].sub, act[t].row)
  /\ mixed' = Mixed(t, act[t].row.org)
  /\ Go(t, "account")
  /\ UNCHANGED <<sent, accepted, dropped, account, recorded, cut, repeats, faults>>

Record(t) ==
  /\ act[t].at = "event"
  /\ RecordEvent(act[t].event)
  /\ Accept(act[t].event)
  /\ Done(t)
  /\ UNCHANGED <<sent, dropped, tx, account, cut, mixed, repeats, faults>>

-----------------------------------------------------------------------------
(* POST /v1/paypal/subscription/confirm *)

\* The subscription is looked up in the store and the table: a known one is only answered.
Confirm(t, o, s, offer) ==
  /\ act[t].at = "idle"
  /\ ~Known(s)
  /\ act' = [act EXCEPT ![t] =
       [Idle EXCEPT !.at = "ask", !.op = "confirm", !.sub = s,
                    !.row = [NoTx EXCEPT !.org = o, !.offer = offer, !.status = "CREATED"]]]
  /\ UNCHANGED <<sent, accepted, dropped, tx, account, recorded, cut, mixed, repeats, faults>>

\* PayPal is asked for the subscription; its plan must be that of the offer.
PlanMatches_Any(s, offer) == TRUE
PlanMatches(s, offer) == OfferOf[s] = offer

AskPayPal(t) ==
  /\ act[t].at = "ask"
  /\ IF PlanMatches(act[t].sub, act[t].row.offer)
     THEN act' = [act EXCEPT ![t].at = "insert", ![t].row.status = PayPalSays(act[t].sub)]
     ELSE Done(t)
  /\ UNCHANGED <<sent, accepted, dropped, tx, account, recorded, cut, mixed, repeats, faults>>

Insert(t) ==
  /\ act[t].at = "insert"
  /\ IF Taken(act[t].sub)
     THEN Done(t) /\ UNCHANGED <<tx, mixed>>
     ELSE /\ InsertRow(act[t].sub, act[t].row)
          /\ mixed' = Mixed(t, act[t].row.org)
          /\ Go(t, "account")
  /\ UNCHANGED <<sent, accepted, dropped, account, recorded, cut, repeats, faults>>

-----------------------------------------------------------------------------
PutAccount(t) ==
  /\ act[t].at = "account"
  /\ UpsertAccount(act[t].sub, act[t].row)
  /\ IF act[t].op = "webhook" THEN Go(t, "event") ELSE Done(t)
  /\ UNCHANGED <<sent, accepted, dropped, tx, recorded, cut, mixed, repeats, faults>>

\* A transaction or a call of PayPal fails, or the process dies: the request ends, what it
\* wrote stays, and PayPal gets no 200.
Fault(t) ==
  /\ act[t].at # "idle"
  /\ faults < MaxFaults
  /\ faults' = faults + 1
  /\ LET written == act[t].at \in {"account", "event"}
     IN /\ cut' = IF written /\ act[t].op = "webhook" THEN cut \cup {act[t].event} ELSE cut
        /\ mixed' = IF written THEN mixed \cup {act[t].row.org} ELSE mixed
  /\ Done(t)
  /\ UNCHANGED <<sent, accepted, dropped, tx, account, recorded, repeats>>

Webhook(t) == CheckSeen(t) \/ Find(t) \/ Update(t) \/ PutAccount(t) \/ Record(t)
Confirmation(t) == AskPayPal(t) \/ Insert(t)

Next ==
  \/ \E s \in Subs, type \in Types : Send(s, type)
  \/ \E t \in Threads :
       \/ \E e \in Events : Deliver(t, e)
       \/ \E o \in Orgs, s \in Subs, offer \in Offers : Confirm(t, o, s, offer)
       \/ Webhook(t) \/ Confirmation(t) \/ Fault(t)

Spec == Init /\ [][Next]_vars

-----------------------------------------------------------------------------
(* Properties *)

\* An organization's account is about a subscription that is its own, under the offer
\* PayPal has it under, although two organizations may confirm one subscription at once
\* and webhooks rewrite the account from rows they read before.
AccountIsTheSubscribers ==
  TypeOK /\ \A o \in Orgs : account[o] # NoAccount =>
    LET s == account[o].sub
    IN tx[s].org = o /\ account[o].offer = OfferOf[s]

\* Unless two requests about an organization were under way at once or one was cut short,
\* the account agrees with the transaction of the subscription it names, and there is one
\* as soon as there is a transaction.
AccountTellsTransaction ==
  \A o \in Orgs \ mixed :
    (\A t \in Threads : act[t].at = "account" => act[t].row.org # o) =>
      /\ account[o] # NoAccount =>
           account[o] = AccountFor(account[o].sub, tx[account[o].sub])
      /\ (\E s \in Subs : tx[s].org = o) => account[o] # NoAccount

\* An event that PayPal need not send again is in billing_events, or about to be, unless
\* its subscription was not known when it came or one of its deliveries was cut short
\* after the transaction's update, which made the next one a duplicate.
AcceptedIsRecorded ==
  \A e \in accepted \ (dropped \cup cut) :
    \/ e \in recorded
    \/ \E t \in Threads : act[t].event = e /\ act[t].at \in {"account", "event"}

\* The table is a ledger: one organization for a subscription, for ever, and no status
\* that PayPal did not report.
Ledger == INSTANCE BillingLedger WITH
  Statuses <- Status,
  reported <- [s \in Subs |-> PayPalStatuses(s)],
  linked <- [s \in Subs |-> tx[s].org],
  told <- [s \in Subs |-> tx[s].status]
LedgerSpec == Ledger!Spec
=============================================================================
