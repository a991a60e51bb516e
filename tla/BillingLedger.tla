--------------------------- MODULE BillingLedger ---------------------------
(***************************************************************************)
(* What the billing table promises about PayPal subscriptions: each is     *)
(* linked to at most one organization, once and for ever, and what the     *)
(* table says of it is something PayPal has said of it.                    *)
(***************************************************************************)
CONSTANTS Subs, Orgs, Statuses, Nobody

VARIABLES
  reported,   \* the statuses PayPal has reported of each subscription
  linked,     \* the organization of each
  told        \* what the table says of each

ledger == <<reported, linked, told>>

Init ==
  /\ reported \in [Subs -> SUBSET Statuses]
  /\ linked = [s \in Subs |-> Nobody]
  /\ told = [s \in Subs |-> Nobody]

Report ==
  /\ \A s \in Subs : reported[s] \subseteq reported'[s]
  /\ UNCHANGED <<linked, told>>

Link(s, o) ==
  /\ linked[s] = Nobody
  /\ linked' = [linked EXCEPT ![s] = o]
  /\ \E status \in reported[s] : told' = [told EXCEPT ![s] = status]
  /\ UNCHANGED reported

Tell(s) ==
  /\ linked[s] # Nobody
  /\ \E status \in reported[s] : told' = [told EXCEPT ![s] = status]
  /\ UNCHANGED <<reported, linked>>

Next == Report \/ \E s \in Subs : Tell(s) \/ \E o \in Orgs : Link(s, o)

Spec == Init /\ [][Next]_ledger
=============================================================================
