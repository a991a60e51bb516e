-------------------------- MODULE PrivacyWorkflow --------------------------
(***************************************************************************)
(* The requests and the consents of the data subjects: the routes          *)
(* /v1/privacy/* of the API, the tables of postgres_repository.py and the  *)
(* store of each process.  With a repository a row is inserted, or         *)
(* changed, first, and a copy is then kept in the store: that of a new     *)
(* request under another id than the row's.                                *)
(***************************************************************************)
EXTENDS Naturals, Sequences, FiniteSets

CONSTANTS
  Threads, Servers, Place,  \* Place[t]: the process of a thread
  Users, Statuses, Notes,   \* Notes: the texts of an answer, None among them
  None,
  MaxCreated, MaxPatches, MaxFaults      \* bounds

VARIABLES
  persistent,               \* is there a repository?
  table,                    \* the rows of each kind, in the order of their creation
  store,                    \* of each process and kind: entries by their key
  act,                      \* what each thread is doing
  created, patches, faults, \* how many so far; an id which a process draws is a count
  told                      \* history: the entries answered with 201, as last changed
vars == <<persistent, table, store, act, created, patches, faults, told>>

Kinds == {"request", "consent"}
Idle == [pc |-> "idle"]
At(t, pc) == act[t].pc = pc
Go(t, to) == act' = [act EXCEPT ![t] = to]

Entry(id, kind, user, status) == [id |-> id, kind |-> kind, user |-> user, status |-> status, note |-> None]
With(f, k, e) == [x \in (DOMAIN f) \cup {k} |-> IF x = k THEN e ELSE f[x]]
Answered(e) == told' = With(told, e.id, e)

-----------------------------------------------------------------------------
Init ==
  /\ persistent \in BOOLEAN
  /\ table = [k \in Kinds |-> <<>>]
  /\ store = [s \in Servers |-> [k \in Kinds |-> [x \in {} |-> None]]]
  /\ act = [t \in Threads |-> Idle]
  /\ created = 0 /\ patches = 0 /\ faults = 0 /\ told = [x \in {} |-> None]

\* Without a repository the entry is kept as it is; with one it is inserted first.
Create(t, kind, user, status) ==
  LET own == <<"own", kind, created>>  e == Entry(own, kind, user, status) IN
  /\ At(t, "idle") /\ created < MaxCreated /\ created' = created + 1
  /\ IF persistent THEN Go(t, [pc |-> "insert", key |-> own, entry |-> e]) /\ UNCHANGED <<store, told>>
     ELSE /\ store' = [store EXCEPT ![Place[t]][kind] = With(@, own, e)]
          /\ Answered(e) /\ UNCHANGED act
  /\ UNCHANGED <<persistent, table, patches, faults>>

\* POST /v1/privacy/requests
PostRequest(t, user) == Create(t, "request", user, "RECEIVED")
\* POST /v1/privacy/consents: each choice is another row, earlier ones are left.
PostConsent(t, user, granted) == Create(t, "consent", user, IF granted THEN "GRANTED" ELSE "WITHDRAWN")

\* create_privacy_request, create_privacy_consent: the row has an id of its own.
Insert(t) ==
  LET e == act[t].entry
      row == [e EXCEPT !.id = <<"row", e.kind, Len(table[e.kind]) + 1>>] IN
  /\ At(t, "insert")
  /\ table' = [table EXCEPT ![e.kind] = Append(@, row)]
  /\ Go(t, [act[t] EXCEPT !.pc = "keep", !.entry = row])
  /\ UNCHANGED <<persistent, store, created, patches, faults, told>>

\* The call raises, before its commit or after it: the answer is 500.
Fault(t) ==
  /\ At(t, "insert") \/ At(t, "keep") \/ At(t, "merge")
  /\ faults < MaxFaults /\ faults' = faults + 1
  /\ Go(t, Idle)
  /\ UNCHANGED <<persistent, table, store, created, patches, told>>

\* The copy of a new entry, under the id the process drew, and the answer with the row's.
Keep(t) ==
  LET e == act[t].entry IN
  /\ At(t, "keep")
  /\ store' = [store EXCEPT ![Place[t]][e.kind] = With(@, act[t].key, e)]
  /\ told' = With(told, e.id, table[e.kind][e.id[3]])
  /\ Go(t, Idle)
  /\ UNCHANGED <<persistent, table, created, patches, faults>>

-----------------------------------------------------------------------------
\* update_privacy_request: any status may follow any, and no note takes one away.
Updated(row, status, note) == [row EXCEPT !.status = status, !.note = note]

\* PATCH /v1/privacy/requests/{id}, of a request which was answered or is listed: the
\* row, or else the entry of this process; 404 if it has none.
Patch(t, e, status, note) ==
  LET mine == store[Place[t]]["request"] IN
  /\ At(t, "idle") /\ e.kind = "request"
  /\ patches < MaxPatches /\ patches' = patches + 1
  /\ told' = IF e.id \in DOMAIN told /\ (persistent \/ e.id \in DOMAIN mine)
               THEN [told EXCEPT ![e.id] = Updated(@, status, note)] ELSE told
  /\ IF persistent
       THEN /\ table' = [table EXCEPT !["request"][e.id[3]] = Updated(@, status, note)]
            /\ Go(t, [pc |-> "merge", id |-> e.id, status |-> status, note |-> note])
            /\ UNCHANGED store
       ELSE /\ store' = IF e.id \in DOMAIN mine
                          THEN [store EXCEPT ![Place[t]]["request"][e.id] = Updated(@, status, note)]
                          ELSE store
            /\ UNCHANGED <<table, act>>
  /\ UNCHANGED <<persistent, created, faults>>

\* The changed row over the entry which the process has under its id, if it has one: it has
\* no requester otherwise.
Merge(t) ==
  LET mine == store[Place[t]]["request"]
      known == IF act[t].id \in DOMAIN mine THEN mine[act[t].id]
               ELSE Entry(act[t].id, "request", None, None) IN
  /\ At(t, "merge")
  /\ store' = [store EXCEPT ![Place[t]]["request"] =
                 With(@, act[t].id, Updated(known, act[t].status, act[t].note))]
  /\ Go(t, Idle)
  /\ UNCHANGED <<persistent, table, created, patches, faults, told>>

\* A process begins with an empty store; what it alone had is lost with it.
Restart(s) ==
  /\ \E k \in Kinds : DOMAIN store[s][k] # {}
  /\ store' = [store EXCEPT ![s] = [k \in Kinds |-> [x \in {} |-> None]]]
  /\ act' = [t \in Threads |-> IF Place[t] = s THEN Idle ELSE act[t]]
  /\ told' = IF persistent THEN told
             ELSE LET lost == UNION {DOMAIN store[s][k] : k \in Kinds}
                  IN [x \in (DOMAIN told) \ lost |-> told[x]]
  /\ UNCHANGED <<persistent, table, created, patches, faults>>

-----------------------------------------------------------------------------
\* list_privacy_requests, list_privacy_consents
RowsOf(kind, user) ==
  {<<table[kind][n].id, table[kind][n]>> : n \in {n \in DOMAIN table[kind] : table[kind][n].user = user}}
EntriesOf(s, kind, user) ==
  LET mine == store[s][kind] IN {<<k, mine[k]>> : k \in {k \in DOMAIN mine : mine[k].user = user}}

\* GET /v1/privacy/requests, GET /v1/privacy/consents: the rows, or else the entries.
Shown(s, kind, user) ==
  IF persistent /\ RowsOf(kind, user) # {} THEN RowsOf(kind, user) ELSE EntriesOf(s, kind, user)
\* _privacy_export
Exported(s, user) == Shown(s, "request", user) \cup Shown(s, "consent", user)

\* The requests whose id an administrator may have: it was answered, or it is listed.
Known == {told[id] : id \in DOMAIN told} \cup {table["request"][n] : n \in DOMAIN table["request"]}

Next ==
  \/ \E t \in Threads :
       \/ \E u \in Users : PostRequest(t, u) \/ \E granted \in BOOLEAN : PostConsent(t, u, granted)
       \/ Insert(t) \/ Keep(t) \/ Merge(t) \/ Fault(t)
       \/ \E e \in Known, status \in Statuses, note \in Notes : Patch(t, e, status, note)
  \/ \E s \in Servers : Restart(s)

Spec == Init /\ [][Next]_vars

-----------------------------------------------------------------------------
\* What its process has, or with a repository every process, shows a person each of
\* its requests and choices once and as last changed, however often it was copied, and
\* nothing of another's.
ExportIsComplete ==
  \A s \in Servers, u \in Users :
    LET shown == Exported(s, u)  Of(id) == {x \in shown : x[2].id = id} IN
    /\ \A x \in shown : x[2].user = u /\ Cardinality(Of(x[2].id)) = 1
    /\ \A id \in DOMAIN told :
         told[id].user = u =>
           \/ \E x \in Of(id) : x[2] = told[id]
           \/ ~persistent /\ id \notin DOMAIN store[s]["request"] \cup DOMAIN store[s]["consent"]
=============================================================================
