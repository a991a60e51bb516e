------------------------------ MODULE CaseIntake ------------------------------
(***************************************************************************)
(* How reviews and cases come into the system over the HTTP interface      *)
(* (POST and GET of /v1/reviews and /v1/cases, case_lifecycle_service.py,  *)
(* _idem): each process puts what it makes in its own store first and in   *)
(* the table after, and remembers the answers it gave to idempotency keys. *)
(* A case is a record of its number and its review.                        *)
(***************************************************************************)
EXTENDS Integers, FiniteSets

CONSTANTS Servers, Requests, Reviews, Keys,
          Bodies,                  \* what else a request to create a case may say
          None,
          MaxCases, MaxFaults      \* bounds: cases made; failed transactions and restarts

VARIABLES reviewRows, caseRows,    \* api_reviews; api_cases with its parent row in cases
          reviews, cases,          \* each process's store
          idempotency,             \* per process, the body and the answer of a key
          locked,                  \* _idem_lock of each process: its holder
          act,                     \* what each request is doing
          made, faults,
          answered,                \* history: the cases of 201 answers: server, key and case
          failed                   \* history: the reviews and cases whose insertion failed
vars == <<reviewRows, caseRows, reviews, cases, idempotency, locked, act, made, faults, answered, failed>>

Idle == [at |-> "idle"]
At(t, step) == act[t].at = step
Go(t, a) == act' = [act EXCEPT ![t] = a]
Fault == faults < MaxFaults /\ faults' = faults + 1

Init ==
  /\ reviewRows = {} /\ caseRows = {}
  /\ reviews = [s \in Servers |-> {}] /\ cases = [s \in Servers |-> {}]
  /\ idempotency = [s \in Servers |-> [k \in Keys |-> None]]
  /\ locked = [s \in Servers |-> None]
  /\ act = [t \in Requests |-> Idle]
  /\ made = 0 /\ faults = 0 /\ answered = {} /\ failed = {}

-----------------------------------------------------------------------------
\* POST /v1/reviews
PostReview(t, s, r) ==
  /\ At(t, "idle")
  /\ reviews' = [reviews EXCEPT ![s] = @ \cup {r}]
  /\ Go(t, [at |-> "upserting", server |-> s, review |-> r])
  /\ UNCHANGED <<reviewRows, caseRows, cases, idempotency, locked, made, faults, answered, failed>>

UpsertReview(t) ==
  LET r == act[t].review IN
  /\ At(t, "upserting")
  /\ \/ reviewRows' = reviewRows \cup {r} /\ UNCHANGED <<failed, faults>>
     \/ Fault /\ failed' = failed \cup {r} /\ UNCHANGED reviewRows
  /\ Go(t, Idle)
  /\ UNCHANGED <<caseRows, reviews, cases, idempotency, locked, made, answered>>

\* GET /v1/reviews/{id}: one which the process lacks is read, and becomes its own.
GetReview(s, r) ==
  /\ r \in reviewRows \ reviews[s]
  /\ reviews' = [reviews EXCEPT ![s] = @ \cup {r}]
  /\ UNCHANGED <<reviewRows, caseRows, cases, idempotency, locked, act, made, faults, answered, failed>>

\* GET /v1/reviews
ListReviews(s) ==
  /\ reviews' = [reviews EXCEPT ![s] = @ \cup reviewRows]
  /\ UNCHANGED <<reviewRows, caseRows, cases, idempotency, locked, act, made, faults, answered, failed>>

-----------------------------------------------------------------------------
\* POST /v1/cases: the review is the process's, or is read and becomes so; else 404.
PostCase(t, s, r, k, b) ==
  /\ At(t, "idle") /\ r \in reviews[s] \cup reviewRows
  /\ reviews' = [reviews EXCEPT ![s] = @ \cup {r}]
  /\ Go(t, [at |-> "entering", server |-> s, review |-> r, key |-> k, body |-> b])
  /\ UNCHANGED <<reviewRows, caseRows, cases, idempotency, locked, made, faults, answered, failed>>

\* One lock of the process is held from the look at the key until the answer.
Free(s, k) == k = None \/ locked[s] = None

\* A key which was answered: the same answer, or 409 for another body.
Replay(t) ==
  LET s == act[t].server  k == act[t].key  IN
  /\ At(t, "entering") /\ k # None /\ Free(s, k) /\ idempotency[s][k] # None
  /\ answered' = IF idempotency[s][k].body = act[t].body
                   THEN answered \cup {[server |-> s, key |-> k, case |-> idempotency[s][k].case]}
                   ELSE answered
  /\ Go(t, Idle)
  /\ UNCHANGED <<reviewRows, caseRows, reviews, cases, idempotency, locked, made, faults, failed>>

\* CaseLifecycleService.create: the process has the case before the table does.
Create(t) ==
  LET s == act[t].server  k == act[t].key  c == [id |-> made + 1, review |-> act[t].review] IN
  /\ At(t, "entering") /\ Free(s, k) /\ (k # None => idempotency[s][k] = None)
  /\ made < MaxCases /\ made' = made + 1
  /\ cases' = [cases EXCEPT ![s] = @ \cup {c}]
  /\ locked' = IF k = None THEN locked ELSE [locked EXCEPT ![s] = t]
  /\ Go(t, [at |-> "inserting", server |-> s, key |-> k, body |-> act[t].body, case |-> c])
  /\ UNCHANGED <<reviewRows, caseRows, reviews, idempotency, faults, answered, failed>>

\* The parent row is unique by review: a second case of the review is refused.
Refused_ById(c) == \E other \in caseRows : other.id = c.id
Refused(c) == \E other \in caseRows : other.review = c.review

\* create_case_persistent
Insert(t) ==
  LET s == act[t].server  k == act[t].key  c == act[t].case IN
  /\ At(t, "inserting")
  /\ \/ /\ ~Refused(c)
        /\ caseRows' = caseRows \cup {c}
        /\ idempotency' = IF k = None THEN idempotency ELSE [idempotency EXCEPT ![s][k] = [body |-> act[t].body, case |-> c]]
        /\ answered' = answered \cup {[server |-> s, key |-> k, case |-> c]}
        /\ UNCHANGED <<faults, failed>>
     \/ /\ IF Refused(c) THEN UNCHANGED faults ELSE Fault
        /\ failed' = failed \cup {c}
        /\ UNCHANGED <<caseRows, idempotency, answered>>
  /\ locked' = IF k = None THEN locked ELSE [locked EXCEPT ![s] = None]
  /\ Go(t, Idle)
  /\ UNCHANGED <<reviewRows, reviews, cases, made>>

\* GET /v1/cases
ListCases(s) ==
  /\ cases' = [cases EXCEPT ![s] = @ \cup caseRows]
  /\ UNCHANGED <<reviewRows, caseRows, reviews, idempotency, locked, act, made, faults, answered, failed>>

\* A process stops in the midst of its requests; what they had not inserted is not.
Restart(s) ==
  LET dropped == {t \in Requests : act[t] # Idle /\ act[t].server = s} IN
  /\ Fault
  /\ reviews' = [reviews EXCEPT ![s] = {}] /\ cases' = [cases EXCEPT ![s] = {}]
  /\ idempotency' = [idempotency EXCEPT ![s] = [k \in Keys |-> None]]
  /\ locked' = [locked EXCEPT ![s] = None]
  /\ act' = [t \in Requests |-> IF t \in dropped THEN Idle ELSE act[t]]
  /\ answered' = {a \in answered : a.server # s}
  /\ failed' = failed \cup {act[t].review : t \in {u \in dropped : At(u, "upserting")}}
  /\ UNCHANGED <<reviewRows, caseRows, made>>

Next ==
  \/ \E s \in Servers : \/ ListReviews(s) \/ ListCases(s) \/ Restart(s)
                        \/ \E r \in Reviews : GetReview(s, r)
  \/ \E t \in Requests :
       \/ UpsertReview(t) \/ Replay(t) \/ Create(t) \/ Insert(t)
       \/ \E s \in Servers, r \in Reviews : \/ PostReview(t, s, r)
                                            \/ \E k \in Keys \cup {None}, b \in Bodies : PostCase(t, s, r, k, b)

Spec == Init /\ [][Next]_vars

-----------------------------------------------------------------------------
Doing(step) == {act[t] : t \in {u \in Requests : At(u, step)}}

\* What is answered as created is in the table; a key has one case in the lifetime of a
\* process; a review has one case in the table, however many a process believes in; and
\* a process keeps a case which is not in the table only if its insertion failed or is
\* under way.
CasesAreStored ==
  /\ \A a \in answered : a.case \in caseRows
  /\ \A a, b \in answered : a.server = b.server /\ a.key = b.key /\ a.key # None
                              => a.case = b.case
  /\ \A c, d \in caseRows : c.review = d.review => c = d
  /\ \A s \in Servers : \A c \in cases[s] \ caseRows :
       c \in failed \/ c \in {a.case : a \in Doing("inserting")}

\* A case in the table has its review there: or else the review's own insertion failed
\* or is under way, since its process let the case be made on its copy.
CasesHaveReviews ==
  \A c \in caseRows : \/ c.review \in reviewRows \cup failed
                      \/ c.review \in {a.review : a \in Doing("upserting")}
=============================================================================
