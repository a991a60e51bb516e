-------------------------- MODULE ReferencePipeline --------------------------
(***************************************************************************)
(* The reference pipeline (e2e_pipeline.py): one organisation's reviews,   *)
(* evidence, decisions, reports and outcomes, each in a dictionary of the  *)
(* harness, and its operations called in any order.  A dossier, a text and *)
(* a file's content each stand for their SHA-256.                          *)
(***************************************************************************)
EXTENDS Integers, Sequences, FiniteSets

CONSTANTS Ids,             \* of one thing of each kind: a review, a piece of evidence, a decision, a report
          Payloads,        \* the dossiers, the texts and the contents
          Signalled,       \* the texts which raise a policy signal
          None, MaxObjects \* bound of the objects in the store

VARIABLES reviews,         \* text by review
          objects,         \* evidence_store: the evidence and content of each object put
          documents,       \* content by evidence
          decisions, snapshots, submissions, outcomes,
          compared         \* history: the dossiers a decision was compared with since it was frozen
vars == <<reviews, objects, documents, decisions, snapshots, submissions, outcomes, compared>>

Kinds == {"REJECTED", "REMOVED"}
Empty == [i \in Ids |-> None]

Init ==
  /\ reviews = Empty /\ documents = Empty /\ decisions = Empty /\ snapshots = Empty
  /\ submissions = Empty /\ outcomes = Empty
  /\ objects = <<>> /\ compared = [d \in Ids |-> {}]

\* A second ingestion of the review is refused.
Ingest(r, text) ==
  /\ reviews[r] = None
  /\ reviews' = [reviews EXCEPT ![r] = text]
  /\ UNCHANGED <<objects, documents, decisions, snapshots, submissions, outcomes, compared>>

\* Each object has a name of its own: one put before stays, under an evidence or none.
AddEvidence(e, r, content) ==
  /\ Len(objects) < MaxObjects /\ reviews[r] # None
  /\ objects' = Append(objects, [evidence |-> e, content |-> content])
  /\ documents' = [documents EXCEPT ![e] = content]
  /\ UNCHANGED <<reviews, decisions, snapshots, submissions, outcomes, compared>>

\* build_case, which is not stored: it shows the evidence of every review.
Case(r) == [state |-> IF reviews[r] \in Signalled THEN "HUMAN_REVIEW" ELSE "ANALYZED",
            evidence |-> {e \in Ids : documents[e] # None}]

\* create_decision, freeze_dossier, attach_snapshot, request_approval and
\* approve_decision in one call, whatever decision had the identifier.
FreezeAndApprove(d, payload) ==
  /\ snapshots' = [snapshots EXCEPT ![d] = payload]
  /\ decisions' = [decisions EXCEPT ![d] = [status |-> "APPROVED", snapshot |-> payload]]
  /\ compared' = [compared EXCEPT ![d] = {}]
  /\ UNCHANGED <<reviews, objects, documents, submissions, outcomes>>

Matches(d, payload) == snapshots[d] = payload

InvalidateModified(d, payload) ==
  /\ decisions[d] # None
  /\ decisions' = IF Matches(d, payload) \/ decisions[d].status # "APPROVED" THEN decisions
                  ELSE [decisions EXCEPT ![d].status = "INVALIDATED"]
  /\ compared' = [compared EXCEPT ![d] = @ \cup {payload}]
  /\ UNCHANGED <<reviews, objects, documents, snapshots, submissions, outcomes>>

\* The report of before, even one already sent, is replaced.
PrepareAndApprove(s, text) ==
  /\ submissions' = [submissions EXCEPT ![s] = [status |-> "APPROVED", content |-> text,
                                                hash |-> text, reference |-> FALSE]]
  /\ UNCHANGED <<reviews, objects, documents, decisions, snapshots, outcomes, compared>>

RecordExternal(s) ==
  /\ submissions[s] # None /\ submissions[s].status = "APPROVED"
  /\ submissions[s].content = submissions[s].hash
  /\ submissions' = [submissions EXCEPT ![s].status = "SUBMITTED", ![s].reference = TRUE]
  /\ UNCHANGED <<reviews, objects, documents, decisions, snapshots, outcomes, compared>>

\* record_outcome asks only that the report be named.
RecordOutcome(s, kind) ==
  /\ outcomes' = [outcomes EXCEPT ![s] = kind]
  /\ UNCHANGED <<reviews, objects, documents, decisions, snapshots, submissions, compared>>

Next == \E i \in Ids :
  \/ RecordExternal(i)
  \/ \E kind \in Kinds : RecordOutcome(i, kind)
  \/ \E p \in Payloads : \/ Ingest(i, p) \/ FreezeAndApprove(i, p)
                         \/ InvalidateModified(i, p) \/ PrepareAndApprove(i, p)
                         \/ \E r \in Ids : AddEvidence(i, r, p)

Spec == Init /\ [][Next]_vars

-----------------------------------------------------------------------------
\* A decision stands exactly as long as it was compared with its own dossier only.
DecisionsStand ==
  \A d \in Ids : decisions[d] # None =>
    (decisions[d].status = "APPROVED") <=> (compared[d] \subseteq {decisions[d].snapshot})

\* A piece of evidence has the content of its last object, and every case shows it.
EvidenceIsStored ==
  \A e \in Ids :
    LET own == {n \in DOMAIN objects : objects[n].evidence = e} IN
    /\ own = {} => documents[e] = None
    /\ \A n \in own : (\A m \in own : m <= n) => documents[e] = objects[n].content
    /\ \A r \in Ids : (e \in Case(r).evidence) <=> own # {}

PipelineAgrees == DecisionsStand /\ EvidenceIsStored
=============================================================================
