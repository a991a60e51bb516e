---------------------------- MODULE EvidenceRoom ----------------------------
(***************************************************************************)
(* The evidence of one case, the facts read from it, their verification,   *)
(* the contradictions found between them and the review's claim, and what  *)
(* analysts make of those: the evidence and contradiction handlers of      *)
(* src/api_server.py, src/case_contradiction_service.py,                   *)
(* src/contradiction_engine.py and src/evidence_vault.py.                  *)
(*                                                                         *)
(* Each API process keeps copies of the rows in a store of its own.  A     *)
(* request runs alone between two calls of the repository, each of which   *)
(* is a transaction; requests interleave there, in one process or several. *)
(*                                                                         *)
(* A fact conflicts with the claim or does not.  A finding is identified   *)
(* by a hash of the claim, its key and the evidence which contradicts it:  *)
(* for the one claim here, by the set of that evidence.  A disposition is  *)
(* its rank among those made.                                              *)
(***************************************************************************)
EXTENDS Naturals, FiniteSets

CONSTANTS
  Evidence,              \* identifiers of evidence
  Facts, EvidenceOf,     \* facts, and the evidence each is read from
  Conflicting,           \* the facts that contradict the claim
  Servers,               \* API processes
  Threads, ServerOf,     \* threads that serve requests, and the process of each
  None,                  \* no evidence, no request
  MaxDispositions,       \* bound: dispositions made
  MaxFaults              \* bound: failed transactions, deaths, damaged objects

ASSUME FactsAssumption == EvidenceOf \in [Facts -> Evidence] /\ Conflicting \subseteq Facts
ASSUME ServersAssumption == ServerOf \in [Threads -> Servers]
ASSUME BoundsAssumption == MaxDispositions \in Nat /\ MaxFaults \in Nat

VARIABLES
  db,        \* api_evidence, evidence_facts, contradiction_findings and the dispositions' tables
  store,     \* the copies each process has
  vault,     \* the evidence whose object is still what was uploaded
  act,       \* where each thread is in its request
  vouched,   \* history: evidence whose content passed the check of a verification
  marked,    \* history: facts a verification selected
  made,      \* history: the dispositions made of each finding
  mixed,     \* history: findings with a disposition cut short or two at once
  faults     \* history: how many faults there were

vars == <<db, store, vault, act, vouched, marked, made, mixed, faults>>

Absent == "absent"
Pending == "pending"
Verified == "verified"
Flags == {Absent, Pending, Verified}
Findings == (SUBSET Evidence) \ {{}}
Ranks == 1..MaxDispositions

FactsOf(e) == {f \in Facts : EvidenceOf[f] = e}
MarkedFacts(flags) == {f \in Facts : flags[f] = Verified}

Idle == [at |-> "idle", evidence |-> None, facts |-> {}, flags |-> [f \in Facts |-> Absent],
         findings |-> {}, rank |-> 0, stood |-> {}]

\* What a process has when it starts.  An evidence is in lists when the process has a list of its facts.
EmptyStore == [evidence |-> [e \in Evidence |-> Absent], lists |-> {}, facts |-> [f \in Facts |-> Absent],
               findings |-> {}, disposition |-> [c \in Findings |-> 0]]

Init ==
  /\ db = [evidence |-> [e \in Evidence |-> Absent], facts |-> [f \in Facts |-> Absent], findings |-> {},
           disposition |-> [c \in Findings |-> 0], history |-> [c \in Findings |-> {}]]
  /\ store = [s \in Servers |-> EmptyStore]
  /\ vault = {}
  /\ act = [t \in Threads |-> Idle]
  /\ vouched = {} /\ marked = {}
  /\ made = [c \in Findings |-> {}] /\ mixed = {}
  /\ faults = 0

Mine(t) == store[ServerOf[t]]
Keep(t, s) == store' = [store EXCEPT ![ServerOf[t]] = s]
At(t, step) == act[t].at = step
Go(t, a) == act' = [act EXCEPT ![t] = a]
\* A request begins; the facts which are verified then are remembered for as long as they stay so.
Begin(t, e, step) == [Idle EXCEPT !.at = step, !.evidence = e, !.stood = MarkedFacts(db.facts)]

-----------------------------------------------------------------------------
(* Upload: the content goes to the vault, the row and the facts (the       *)
(* client's, or those suggested by the text) to the store, then to the     *)
(* tables one transaction each.                                            *)

Upload(t, e) ==
  /\ At(t, "idle")
  /\ \A s \in Servers : store[s].evidence[e] = Absent
  /\ db.evidence[e] = Absent
  /\ \A u \in Threads : act[u].evidence # e
  /\ vault' = vault \cup {e}
  /\ Keep(t, [Mine(t) EXCEPT !.evidence[e] = Pending, !.lists = @ \cup {e},
                             !.facts = [f \in Facts |-> IF f \in FactsOf(e) THEN Pending ELSE @[f]]])
  /\ Go(t, [Begin(t, e, "put_evidence") EXCEPT !.facts = FactsOf(e),
              !.flags = [f \in Facts |-> IF f \in FactsOf(e) THEN Pending ELSE Absent]])
  /\ UNCHANGED <<db, vouched, marked, made, mixed, faults>>

\* The row written is the one in the store, which a verification may have marked by now.
PutEvidence(t) ==
  /\ At(t, "put_evidence")
  /\ db' = [db EXCEPT !.evidence[act[t].evidence] = Mine(t).evidence[act[t].evidence]]
  /\ Go(t, [act[t] EXCEPT !.at = "put_facts"])
  /\ UNCHANGED <<store, vault, vouched, marked, made, mixed, faults>>

\* One fact is inserted or overwritten.
PutFact(t) ==
  /\ At(t, "put_facts")
  /\ \/ \E f \in act[t].facts :
          /\ db' = [db EXCEPT !.facts[f] = act[t].flags[f]]
          /\ act' = [u \in Threads |->
                       [act[u] EXCEPT !.facts = IF u = t THEN @ \ {f} ELSE @,
                                      !.stood = IF act[t].flags[f] = Verified THEN @ ELSE @ \ {f}]]
     \/ act[t].facts = {} /\ Go(t, Idle) /\ UNCHANGED db
  /\ UNCHANGED <<store, vault, vouched, marked, made, mixed, faults>>

-----------------------------------------------------------------------------
(* Verification of an evidence.                                            *)

\* The row is the store's, or else the table's.
RowAt(t, e) == IF Mine(t).evidence[e] # Absent THEN Mine(t).evidence[e] ELSE db.evidence[e]

\* verify_integrity against the row's hash.
Intact(e) == e \in vault

Verify(t, e) ==
  /\ At(t, "idle")
  /\ RowAt(t, e) # Absent
  /\ Intact(e)
  /\ Keep(t, [Mine(t) EXCEPT !.evidence[e] = Verified])
  /\ vouched' = vouched \cup {e}
  /\ Go(t, Begin(t, e, "mark_evidence"))
  /\ UNCHANGED <<db, vault, marked, made, mixed, faults>>

\* An UPDATE, which finds nothing when the row is not inserted yet.
MarkEvidence(t) ==
  /\ At(t, "mark_evidence")
  /\ db' = [db EXCEPT !.evidence[act[t].evidence] = IF @ = Absent THEN Absent ELSE Verified]
  /\ Go(t, Idle)
  /\ UNCHANGED <<store, vault, vouched, marked, made, mixed, faults>>

-----------------------------------------------------------------------------
(* Verification of facts: all the facts of the evidence are read, the      *)
(* selected ones are marked, and all are written back.                     *)

\* The row is the table's, or else the store's; it must be verified.
GateRow(t, e) == IF db.evidence[e] # Absent THEN db.evidence[e] ELSE Mine(t).evidence[e]
Gate(t, e) ==
  /\ At(t, "idle")
  /\ GateRow(t, e) # Absent
  /\ Keep(t, [Mine(t) EXCEPT !.evidence[e] = GateRow(t, e)])
  /\ IF GateRow(t, e) = Verified THEN Go(t, Begin(t, e, "read_facts")) ELSE UNCHANGED act
  /\ UNCHANGED <<db, vault, vouched, marked, made, mixed, faults>>

FactsRead_Cached(t, e) ==
  [f \in Facts |-> IF f \notin FactsOf(e) THEN Absent
                   ELSE IF e \in Mine(t).lists THEN Mine(t).facts[f] ELSE db.facts[f]]
\* The facts of e as the table has them.
FactsRead(t, e) == [f \in Facts |-> IF f \in FactsOf(e) THEN db.facts[f] ELSE Absent]

VerifyFacts(t, selected) ==
  LET e == act[t].evidence
      read == FactsRead(t, e)
      list == {f \in Facts : read[f] # Absent}
      flags == [f \in Facts |-> IF f \in list \cap selected THEN Verified ELSE read[f]] IN
  /\ At(t, "read_facts")
  /\ selected \subseteq FactsOf(e)
  /\ Keep(t, [Mine(t) EXCEPT !.lists = @ \cup {e},
                             !.facts = [f \in Facts |-> IF f \in FactsOf(e) THEN flags[f] ELSE @[f]]])
  /\ marked' = marked \cup (list \cap selected)
  /\ Go(t, [act[t] EXCEPT !.at = "put_facts", !.facts = list, !.flags = flags])
  /\ UNCHANGED <<db, vault, vouched, made, mixed, faults>>

-----------------------------------------------------------------------------
(* Analysis and dispositions.  A request on the case first refreshes the   *)
(* process's rows of evidence (hydrate_context); the facts it reads then   *)
(* are kept under their own identifiers, where no list is looked for.      *)

Hydrate(t, step) ==
  /\ At(t, "idle")
  /\ Keep(t, [Mine(t) EXCEPT !.evidence =
                [e \in Evidence |-> IF db.evidence[e] = Absent THEN @[e] ELSE db.evidence[e]]])
  /\ Go(t, Begin(t, None, step))
  /\ UNCHANGED <<db, vault, vouched, marked, made, mixed, faults>>

Detected_Unverified(t, selected) ==
  LET against == {EvidenceOf[f] : f \in {g \in Conflicting : /\ EvidenceOf[g] \in selected \cap Mine(t).lists
                                                             /\ Mine(t).evidence[EvidenceOf[g]] # Absent
                                                             /\ Mine(t).facts[g] # Absent}}
  IN {against} \ {{}}
\* detect_contradictions over the facts the process has lists of: at most one finding for one claim.
Detected(t, selected) ==
  LET against == {EvidenceOf[f] : f \in {g \in Conflicting : /\ EvidenceOf[g] \in selected \cap Mine(t).lists
                                                             /\ Mine(t).evidence[EvidenceOf[g]] # Absent
                                                             /\ Mine(t).facts[g] = Verified}}
  IN {against} \ {{}}

Analyze(t, selected) ==
  /\ At(t, "analyze")
  /\ Keep(t, [Mine(t) EXCEPT !.findings = Detected(t, selected)])
  /\ Go(t, [act[t] EXCEPT !.at = "put_findings", !.findings = Detected(t, selected)])
  /\ UNCHANGED <<db, vault, vouched, marked, made, mixed, faults>>

\* The findings are upserted, those of earlier analyses stay, and the process's list is set again.
PutFindings(t) ==
  /\ At(t, "put_findings")
  /\ db' = [db EXCEPT !.findings = @ \cup act[t].findings]
  /\ Keep(t, [Mine(t) EXCEPT !.findings = act[t].findings])
  /\ Go(t, Idle)
  /\ UNCHANGED <<vault, vouched, marked, made, mixed, faults>>

Disposing(t, c) == act[t].rank # 0 /\ act[t].findings = {c}

\* The finding must be in the process's list: 404 otherwise.
Dispose(t, c) ==
  LET rank == Cardinality(UNION {made[d] : d \in Findings}) + 1 IN
  /\ At(t, "dispose")
  /\ c \in Mine(t).findings
  /\ rank \in Ranks
  /\ made' = [made EXCEPT ![c] = @ \cup {rank}]
  /\ mixed' = IF \E u \in Threads : Disposing(u, c) THEN mixed \cup {c} ELSE mixed
  /\ Keep(t, [Mine(t) EXCEPT !.disposition[c] = rank])
  /\ Go(t, [act[t] EXCEPT !.at = "put_disposition", !.findings = {c}, !.rank = rank])
  /\ UNCHANGED <<db, vault, vouched, marked, faults>>

Refuse(t) ==
  /\ At(t, "dispose") /\ Go(t, Idle)
  /\ UNCHANGED <<db, store, vault, vouched, marked, made, mixed, faults>>

UpsertDisposition_Once(c, rank) == [db EXCEPT !.disposition[c] = IF @ = 0 THEN rank ELSE @]
UpsertDisposition(c, rank) == [db EXCEPT !.disposition[c] = rank]
PutDisposition(t) ==
  /\ At(t, "put_disposition")
  /\ \E c \in act[t].findings : db' = UpsertDisposition(c, act[t].rank)
  /\ Go(t, [act[t] EXCEPT !.at = "put_history"])
  /\ UNCHANGED <<store, vault, vouched, marked, made, mixed, faults>>

PutHistory(t) ==
  /\ At(t, "put_history")
  /\ \E c \in act[t].findings : db' = [db EXCEPT !.history[c] = @ \cup {act[t].rank}]
  /\ Go(t, Idle)
  /\ UNCHANGED <<store, vault, vouched, marked, made, mixed, faults>>

-----------------------------------------------------------------------------
(* Faults.                                                                 *)

\* A request which ends before its disposition is in both tables.
Cut(ts) == mixed' = mixed \cup UNION {act[t].findings : t \in {u \in ts : act[u].rank # 0}}
Fault == faults < MaxFaults /\ faults' = faults + 1 /\ UNCHANGED <<db, vouched, marked, made>>

\* A transaction fails: the request ends there.
Fail(t) == Fault /\ ~At(t, "idle") /\ Go(t, Idle) /\ Cut({t}) /\ UNCHANGED <<store, vault>>

\* A process dies and another takes its place.
Restart(s) ==
  LET dead == {t \in Threads : ServerOf[t] = s} IN
  /\ Fault
  /\ store' = [store EXCEPT ![s] = EmptyStore]
  /\ act' = [t \in Threads |-> IF t \in dead THEN Idle ELSE act[t]]
  /\ Cut(dead)
  /\ UNCHANGED vault

\* An object of the vault is damaged.
Damage(e) == Fault /\ e \in vault /\ vault' = vault \ {e} /\ UNCHANGED <<store, act, mixed>>

Request(t) ==
  \/ \E e \in Evidence : Upload(t, e) \/ Verify(t, e) \/ Gate(t, e)
  \/ Hydrate(t, "analyze") \/ Hydrate(t, "dispose")
Step(t) ==
  \/ PutEvidence(t) \/ PutFact(t) \/ MarkEvidence(t)
  \/ \E selected \in SUBSET Facts : VerifyFacts(t, selected)
  \/ \E selected \in SUBSET Evidence : Analyze(t, selected)
  \/ \E c \in Findings : Dispose(t, c)
  \/ Refuse(t) \/ PutFindings(t) \/ PutDisposition(t) \/ PutHistory(t)

Next ==
  \/ \E t \in Threads : Request(t) \/ Step(t) \/ Fail(t)
  \/ \E s \in Servers : Restart(s)
  \/ \E e \in Evidence : Damage(e)

Spec == Init /\ [][Next]_vars

-----------------------------------------------------------------------------
(* Properties.                                                             *)

TypeOK ==
  /\ db.evidence \in [Evidence -> Flags] /\ db.facts \in [Facts -> Flags]
  /\ db.findings \subseteq Findings
  /\ db.disposition \in [Findings -> 0..MaxDispositions] /\ db.history \in [Findings -> SUBSET Ranks]
  /\ \A s \in Servers :
       /\ store[s].evidence \in [Evidence -> Flags] /\ store[s].lists \subseteq Evidence
       /\ store[s].facts \in [Facts -> Flags] /\ store[s].findings \subseteq Findings
       /\ store[s].disposition \in [Findings -> 0..MaxDispositions]
  /\ \A t \in Threads : act[t].evidence \in Evidence \cup {None} /\ act[t].facts \subseteq Facts
  /\ vault \subseteq Evidence /\ vouched \subseteq Evidence /\ marked \subseteq Facts

\* A finding, in the tables or in any process, rests on facts somebody verified, of
\* evidence whose content somebody checked before: whichever processes served the
\* upload, the two verifications and the analysis, in whatever order.
FindingIsFounded ==
  /\ TypeOK
  /\ \A c \in db.findings \cup UNION {store[s].findings : s \in Servers} :
       \A e \in c : e \in vouched /\ \E f \in FactsOf(e) : f \in Conflicting \cap marked
  /\ \A f \in MarkedFacts(db.facts) : f \in marked /\ EvidenceOf[f] \in vouched

\* A verification of facts does not undo one that was complete when it began: a fact
\* loses its mark only to a request that began before the fact had it.  (All facts of
\* the evidence are written back as they were read, so overlapping verifications do
\* undo one another.)
CompletedVerificationStands ==
  [][\A t \in Threads : \A f \in act[t].stood :
       (act'[t].facts # act[t].facts /\ db.facts[f] = Verified) => db'.facts[f] = Verified]_vars

\* The disposition of a finding is the last one made of it, and its history has them
\* all, unless two were made at once or one was cut short between its two tables.
DispositionIsTheLast ==
  \A c \in Findings :
    (c \notin mixed /\ ~\E t \in Threads : Disposing(t, c)) =>
      /\ db.history[c] = made[c]
      /\ db.disposition[c] = IF made[c] = {} THEN 0 ELSE CHOOSE r \in made[c] : \A q \in made[c] : q <= r
=============================================================================
