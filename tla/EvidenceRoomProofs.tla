------------------------- MODULE EvidenceRoomProofs -------------------------
(***************************************************************************)
(* Theorems about EvidenceRoom, for any evidence, facts, processes and     *)
(* threads, any number of dispositions and of faults.                      *)
(*                                                                         *)
(* What is written to the tables was in a process's store or in the hands  *)
(* of a request before; so the same must be true of all three: that is     *)
(* RoomInv.                                                                *)
(***************************************************************************)
EXTENDS EvidenceRoom, FiniteSetTheorems, TLAPS

Steps == {"idle", "put_evidence", "put_facts", "mark_evidence", "read_facts", "analyze", "dispose",
          "put_findings", "put_disposition", "put_history"}

Db == [evidence : [Evidence -> Flags], facts : [Facts -> Flags], findings : SUBSET Findings,
       disposition : [Findings -> 0..MaxDispositions], history : [Findings -> SUBSET Ranks]]
Store == [evidence : [Evidence -> Flags], lists : SUBSET Evidence, facts : [Facts -> Flags],
          findings : SUBSET Findings, disposition : [Findings -> 0..MaxDispositions]]
Act == [at : Steps, evidence : Evidence \cup {None}, facts : SUBSET Facts, flags : [Facts -> Flags],
        findings : SUBSET Findings, rank : 0..MaxDispositions, stood : SUBSET Facts]

\* The finding c rests on checked evidence of V and on selected facts of M.
Founded(c, V, M) == \A e \in c : e \in V /\ \E f \in FactsOf(e) : f \in Conflicting \cap M

\* The rows r, of the tables or of a store, have marks and findings with a reason.
RowsFounded(r, V, M) ==
  /\ \A e \in Evidence : r.evidence[e] = Verified => e \in V
  /\ \A f \in Facts : r.facts[f] = Verified => f \in M /\ EvidenceOf[f] \in V
  /\ \A c \in r.findings : Founded(c, V, M)

\* So does the request a.
ActFounded(a, V, M) ==
  /\ a.at \in {"put_evidence", "put_facts", "mark_evidence", "read_facts"} => a.evidence \in Evidence
  /\ a.at \in {"mark_evidence", "read_facts"} => a.evidence \in V
  /\ a.at \in {"put_disposition", "put_history"} => a.rank # 0
  /\ \A f \in Facts : a.flags[f] = Verified => f \in M /\ EvidenceOf[f] \in V
  /\ \A c \in a.findings : Founded(c, V, M)

RoomInv ==
  /\ db \in Db /\ RowsFounded(db, vouched, marked)
  /\ store \in [Servers -> Store] /\ \A s \in Servers : RowsFounded(store[s], vouched, marked)
  /\ act \in [Threads -> Act] /\ \A t \in Threads : ActFounded(act[t], vouched, marked)
  /\ vault \subseteq Evidence /\ vouched \subseteq Evidence /\ marked \subseteq Facts
  /\ made \in [Findings -> SUBSET Ranks] /\ mixed \subseteq Findings /\ faults \in Nat

-----------------------------------------------------------------------------
(* What has a reason keeps it. *)

LEMMA ReasonsStay ==
  ASSUME NEW V, NEW W, NEW M, NEW N, V \subseteq W, M \subseteq N
  PROVE  /\ \A c : Founded(c, V, M) => Founded(c, W, N)
         /\ \A r : RowsFounded(r, V, M) => RowsFounded(r, W, N)
         /\ \A a : ActFounded(a, V, M) => ActFounded(a, W, N)
  <1>1. \A c : Founded(c, V, M) => Founded(c, W, N)
    BY DEF Founded
  <1>2. \A r : RowsFounded(r, V, M) => RowsFounded(r, W, N)
    BY <1>1 DEF RowsFounded
  <1>3. \A a : ActFounded(a, V, M) => ActFounded(a, W, N)
    BY <1>1 DEF ActFounded
  <1> QED
    BY <1>1, <1>2, <1>3

LEMMA FlagsType == {Absent, Pending, Verified} \subseteq Flags /\ Pending # Verified /\ Absent # Verified
                   /\ Pending # Absent
  BY DEF Flags, Absent, Pending, Verified

LEMMA IdleType ==
  /\ Idle \in Act /\ Idle.at = "idle" /\ Idle.rank = 0 /\ Idle.stood = {} /\ Idle.findings = {}
  /\ Idle.facts = {} /\ \A V, M : ActFounded(Idle, V, M)
  <1>1. Idle \in Act
    BY FlagsType, BoundsAssumption DEF Idle, Act, Steps
  <1> QED
    BY <1>1, FlagsType DEF Idle, ActFounded

LEMMA EmptyStoreType == EmptyStore \in Store /\ \A V, M : RowsFounded(EmptyStore, V, M)
  BY FlagsType, BoundsAssumption DEF EmptyStore, Store, RowsFounded

\* A request that begins.
LEMMA BeginType ==
  ASSUME db \in Db, NEW t \in Threads, NEW e \in Evidence \cup {None}, NEW step \in Steps
  PROVE  LET a == Begin(t, e, step)
         IN /\ a \in Act /\ a.at = step /\ a.evidence = e /\ a.facts = {} /\ a.rank = 0
            /\ a.flags = Idle.flags /\ a.findings = {} /\ a.stood = MarkedFacts(db.facts)
            /\ \A f \in Facts : a.flags[f] = Absent
            /\ \A V, M : /\ step \in {"put_evidence", "put_facts", "mark_evidence", "read_facts"} => e \in Evidence
                         /\ step \in {"mark_evidence", "read_facts"} => e \in V
                         /\ step \notin {"put_disposition", "put_history"}
                         => ActFounded(a, V, M)
  <1> DEFINE a == Begin(t, e, step)
  <1>1. MarkedFacts(db.facts) \in SUBSET Facts
    BY DEF MarkedFacts
  <1>2. /\ a \in Act /\ a.at = step /\ a.evidence = e /\ a.facts = {} /\ a.rank = 0
        /\ a.flags = Idle.flags /\ a.findings = {} /\ a.stood = MarkedFacts(db.facts)
        /\ \A f \in Facts : a.flags[f] = Absent
    BY <1>1, IdleType, FlagsType, BoundsAssumption DEF Begin, Idle, Act, Steps
  <1> HIDE DEF a
  <1>3. \A V, M : /\ step \in {"put_evidence", "put_facts", "mark_evidence", "read_facts"} => e \in Evidence
                  /\ step \in {"mark_evidence", "read_facts"} => e \in V
                  /\ step \notin {"put_disposition", "put_history"}
                  => ActFounded(a, V, M)
    BY <1>2, FlagsType DEF ActFounded
  <1> QED
    BY <1>2, <1>3 DEF a

\* One process keeps other rows.
LEMMA KeepRoom ==
  ASSUME RoomInv, vouched \subseteq vouched', marked \subseteq marked',
         NEW t \in Threads, NEW r \in Store, RowsFounded(r, vouched', marked'), Keep(t, r)
  PROVE  /\ store' \in [Servers -> Store] /\ store'[ServerOf[t]] = r
         /\ \A s \in Servers : RowsFounded(store'[s], vouched', marked')
         /\ \A s \in Servers \ {ServerOf[t]} : store'[s] = store[s]
  <1>1. ServerOf[t] \in Servers /\ store \in [Servers -> Store]
    BY ServersAssumption DEF RoomInv
  <1>2. /\ store' \in [Servers -> Store] /\ store'[ServerOf[t]] = r
        /\ \A s \in Servers \ {ServerOf[t]} : store'[s] = store[s]
    BY <1>1 DEF Keep
  <1>3. \A s \in Servers : RowsFounded(store[s], vouched', marked')
    BY ReasonsStay DEF RoomInv
  <1> QED
    BY <1>1, <1>2, <1>3

\* One request goes on.
LEMMA GoRoom ==
  ASSUME RoomInv, vouched \subseteq vouched', marked \subseteq marked',
         NEW t \in Threads, NEW a \in Act, ActFounded(a, vouched', marked'), Go(t, a)
  PROVE  /\ act' \in [Threads -> Act] /\ act'[t] = a
         /\ \A u \in Threads : ActFounded(act'[u], vouched', marked')
         /\ \A u \in Threads \ {t} : act'[u] = act[u]
  <1>1. act \in [Threads -> Act]
    BY DEF RoomInv
  <1>2. act' \in [Threads -> Act] /\ act'[t] = a /\ \A u \in Threads \ {t} : act'[u] = act[u]
    BY <1>1 DEF Go
  <1>3. \A u \in Threads : ActFounded(act[u], vouched', marked')
    BY ReasonsStay DEF RoomInv
  <1> QED
    BY <1>2, <1>3

\* What a process and a request have.
LEMMA Possessions ==
  ASSUME RoomInv, NEW t \in Threads
  PROVE  /\ ServerOf[t] \in Servers /\ Mine(t) \in Store /\ Mine(t) = store[ServerOf[t]]
         /\ RowsFounded(Mine(t), vouched, marked)
         /\ act[t] \in Act /\ ActFounded(act[t], vouched, marked)
  BY ServersAssumption DEF RoomInv, Mine

-----------------------------------------------------------------------------
(* Evidence. *)

\* The other requests are where they were.
OthersGoOn(t) == \A u \in Threads \ {t} : act'[u] = act[u]
\* The history of the dispositions is not touched.
Undisposed == UNCHANGED <<made, mixed>> /\ db'.disposition = db.disposition /\ db'.history = db.history

LEMMA UploadDoes ==
  ASSUME RoomInv, NEW t \in Threads, NEW e \in Evidence, Upload(t, e)
  PROVE  /\ RoomInv' /\ Undisposed /\ db' = db /\ OthersGoOn(t)
         /\ act[t].at = "idle" /\ act'[t].at = "put_evidence" /\ act'[t].evidence = e
         /\ act'[t].facts = FactsOf(e) /\ act'[t].stood = MarkedFacts(db.facts)
         /\ act'[t].findings = {} /\ act'[t].rank = 0
         /\ \A f \in Facts : act'[t].flags[f] = IF f \in FactsOf(e) THEN Pending ELSE Absent
         /\ store'[ServerOf[t]].evidence[e] # Absent
         /\ \A s \in Servers, i \in Evidence : i # e => store'[s].evidence[i] = store[s].evidence[i]
         /\ \A s \in Servers : s # ServerOf[t] => store'[s] = store[s]
  <1> DEFINE r == [Mine(t) EXCEPT !.evidence[e] = Pending, !.lists = @ \cup {e},
                             !.facts = [f \in Facts |-> IF f \in FactsOf(e) THEN Pending ELSE @[f]]]
             b == Begin(t, e, "put_evidence")
             a == [b EXCEPT !.facts = FactsOf(e),
                     !.flags = [f \in Facts |-> IF f \in FactsOf(e) THEN Pending ELSE Absent]]
  <1>1. /\ Mine(t) \in Store /\ RowsFounded(Mine(t), vouched, marked) /\ ServerOf[t] \in Servers
        /\ Mine(t) = store[ServerOf[t]]
    BY Possessions
  <1>2. /\ r \in Store /\ \A i \in Evidence : r.evidence[i] = IF i = e THEN Pending ELSE Mine(t).evidence[i]
        /\ \A f \in Facts : r.facts[f] = IF f \in FactsOf(e) THEN Pending ELSE Mine(t).facts[f]
        /\ r.findings = Mine(t).findings
    BY <1>1, FlagsType DEF Store
  <1>3. RowsFounded(r, vouched', marked')
    BY <1>1, <1>2, FlagsType DEF RowsFounded, Upload
  <1>4. /\ b \in Act /\ b.at = "put_evidence" /\ b.evidence = e /\ b.stood = MarkedFacts(db.facts)
        /\ b.findings = {} /\ b.rank = 0
    BY BeginType DEF RoomInv, Steps
  <1> HIDE DEF b
  <1>5. FactsOf(e) \subseteq Facts
    BY DEF FactsOf
  <1>6. /\ a \in Act /\ a.at = "put_evidence" /\ a.evidence = e /\ a.facts = FactsOf(e)
        /\ a.stood = MarkedFacts(db.facts) /\ a.findings = {} /\ a.rank = 0
        /\ \A f \in Facts : a.flags[f] = IF f \in FactsOf(e) THEN Pending ELSE Absent
    BY <1>4, <1>5, FlagsType DEF Act
  <1>7. ActFounded(a, vouched', marked')
    BY <1>6, FlagsType DEF ActFounded
  <1>8. Keep(t, r) /\ Go(t, a)
    BY DEF Upload, b
  <1> HIDE DEF r, a
  <1>9. /\ store' \in [Servers -> Store] /\ store'[ServerOf[t]] = r
        /\ \A s \in Servers : RowsFounded(store'[s], vouched', marked')
        /\ \A s \in Servers \ {ServerOf[t]} : store'[s] = store[s]
    BY <1>2, <1>3, <1>8, KeepRoom DEF Upload
  <1>10. /\ act' \in [Threads -> Act] /\ act'[t] = a
         /\ \A u \in Threads : ActFounded(act'[u], vouched', marked')
         /\ \A u \in Threads \ {t} : act'[u] = act[u]
    BY <1>6, <1>7, <1>8, GoRoom DEF Upload
  <1>11. RoomInv'
    BY <1>9, <1>10 DEF RoomInv, Upload
  <1> QED
    BY <1>1, <1>2, <1>6, <1>9, <1>10, <1>11, FlagsType DEF Upload, At, Undisposed, OthersGoOn

LEMMA PutEvidenceDoes ==
  ASSUME RoomInv, NEW t \in Threads, PutEvidence(t), NEW e \in Evidence, e = act[t].evidence
  PROVE  /\ RoomInv' /\ Undisposed /\ UNCHANGED store /\ OthersGoOn(t)
         /\ act[t].at = "put_evidence" /\ act'[t] = [act[t] EXCEPT !.at = "put_facts"]
         /\ db'.facts = db.facts /\ db'.evidence[e] = Mine(t).evidence[e]
         /\ \A i \in Evidence \ {e} : db'.evidence[i] = db.evidence[i]
  <1> DEFINE a == [act[t] EXCEPT !.at = "put_facts"]
  <1>1. /\ Mine(t) \in Store /\ RowsFounded(Mine(t), vouched, marked) /\ db \in Db
        /\ RowsFounded(db, vouched, marked)
        /\ act[t] \in Act /\ ActFounded(act[t], vouched, marked) /\ act[t].at = "put_evidence"
    BY Possessions DEF RoomInv, PutEvidence, At
  <1>2. /\ a \in Act /\ a.at = "put_facts" /\ a.evidence = act[t].evidence /\ a.flags = act[t].flags
        /\ a.findings = act[t].findings
    BY <1>1 DEF Act, Steps
  <1>3. ActFounded(a, vouched', marked')
    BY <1>1, <1>2 DEF ActFounded, PutEvidence
  <1>4. db' = [db EXCEPT !.evidence[e] = Mine(t).evidence[e]] /\ Go(t, a)
    BY DEF PutEvidence
  <1> HIDE DEF a
  <1>5. /\ db' \in Db /\ db'.facts = db.facts /\ db'.evidence[e] = Mine(t).evidence[e]
        /\ \A i \in Evidence \ {e} : db'.evidence[i] = db.evidence[i]
        /\ db'.findings = db.findings /\ db'.disposition = db.disposition /\ db'.history = db.history
    BY <1>1, <1>4 DEF Db, Store
  <1>6. RowsFounded(db', vouched', marked')
    BY <1>1, <1>5 DEF RowsFounded, PutEvidence
  <1>7. /\ act' \in [Threads -> Act] /\ act'[t] = a
        /\ \A u \in Threads : ActFounded(act'[u], vouched', marked')
        /\ \A u \in Threads \ {t} : act'[u] = act[u]
    BY <1>2, <1>3, <1>4, GoRoom DEF PutEvidence
  <1>8. RoomInv'
    BY <1>5, <1>6, <1>7 DEF RoomInv, PutEvidence
  <1> QED
    BY <1>1, <1>5, <1>7, <1>8 DEF PutEvidence, Undisposed, OthersGoOn, a

LEMMA VerifyDoes ==
  ASSUME RoomInv, NEW t \in Threads, NEW e \in Evidence, Verify(t, e)
  PROVE  /\ RoomInv' /\ Undisposed /\ db' = db /\ OthersGoOn(t)
         /\ act[t].at = "idle" /\ act'[t].at = "mark_evidence" /\ act'[t].facts = {}
         /\ act'[t].stood = MarkedFacts(db.facts) /\ act'[t].findings = {} /\ act'[t].rank = 0
         /\ \A s \in Servers, i \in Evidence : store[s].evidence[i] # Absent => store'[s].evidence[i] # Absent
  <1> DEFINE r == [Mine(t) EXCEPT !.evidence[e] = Verified]
             a == Begin(t, e, "mark_evidence")
  <1>1. /\ Mine(t) \in Store /\ RowsFounded(Mine(t), vouched, marked) /\ ServerOf[t] \in Servers
        /\ Mine(t) = store[ServerOf[t]]
    BY Possessions
  <1>2. /\ r \in Store /\ \A i \in Evidence : r.evidence[i] = IF i = e THEN Verified ELSE Mine(t).evidence[i]
        /\ r.facts = Mine(t).facts /\ r.findings = Mine(t).findings
    BY <1>1, FlagsType DEF Store
  <1>3. /\ vouched' = vouched \cup {e} /\ marked' = marked
        /\ vouched \subseteq vouched' /\ marked \subseteq marked'
    BY DEF Verify
  <1>4. RowsFounded(Mine(t), vouched', marked')
    BY <1>1, <1>3, ReasonsStay
  <1>5. RowsFounded(r, vouched', marked')
    BY <1>2, <1>3, <1>4 DEF RowsFounded
  <1>6. /\ a \in Act /\ a.at = "mark_evidence" /\ a.facts = {} /\ a.stood = MarkedFacts(db.facts)
        /\ a.findings = {} /\ a.rank = 0 /\ ActFounded(a, vouched', marked')
    BY <1>3, BeginType DEF RoomInv, Steps
  <1>7. Keep(t, r) /\ Go(t, a)
    BY DEF Verify
  <1> HIDE DEF r, a
  <1>8. /\ store' \in [Servers -> Store] /\ store'[ServerOf[t]] = r
        /\ \A s \in Servers : RowsFounded(store'[s], vouched', marked')
        /\ \A s \in Servers \ {ServerOf[t]} : store'[s] = store[s]
    BY <1>2, <1>3, <1>5, <1>7, KeepRoom
  <1>9. /\ act' \in [Threads -> Act] /\ act'[t] = a
        /\ \A u \in Threads : ActFounded(act'[u], vouched', marked')
        /\ \A u \in Threads \ {t} : act'[u] = act[u]
    BY <1>3, <1>6, <1>7, GoRoom
  <1>10. RowsFounded(db, vouched', marked')
    BY <1>3, ReasonsStay DEF RoomInv
  <1>11. RoomInv'
    BY <1>3, <1>8, <1>9, <1>10 DEF RoomInv, Verify
  <1> QED
    BY <1>1, <1>2, <1>6, <1>8, <1>9, <1>11, FlagsType DEF Verify, At, Undisposed, OthersGoOn

LEMMA MarkEvidenceDoes ==
  ASSUME RoomInv, NEW t \in Threads, MarkEvidence(t)
  PROVE  /\ RoomInv' /\ Undisposed /\ UNCHANGED store /\ OthersGoOn(t)
         /\ act[t].at = "mark_evidence" /\ act'[t] = Idle /\ db'.facts = db.facts
         /\ \A i \in Evidence : db.evidence[i] # Absent => db'.evidence[i] # Absent
  <1>1. /\ db \in Db /\ RowsFounded(db, vouched, marked)
        /\ act[t] \in Act /\ ActFounded(act[t], vouched, marked) /\ act[t].at = "mark_evidence"
    BY Possessions DEF RoomInv, MarkEvidence, At
  <1>2. act[t].evidence \in Evidence /\ act[t].evidence \in vouched
    BY <1>1 DEF ActFounded
  <1>3. PICK e \in Evidence : e = act[t].evidence
    BY <1>2
  <1>4. db' = [db EXCEPT !.evidence[e] = IF db.evidence[e] = Absent THEN Absent ELSE Verified]
    BY <1>1, <1>3 DEF MarkEvidence, Db
  <1>5. /\ db' \in Db /\ db'.facts = db.facts
        /\ db'.evidence[e] = (IF db.evidence[e] = Absent THEN Absent ELSE Verified)
        /\ \A i \in Evidence \ {e} : db'.evidence[i] = db.evidence[i]
        /\ db'.findings = db.findings /\ db'.disposition = db.disposition /\ db'.history = db.history
    BY <1>1, <1>4, FlagsType DEF Db
  <1>6. RowsFounded(db', vouched', marked')
    BY <1>1, <1>2, <1>3, <1>5 DEF RowsFounded, MarkEvidence
  <1>7. /\ act' \in [Threads -> Act] /\ act'[t] = Idle
        /\ \A u \in Threads : ActFounded(act'[u], vouched', marked')
        /\ \A u \in Threads \ {t} : act'[u] = act[u]
    BY IdleType, GoRoom DEF MarkEvidence
  <1>8. RoomInv'
    BY <1>5, <1>6, <1>7 DEF RoomInv, MarkEvidence
  <1> QED
    BY <1>1, <1>5, <1>7, <1>8, FlagsType DEF MarkEvidence, Undisposed, OthersGoOn

-----------------------------------------------------------------------------
(* Facts. *)

LEMMA PutFactDoes ==
  ASSUME RoomInv, NEW t \in Threads, PutFact(t)
  PROVE  /\ RoomInv' /\ Undisposed /\ UNCHANGED store /\ act[t].at = "put_facts"
         /\ db'.evidence = db.evidence
         /\ \/ /\ act'[t] = Idle /\ OthersGoOn(t) /\ db' = db
            \/ \E f \in act[t].facts :
                 /\ db'.facts = [db.facts EXCEPT ![f] = act[t].flags[f]]
                 /\ \A u \in Threads :
                      /\ act'[u].at = act[u].at /\ act'[u].evidence = act[u].evidence
                      /\ act'[u].flags = act[u].flags /\ act'[u].findings = act[u].findings
                      /\ act'[u].rank = act[u].rank
                      /\ act'[u].facts = IF u = t THEN act[u].facts \ {f} ELSE act[u].facts
                      /\ act'[u].stood = IF act[t].flags[f] = Verified THEN act[u].stood
                                                                        ELSE act[u].stood \ {f}
  <1>1. /\ db \in Db /\ RowsFounded(db, vouched, marked)
        /\ act[t] \in Act /\ ActFounded(act[t], vouched, marked) /\ act[t].at = "put_facts"
        /\ act \in [Threads -> Act] /\ \A u \in Threads : ActFounded(act[u], vouched, marked)
    BY Possessions DEF RoomInv, PutFact, At
  <1>2. CASE act[t].facts = {} /\ Go(t, Idle) /\ UNCHANGED db
    <2>1. /\ act' \in [Threads -> Act] /\ act'[t] = Idle
          /\ \A u \in Threads : ActFounded(act'[u], vouched', marked')
          /\ \A u \in Threads \ {t} : act'[u] = act[u]
      BY <1>2, IdleType, GoRoom DEF PutFact
    <2>2. RoomInv'
      BY <1>2, <2>1 DEF RoomInv, PutFact
    <2> QED
      BY <1>1, <1>2, <2>1, <2>2 DEF PutFact, Undisposed, OthersGoOn
  <1>3. ASSUME NEW f \in act[t].facts,
               db' = [db EXCEPT !.facts[f] = act[t].flags[f]],
               act' = [u \in Threads |->
                         [act[u] EXCEPT !.facts = IF u = t THEN @ \ {f} ELSE @,
                                        !.stood = IF act[t].flags[f] = Verified THEN @ ELSE @ \ {f}]]
        PROVE  /\ RoomInv' /\ db'.evidence = db.evidence /\ db'.disposition = db.disposition
               /\ db'.history = db.history
               /\ db'.facts = [db.facts EXCEPT ![f] = act[t].flags[f]]
               /\ \A u \in Threads :
                      /\ act'[u].at = act[u].at /\ act'[u].evidence = act[u].evidence
                      /\ act'[u].flags = act[u].flags /\ act'[u].findings = act[u].findings
                      /\ act'[u].rank = act[u].rank
                      /\ act'[u].facts = IF u = t THEN act[u].facts \ {f} ELSE act[u].facts
                      /\ act'[u].stood = IF act[t].flags[f] = Verified THEN act[u].stood
                                                                        ELSE act[u].stood \ {f}
    <2>1. f \in Facts /\ act[t].flags[f] \in Flags
      BY <1>1 DEF Act
    <2>2. /\ db' \in Db /\ db'.evidence = db.evidence /\ db'.disposition = db.disposition
          /\ db'.history = db.history /\ db'.findings = db.findings
          /\ db'.facts = [db.facts EXCEPT ![f] = act[t].flags[f]]
      BY <1>1, <1>3, <2>1 DEF Db
    <2>3. RowsFounded(db', vouched', marked')
      <3>1. \A g \in Facts : db'.facts[g] = IF g = f THEN act[t].flags[f] ELSE db.facts[g]
        BY <1>1, <2>1, <2>2 DEF Db
      <3> QED
        BY <1>1, <2>1, <2>2, <3>1 DEF RowsFounded, ActFounded, PutFact
    <2>4. ASSUME NEW u \in Threads
          PROVE  /\ act'[u] \in Act
                 /\ act'[u].at = act[u].at /\ act'[u].evidence = act[u].evidence
                 /\ act'[u].flags = act[u].flags /\ act'[u].findings = act[u].findings
                 /\ act'[u].rank = act[u].rank
                 /\ act'[u].facts = IF u = t THEN act[u].facts \ {f} ELSE act[u].facts
                 /\ act'[u].stood = IF act[t].flags[f] = Verified THEN act[u].stood
                                                                   ELSE act[u].stood \ {f}
      <3>1. act[u] \in Act
        BY <1>1
      <3>2. act'[u] = [[act[u] EXCEPT !.facts = IF u = t THEN act[u].facts \ {f} ELSE act[u].facts]
                         EXCEPT !.stood = IF act[t].flags[f] = Verified THEN act[u].stood
                                                                         ELSE act[u].stood \ {f}]
        BY <1>3, <3>1 DEF Act
      <3> QED
        BY <3>1, <3>2 DEF Act
    <2>5. act' \in [Threads -> Act]
      BY <1>3, <2>4
    <2>6. ASSUME NEW u \in Threads PROVE ActFounded(act'[u], vouched', marked')
      <3>1. ActFounded(act[u], vouched, marked) /\ vouched' = vouched /\ marked' = marked
        BY <1>1 DEF PutFact
      <3> QED
        BY <2>4, <3>1 DEF ActFounded
    <2>7. RoomInv'
      BY <2>2, <2>3, <2>5, <2>6 DEF RoomInv, PutFact
    <2> QED
      BY <2>2, <2>4, <2>7
  <1>4. (\E f \in act[t].facts :
          /\ db' = [db EXCEPT !.facts[f] = act[t].flags[f]]
          /\ act' = [u \in Threads |->
                       [act[u] EXCEPT !.facts = IF u = t THEN @ \ {f} ELSE @,
                                      !.stood = IF act[t].flags[f] = Verified THEN @ ELSE @ \ {f}]])
        \/ (act[t].facts = {} /\ Go(t, Idle) /\ UNCHANGED db)
    BY DEF PutFact
  <1>5. CASE \E f \in act[t].facts :
          /\ db' = [db EXCEPT !.facts[f] = act[t].flags[f]]
          /\ act' = [u \in Threads |->
                       [act[u] EXCEPT !.facts = IF u = t THEN @ \ {f} ELSE @,
                                      !.stood = IF act[t].flags[f] = Verified THEN @ ELSE @ \ {f}]]
    <2>1. PICK f \in act[t].facts :
          /\ db' = [db EXCEPT !.facts[f] = act[t].flags[f]]
          /\ act' = [u \in Threads |->
                       [act[u] EXCEPT !.facts = IF u = t THEN @ \ {f} ELSE @,
                                      !.stood = IF act[t].flags[f] = Verified THEN @ ELSE @ \ {f}]]
      BY <1>5
    <2> HIDE DEF RoomInv
    <2> QED
      BY <1>1, <1>3, <2>1 DEF PutFact, Undisposed
  <1> QED
    BY <1>2, <1>4, <1>5

LEMMA GateDoes ==
  ASSUME RoomInv, NEW t \in Threads, NEW e \in Evidence, Gate(t, e)
  PROVE  /\ RoomInv' /\ Undisposed /\ db' = db /\ OthersGoOn(t) /\ act[t].at = "idle"
         /\ \/ act'[t] = act[t]
            \/ /\ act'[t].at = "read_facts" /\ act'[t].facts = {} /\ act'[t].evidence = e
               /\ act'[t].stood = MarkedFacts(db.facts) /\ act'[t].findings = {} /\ act'[t].rank = 0
         /\ \A s \in Servers, i \in Evidence : store[s].evidence[i] # Absent => store'[s].evidence[i] # Absent
  <1> DEFINE r == [Mine(t) EXCEPT !.evidence[e] = GateRow(t, e)]
             a == Begin(t, e, "read_facts")
  <1>1. /\ Mine(t) \in Store /\ RowsFounded(Mine(t), vouched, marked) /\ ServerOf[t] \in Servers
        /\ Mine(t) = store[ServerOf[t]] /\ db \in Db /\ RowsFounded(db, vouched, marked)
        /\ act \in [Threads -> Act]
    BY Possessions DEF RoomInv
  <1>2. GateRow(t, e) \in Flags /\ (GateRow(t, e) = Verified => e \in vouched) /\ GateRow(t, e) # Absent
    BY <1>1 DEF GateRow, Store, Db, RowsFounded, Gate
  <1>3. /\ r \in Store /\ r.facts = Mine(t).facts /\ r.findings = Mine(t).findings
        /\ \A i \in Evidence : r.evidence[i] = IF i = e THEN GateRow(t, e) ELSE Mine(t).evidence[i]
    BY <1>1, <1>2 DEF Store
  <1>4. RowsFounded(r, vouched', marked')
    BY <1>1, <1>2, <1>3 DEF RowsFounded, Gate
  <1>5. /\ a \in Act /\ a.at = "read_facts" /\ a.facts = {} /\ a.evidence = e
        /\ a.stood = MarkedFacts(db.facts) /\ a.findings = {} /\ a.rank = 0
        /\ GateRow(t, e) = Verified => ActFounded(a, vouched', marked')
    BY <1>1, <1>2, BeginType DEF Steps, Gate
  <1>6. Keep(t, r) /\ IF GateRow(t, e) = Verified THEN Go(t, a) ELSE UNCHANGED act
    BY DEF Gate
  <1> HIDE DEF r, a
  <1>7. /\ store' \in [Servers -> Store] /\ store'[ServerOf[t]] = r
        /\ \A s \in Servers : RowsFounded(store'[s], vouched', marked')
        /\ \A s \in Servers \ {ServerOf[t]} : store'[s] = store[s]
    BY <1>3, <1>4, <1>6, KeepRoom DEF Gate
  <1>8. /\ act' \in [Threads -> Act] /\ (act'[t] = a \/ act'[t] = act[t])
        /\ \A u \in Threads : ActFounded(act'[u], vouched', marked')
        /\ \A u \in Threads \ {t} : act'[u] = act[u]
    <2>1. CASE GateRow(t, e) = Verified
      BY <1>5, <1>6, <2>1, GoRoom DEF Gate
    <2>2. CASE GateRow(t, e) # Verified
      BY <1>1, <1>6, <2>2 DEF Gate, RoomInv
    <2> QED
      BY <2>1, <2>2
  <1>9. RoomInv'
    BY <1>7, <1>8 DEF RoomInv, Gate
  <1>10. \A s \in Servers, i \in Evidence : store[s].evidence[i] # Absent => store'[s].evidence[i] # Absent
    BY <1>1, <1>2, <1>3, <1>7
  <1> QED
    BY <1>5, <1>8, <1>9, <1>10 DEF Gate, At, Undisposed, OthersGoOn

LEMMA VerifyFactsDoes ==
  ASSUME RoomInv, NEW t \in Threads, NEW selected \in SUBSET Facts, VerifyFacts(t, selected),
         NEW e \in Evidence, e = act[t].evidence
  PROVE  /\ RoomInv' /\ Undisposed /\ db' = db /\ OthersGoOn(t) /\ act[t].at = "read_facts"
         /\ act'[t].at = "put_facts" /\ act'[t].evidence = e
         /\ act'[t].facts = {f \in FactsOf(e) : db.facts[f] # Absent}
         /\ \A f \in act'[t].facts : act'[t].flags[f] # Absent
                                     /\ (db.facts[f] = Verified => act'[t].flags[f] = Verified)
         /\ act'[t].stood = act[t].stood
         /\ act'[t].findings = act[t].findings /\ act'[t].rank = act[t].rank
         /\ \A s \in Servers : store'[s].evidence = store[s].evidence
  <1> DEFINE list == {f \in Facts : FactsRead(t, e)[f] # Absent}
             flags == [f \in Facts |-> IF f \in list \cap selected THEN Verified ELSE FactsRead(t, e)[f]]
             r == [Mine(t) EXCEPT !.lists = @ \cup {e},
                             !.facts = [f \in Facts |-> IF f \in FactsOf(e) THEN flags[f] ELSE @[f]]]
             a == [act[t] EXCEPT !.at = "put_facts", !.facts = list, !.flags = flags]
  <1>1. /\ Mine(t) \in Store /\ RowsFounded(Mine(t), vouched, marked) /\ ServerOf[t] \in Servers
        /\ Mine(t) = store[ServerOf[t]] /\ db \in Db /\ RowsFounded(db, vouched, marked)
        /\ act[t] \in Act /\ ActFounded(act[t], vouched, marked) /\ act[t].at = "read_facts"
        /\ e \in vouched /\ FactsOf(e) \subseteq Facts
    BY Possessions DEF RoomInv, VerifyFacts, At, ActFounded, FactsOf
  <1>2. /\ Keep(t, r) /\ marked' = marked \cup (list \cap selected) /\ Go(t, a)
        /\ UNCHANGED <<db, vault, vouched, made, mixed, faults>>
    BY DEF VerifyFacts
  <1>3. /\ \A f \in Facts : FactsRead(t, e)[f] = IF f \in FactsOf(e) THEN db.facts[f] ELSE Absent
        /\ list = {f \in FactsOf(e) : db.facts[f] # Absent}
    BY <1>1 DEF FactsRead
  <1>4. /\ flags \in [Facts -> Flags]
        /\ \A f \in Facts : flags[f] = IF f \in list \cap selected THEN Verified
                                       ELSE IF f \in FactsOf(e) THEN db.facts[f] ELSE Absent
    BY <1>1, <1>3, FlagsType DEF Db
  <1>5. \A f \in Facts : flags[f] = Verified => f \in marked' /\ EvidenceOf[f] \in vouched'
    <2>1. \A f \in list : EvidenceOf[f] = e
      BY <1>3 DEF FactsOf
    <2> QED
      BY <1>1, <1>2, <1>4, <2>1, FlagsType DEF RowsFounded
  <1>6. \A f \in list : flags[f] # Absent /\ (db.facts[f] = Verified => flags[f] = Verified)
    BY <1>3, <1>4, FlagsType
  <1>7. list \subseteq Facts
    OBVIOUS
  <1> HIDE DEF list, flags
  <1>8. /\ r \in Store /\ r.evidence = Mine(t).evidence /\ r.findings = Mine(t).findings
        /\ \A f \in Facts : r.facts[f] = IF f \in FactsOf(e) THEN flags[f] ELSE Mine(t).facts[f]
    BY <1>1, <1>4 DEF Store
  <1>9. vouched \subseteq vouched' /\ marked \subseteq marked'
    BY <1>2
  <1>10. RowsFounded(r, vouched', marked')
    <2>1. RowsFounded(Mine(t), vouched', marked')
      BY <1>1, <1>9, ReasonsStay
    <2> QED
      BY <1>5, <1>8, <2>1 DEF RowsFounded
  <1>11. /\ a \in Act /\ a.at = "put_facts" /\ a.facts = list /\ a.flags = flags
         /\ a.evidence = act[t].evidence /\ a.stood = act[t].stood
         /\ a.findings = act[t].findings /\ a.rank = act[t].rank
    BY <1>1, <1>4, <1>7 DEF Act, Steps
  <1>12. ActFounded(a, vouched', marked')
    <2>1. ActFounded(act[t], vouched', marked')
      BY <1>1, <1>9, ReasonsStay
    <2> QED
      BY <1>1, <1>5, <1>11, <2>1 DEF ActFounded
  <1> HIDE DEF r, a
  <1>13. /\ store' \in [Servers -> Store] /\ store'[ServerOf[t]] = r
         /\ \A s \in Servers : RowsFounded(store'[s], vouched', marked')
         /\ \A s \in Servers \ {ServerOf[t]} : store'[s] = store[s]
    BY <1>2, <1>8, <1>9, <1>10, KeepRoom
  <1>14. /\ act' \in [Threads -> Act] /\ act'[t] = a
         /\ \A u \in Threads : ActFounded(act'[u], vouched', marked')
         /\ \A u \in Threads \ {t} : act'[u] = act[u]
    BY <1>2, <1>9, <1>11, <1>12, GoRoom
  <1>15. RowsFounded(db, vouched', marked') /\ marked' \subseteq Facts
    BY <1>2, <1>7, <1>9, ReasonsStay DEF RoomInv
  <1>16. RoomInv'
    BY <1>2, <1>13, <1>14, <1>15 DEF RoomInv
  <1>17. \A s \in Servers : store'[s].evidence = store[s].evidence
    BY <1>1, <1>8, <1>13
  <1> QED
    BY <1>1, <1>2, <1>3, <1>6, <1>11, <1>14, <1>16, <1>17 DEF Undisposed, OthersGoOn

-----------------------------------------------------------------------------
(* Analysis. *)

LEMMA HydrateDoes ==
  ASSUME RoomInv, NEW t \in Threads, NEW step \in {"analyze", "dispose"}, Hydrate(t, step)
  PROVE  /\ RoomInv' /\ Undisposed /\ db' = db /\ OthersGoOn(t)
         /\ act[t].at = "idle" /\ act'[t].at = step /\ act'[t].facts = {}
         /\ act'[t].stood = MarkedFacts(db.facts) /\ act'[t].findings = {} /\ act'[t].rank = 0
         /\ \A s \in Servers, i \in Evidence : store[s].evidence[i] # Absent => store'[s].evidence[i] # Absent
  <1> DEFINE r == [Mine(t) EXCEPT !.evidence =
                     [e \in Evidence |-> IF db.evidence[e] = Absent THEN @[e] ELSE db.evidence[e]]]
             a == [Idle EXCEPT !.at = step, !.evidence = None, !.stood = MarkedFacts(db.facts)]
  <1>1. /\ Mine(t) \in Store /\ RowsFounded(Mine(t), vouched, marked) /\ ServerOf[t] \in Servers
        /\ Mine(t) = store[ServerOf[t]] /\ db \in Db /\ RowsFounded(db, vouched, marked)
    BY Possessions DEF RoomInv
  <1>2. /\ r \in Store /\ r.facts = Mine(t).facts /\ r.findings = Mine(t).findings
        /\ \A i \in Evidence : r.evidence[i] = IF db.evidence[i] = Absent THEN Mine(t).evidence[i]
                                                                         ELSE db.evidence[i]
    BY <1>1 DEF Store, Db
  <1>3. RowsFounded(r, vouched', marked')
    BY <1>1, <1>2 DEF RowsFounded, Hydrate
  <1>4. /\ a \in Act /\ a.at = step /\ a.facts = {} /\ a.stood = MarkedFacts(db.facts)
        /\ a.findings = {} /\ a.rank = 0 /\ ActFounded(a, vouched', marked')
    <2>1. MarkedFacts(db.facts) \in SUBSET Facts /\ step \in Steps
      BY DEF MarkedFacts, Steps
    <2>2. /\ a \in Act /\ a.at = step /\ a.facts = {} /\ a.stood = MarkedFacts(db.facts)
          /\ a.findings = {} /\ a.rank = 0 /\ \A f \in Facts : a.flags[f] = Absent
      BY <2>1, IdleType, FlagsType, BoundsAssumption DEF Idle, Act
    <2> QED
      BY <2>2, FlagsType DEF ActFounded
  <1>5. Keep(t, r) /\ Go(t, a)
    BY DEF Hydrate, Begin
  <1> HIDE DEF r, a
  <1>6. /\ store' \in [Servers -> Store] /\ store'[ServerOf[t]] = r
        /\ \A s \in Servers : RowsFounded(store'[s], vouched', marked')
        /\ \A s \in Servers \ {ServerOf[t]} : store'[s] = store[s]
    BY <1>2, <1>3, <1>5, KeepRoom DEF Hydrate
  <1>7. /\ act' \in [Threads -> Act] /\ act'[t] = a
        /\ \A u \in Threads : ActFounded(act'[u], vouched', marked')
        /\ \A u \in Threads \ {t} : act'[u] = act[u]
    BY <1>4, <1>5, GoRoom DEF Hydrate
  <1>8. RoomInv'
    BY <1>6, <1>7 DEF RoomInv, Hydrate
  <1>9. \A s \in Servers, i \in Evidence : store[s].evidence[i] # Absent => store'[s].evidence[i] # Absent
    BY <1>1, <1>2, <1>6
  <1> QED
    BY <1>4, <1>7, <1>8, <1>9 DEF Hydrate, At, Undisposed, OthersGoOn

\* What an analysis finds has a reason when the facts it looks at have one.
LEMMA DetectedFounded ==
  ASSUME RoomInv, NEW t \in Threads, NEW selected \in SUBSET Evidence
  PROVE  /\ Detected(t, selected) \in SUBSET Findings
         /\ \A c \in Detected(t, selected) : Founded(c, vouched, marked)
  <1> DEFINE found == {g \in Conflicting : /\ EvidenceOf[g] \in selected \cap Mine(t).lists
                                           /\ Mine(t).evidence[EvidenceOf[g]] # Absent
                                           /\ Mine(t).facts[g] = Verified}
             against == {EvidenceOf[f] : f \in found}
  <1>1. Detected(t, selected) = {against} \ {{}}
    BY DEF Detected
  <1>2. \A g \in found : /\ g \in Facts /\ EvidenceOf[g] \in Evidence /\ g \in Conflicting
                         /\ EvidenceOf[g] \in vouched /\ g \in marked
    BY Possessions, FactsAssumption DEF RowsFounded
  <1> HIDE DEF found
  <1>3. against \subseteq Evidence
    BY <1>2
  <1>4. \A e \in against : \E f \in found : EvidenceOf[f] = e
    OBVIOUS
  <1>5. Founded(against, vouched, marked)
    <2> SUFFICES ASSUME NEW e \in against
                 PROVE  e \in vouched /\ \E f \in FactsOf(e) : f \in Conflicting \cap marked
      BY DEF Founded
    <2> HIDE DEF against
    <2>1. PICK f \in found : EvidenceOf[f] = e
      BY <1>4
    <2> QED
      BY <1>2, <2>1 DEF FactsOf
  <1> HIDE DEF against
  <1>6. \A c \in Detected(t, selected) : c = against /\ c # {}
    BY <1>1
  <1>7. \A c \in Detected(t, selected) : c \in Findings
    BY <1>3, <1>6 DEF Findings
  <1>8. \A c \in Detected(t, selected) : Founded(c, vouched, marked)
    BY <1>5, <1>6
  <1> QED
    BY <1>7, <1>8

LEMMA AnalyzeDoes ==
  ASSUME RoomInv, NEW t \in Threads, NEW selected \in SUBSET Evidence, Analyze(t, selected)
  PROVE  /\ RoomInv' /\ Undisposed /\ db' = db /\ OthersGoOn(t)
         /\ act[t].at = "analyze" /\ act'[t].at = "put_findings" /\ act'[t].facts = act[t].facts
         /\ act'[t].stood = act[t].stood /\ act'[t].rank = act[t].rank
         /\ \A s \in Servers : store'[s].evidence = store[s].evidence
  <1> DEFINE r == [Mine(t) EXCEPT !.findings = Detected(t, selected)]
             a == [act[t] EXCEPT !.at = "put_findings", !.findings = Detected(t, selected)]
  <1>1. /\ Mine(t) \in Store /\ RowsFounded(Mine(t), vouched, marked) /\ ServerOf[t] \in Servers
        /\ Mine(t) = store[ServerOf[t]]
        /\ act[t] \in Act /\ ActFounded(act[t], vouched, marked)
    BY Possessions
  <1>2. /\ Detected(t, selected) \in SUBSET Findings
        /\ \A c \in Detected(t, selected) : Founded(c, vouched, marked)
    BY DetectedFounded
  <1>3. /\ r \in Store /\ r.evidence = Mine(t).evidence /\ r.facts = Mine(t).facts
        /\ r.findings = Detected(t, selected)
    BY <1>1, <1>2 DEF Store
  <1>4. RowsFounded(r, vouched', marked')
    BY <1>1, <1>2, <1>3 DEF RowsFounded, Analyze
  <1>5. /\ a \in Act /\ a.at = "put_findings" /\ a.facts = act[t].facts /\ a.flags = act[t].flags
        /\ a.stood = act[t].stood /\ a.rank = act[t].rank /\ a.findings = Detected(t, selected)
    BY <1>1, <1>2 DEF Act, Steps
  <1>6. ActFounded(a, vouched', marked')
    BY <1>1, <1>2, <1>5 DEF ActFounded, Analyze
  <1>7. Keep(t, r) /\ Go(t, a)
    BY DEF Analyze
  <1> HIDE DEF r, a
  <1>8. /\ store' \in [Servers -> Store] /\ store'[ServerOf[t]] = r
        /\ \A s \in Servers : RowsFounded(store'[s], vouched', marked')
        /\ \A s \in Servers \ {ServerOf[t]} : store'[s] = store[s]
    BY <1>3, <1>4, <1>7, KeepRoom DEF Analyze
  <1>9. /\ act' \in [Threads -> Act] /\ act'[t] = a
        /\ \A u \in Threads : ActFounded(act'[u], vouched', marked')
        /\ \A u \in Threads \ {t} : act'[u] = act[u]
    BY <1>5, <1>6, <1>7, GoRoom DEF Analyze
  <1>10. RoomInv'
    BY <1>8, <1>9 DEF RoomInv, Analyze
  <1>11. \A s \in Servers : store'[s].evidence = store[s].evidence
    BY <1>1, <1>3, <1>8
  <1> QED
    BY <1>5, <1>9, <1>10, <1>11 DEF Analyze, At, Undisposed, OthersGoOn

LEMMA PutFindingsDoes ==
  ASSUME RoomInv, NEW t \in Threads, PutFindings(t)
  PROVE  /\ RoomInv' /\ Undisposed /\ OthersGoOn(t) /\ act[t].at = "put_findings" /\ act'[t] = Idle
         /\ db'.evidence = db.evidence /\ db'.facts = db.facts
         /\ \A s \in Servers : store'[s].evidence = store[s].evidence
  <1> DEFINE r == [Mine(t) EXCEPT !.findings = act[t].findings]
  <1>1. /\ Mine(t) \in Store /\ RowsFounded(Mine(t), vouched, marked) /\ ServerOf[t] \in Servers
        /\ Mine(t) = store[ServerOf[t]] /\ db \in Db /\ RowsFounded(db, vouched, marked)
        /\ act[t] \in Act /\ ActFounded(act[t], vouched, marked)
    BY Possessions DEF RoomInv
  <1>2. /\ r \in Store /\ r.evidence = Mine(t).evidence /\ r.facts = Mine(t).facts
        /\ r.findings = act[t].findings
    BY <1>1 DEF Store, Act
  <1>3. RowsFounded(r, vouched', marked')
    BY <1>1, <1>2 DEF RowsFounded, ActFounded, PutFindings
  <1>4. db' = [db EXCEPT !.findings = db.findings \cup act[t].findings] /\ Keep(t, r) /\ Go(t, Idle)
    BY <1>1 DEF PutFindings, Db
  <1> HIDE DEF r
  <1>5. /\ db' \in Db /\ db'.evidence = db.evidence /\ db'.facts = db.facts
        /\ db'.findings = db.findings \cup act[t].findings
        /\ db'.disposition = db.disposition /\ db'.history = db.history
    BY <1>1, <1>4 DEF Db, Act
  <1>6. RowsFounded(db', vouched', marked')
    BY <1>1, <1>5 DEF RowsFounded, ActFounded, PutFindings
  <1>7. /\ store' \in [Servers -> Store] /\ store'[ServerOf[t]] = r
        /\ \A s \in Servers : RowsFounded(store'[s], vouched', marked')
        /\ \A s \in Servers \ {ServerOf[t]} : store'[s] = store[s]
    BY <1>2, <1>3, <1>4, KeepRoom DEF PutFindings
  <1>8. /\ act' \in [Threads -> Act] /\ act'[t] = Idle
        /\ \A u \in Threads : ActFounded(act'[u], vouched', marked')
        /\ \A u \in Threads \ {t} : act'[u] = act[u]
    BY <1>4, IdleType, GoRoom DEF PutFindings
  <1>9. RoomInv'
    BY <1>5, <1>6, <1>7, <1>8 DEF RoomInv, PutFindings
  <1>10. \A s \in Servers : store'[s].evidence = store[s].evidence
    BY <1>1, <1>2, <1>7
  <1> QED
    BY <1>5, <1>8, <1>9, <1>10 DEF PutFindings, At, Undisposed, OthersGoOn

-----------------------------------------------------------------------------
(* Dispositions. *)

NextRank == Cardinality(UNION {made[d] : d \in Findings}) + 1

LEMMA DisposeDoes ==
  ASSUME RoomInv, NEW t \in Threads, NEW c \in Findings, Dispose(t, c)
  PROVE  /\ RoomInv' /\ OthersGoOn(t) /\ db' = db
         /\ act[t].at = "dispose" /\ act'[t].at = "put_disposition" /\ act'[t].facts = act[t].facts
         /\ act'[t].stood = act[t].stood /\ act'[t].findings = {c} /\ act'[t].rank = NextRank
         /\ NextRank \in Ranks /\ made' = [made EXCEPT ![c] = @ \cup {NextRank}]
         /\ mixed' = IF \E u \in Threads : Disposing(u, c) THEN mixed \cup {c} ELSE mixed
         /\ \A s \in Servers : store'[s].evidence = store[s].evidence
  <1> DEFINE r == [Mine(t) EXCEPT !.disposition[c] = NextRank]
             a == [act[t] EXCEPT !.at = "put_disposition", !.findings = {c}, !.rank = NextRank]
  <1>1. /\ Mine(t) \in Store /\ RowsFounded(Mine(t), vouched, marked) /\ ServerOf[t] \in Servers
        /\ Mine(t) = store[ServerOf[t]]
        /\ act[t] \in Act /\ ActFounded(act[t], vouched, marked)
    BY Possessions
  <1>2. /\ NextRank \in Ranks /\ c \in Mine(t).findings
        /\ made' = [made EXCEPT ![c] = @ \cup {NextRank}]
        /\ mixed' = IF \E u \in Threads : Disposing(u, c) THEN mixed \cup {c} ELSE mixed
        /\ Keep(t, r) /\ Go(t, a) /\ act[t].at = "dispose"
        /\ UNCHANGED <<db, vault, vouched, marked, faults>>
    BY DEF Dispose, NextRank, At
  <1>3. NextRank \in 0..MaxDispositions /\ NextRank # 0
    BY <1>2, BoundsAssumption DEF Ranks
  <1>4. /\ r \in Store /\ r.evidence = Mine(t).evidence /\ r.facts = Mine(t).facts
        /\ r.findings = Mine(t).findings
    BY <1>1, <1>3 DEF Store
  <1>5. RowsFounded(r, vouched', marked')
    BY <1>1, <1>2, <1>4 DEF RowsFounded
  <1>6. /\ a \in Act /\ a.at = "put_disposition" /\ a.facts = act[t].facts /\ a.flags = act[t].flags
        /\ a.stood = act[t].stood /\ a.rank = NextRank /\ a.findings = {c}
    BY <1>1, <1>3 DEF Act, Steps
  <1>7. ActFounded(a, vouched', marked')
    BY <1>1, <1>2, <1>3, <1>6 DEF ActFounded, RowsFounded
  <1> HIDE DEF r, a
  <1>8. /\ store' \in [Servers -> Store] /\ store'[ServerOf[t]] = r
        /\ \A s \in Servers : RowsFounded(store'[s], vouched', marked')
        /\ \A s \in Servers \ {ServerOf[t]} : store'[s] = store[s]
    BY <1>2, <1>4, <1>5, KeepRoom
  <1>9. /\ act' \in [Threads -> Act] /\ act'[t] = a
        /\ \A u \in Threads : ActFounded(act'[u], vouched', marked')
        /\ \A u \in Threads \ {t} : act'[u] = act[u]
    BY <1>2, <1>6, <1>7, GoRoom
  <1>10. made' \in [Findings -> SUBSET Ranks] /\ mixed' \subseteq Findings
    BY <1>2 DEF RoomInv
  <1>11. RoomInv'
    BY <1>2, <1>8, <1>9, <1>10 DEF RoomInv
  <1>12. \A s \in Servers : store'[s].evidence = store[s].evidence
    BY <1>1, <1>4, <1>8
  <1> QED
    BY <1>2, <1>6, <1>9, <1>11, <1>12 DEF OthersGoOn

LEMMA PutDispositionDoes ==
  ASSUME RoomInv, NEW t \in Threads, PutDisposition(t)
  PROVE  /\ RoomInv' /\ UNCHANGED <<store, made, mixed>> /\ OthersGoOn(t)
         /\ act[t].at = "put_disposition" /\ act'[t] = [act[t] EXCEPT !.at = "put_history"]
         /\ db'.evidence = db.evidence /\ db'.facts = db.facts /\ db'.history = db.history
         /\ \E c \in act[t].findings : db'.disposition = [db.disposition EXCEPT ![c] = act[t].rank]
  <1> DEFINE a == [act[t] EXCEPT !.at = "put_history"]
  <1>1. /\ db \in Db /\ RowsFounded(db, vouched, marked) /\ act[t] \in Act
        /\ ActFounded(act[t], vouched, marked) /\ act[t].at = "put_disposition"
    BY Possessions DEF RoomInv, PutDisposition, At
  <1>2. PICK c \in act[t].findings : db' = [db EXCEPT !.disposition[c] = act[t].rank]
    BY DEF PutDisposition, UpsertDisposition
  <1>3. c \in Findings /\ act[t].rank \in 0..MaxDispositions /\ act[t].rank # 0
    BY <1>1 DEF Act, ActFounded
  <1>4. /\ db' \in Db /\ db'.evidence = db.evidence /\ db'.facts = db.facts
        /\ db'.findings = db.findings /\ db'.history = db.history
        /\ db'.disposition = [db.disposition EXCEPT ![c] = act[t].rank]
    BY <1>1, <1>2, <1>3 DEF Db
  <1>5. RowsFounded(db', vouched', marked')
    BY <1>1, <1>4 DEF RowsFounded, PutDisposition
  <1>6. /\ a \in Act /\ a.at = "put_history" /\ a.flags = act[t].flags
        /\ a.rank = act[t].rank /\ a.findings = act[t].findings
    BY <1>1 DEF Act, Steps
  <1>7. ActFounded(a, vouched', marked')
    BY <1>1, <1>3, <1>6 DEF ActFounded, PutDisposition
  <1>8. Go(t, a)
    BY DEF PutDisposition
  <1> HIDE DEF a
  <1>9. /\ act' \in [Threads -> Act] /\ act'[t] = a
        /\ \A u \in Threads : ActFounded(act'[u], vouched', marked')
        /\ \A u \in Threads \ {t} : act'[u] = act[u]
    BY <1>6, <1>7, <1>8, GoRoom DEF PutDisposition
  <1>10. RoomInv'
    BY <1>4, <1>5, <1>9 DEF RoomInv, PutDisposition
  <1> QED
    BY <1>1, <1>4, <1>9, <1>10 DEF PutDisposition, OthersGoOn, a

LEMMA PutHistoryDoes ==
  ASSUME RoomInv, NEW t \in Threads, PutHistory(t)
  PROVE  /\ RoomInv' /\ UNCHANGED <<store, made, mixed>> /\ OthersGoOn(t)
         /\ act[t].at = "put_history" /\ act'[t] = Idle
         /\ db'.evidence = db.evidence /\ db'.facts = db.facts /\ db'.disposition = db.disposition
         /\ \E c \in act[t].findings : db'.history = [db.history EXCEPT ![c] = @ \cup {act[t].rank}]
  <1>1. /\ db \in Db /\ RowsFounded(db, vouched, marked) /\ act[t] \in Act
        /\ ActFounded(act[t], vouched, marked) /\ act[t].at = "put_history"
    BY Possessions DEF RoomInv, PutHistory, At
  <1>2. PICK c \in act[t].findings : db' = [db EXCEPT !.history[c] = @ \cup {act[t].rank}]
    BY DEF PutHistory
  <1>3. c \in Findings /\ act[t].rank \in Ranks
    BY <1>1, BoundsAssumption DEF Act, ActFounded, Ranks
  <1>4. /\ db' \in Db /\ db'.evidence = db.evidence /\ db'.facts = db.facts
        /\ db'.findings = db.findings /\ db'.disposition = db.disposition
        /\ db'.history = [db.history EXCEPT ![c] = @ \cup {act[t].rank}]
    BY <1>1, <1>2, <1>3 DEF Db
  <1>5. RowsFounded(db', vouched', marked')
    BY <1>1, <1>4 DEF RowsFounded, PutHistory
  <1>6. /\ act' \in [Threads -> Act] /\ act'[t] = Idle
        /\ \A u \in Threads : ActFounded(act'[u], vouched', marked')
        /\ \A u \in Threads \ {t} : act'[u] = act[u]
    BY IdleType, GoRoom DEF PutHistory
  <1>7. RoomInv'
    BY <1>4, <1>5, <1>6 DEF RoomInv, PutHistory
  <1> QED
    BY <1>1, <1>4, <1>6, <1>7 DEF PutHistory, OthersGoOn

LEMMA RefuseDoes ==
  ASSUME RoomInv, NEW t \in Threads, Refuse(t)
  PROVE  /\ RoomInv' /\ Undisposed /\ UNCHANGED <<db, store>> /\ OthersGoOn(t)
         /\ act[t].at = "dispose" /\ act'[t] = Idle
  <1>1. /\ act' \in [Threads -> Act] /\ act'[t] = Idle
        /\ \A u \in Threads : ActFounded(act'[u], vouched', marked')
        /\ \A u \in Threads \ {t} : act'[u] = act[u]
    BY IdleType, GoRoom DEF Refuse
  <1>2. RoomInv'
    BY <1>1 DEF RoomInv, Refuse
  <1> QED
    BY <1>1, <1>2 DEF Refuse, At, Undisposed, OthersGoOn

-----------------------------------------------------------------------------
(* Faults. *)

\* Exactly the requests of ts end.
Ended(ts) == \A u \in Threads : act'[u] = IF u \in ts THEN Idle ELSE act[u]

LEMMA FailDoes ==
  ASSUME RoomInv, NEW t \in Threads, Fail(t)
  PROVE  RoomInv' /\ UNCHANGED <<db, store, made>> /\ Ended({t}) /\ Cut({t})
  <1>1. /\ act' \in [Threads -> Act] /\ act'[t] = Idle
        /\ \A u \in Threads : ActFounded(act'[u], vouched', marked')
        /\ \A u \in Threads \ {t} : act'[u] = act[u]
    BY IdleType, GoRoom DEF Fail, Fault
  <1>2. mixed' \subseteq Findings /\ faults' \in Nat
    BY DEF Fail, Fault, Cut, RoomInv, Act
  <1>3. RoomInv'
    BY <1>1, <1>2 DEF RoomInv, Fail, Fault
  <1> QED
    BY <1>1, <1>3 DEF Fail, Fault, Ended

LEMMA RestartDoes ==
  ASSUME RoomInv, NEW s \in Servers, Restart(s)
  PROVE  LET dead == {t \in Threads : ServerOf[t] = s}
         IN /\ RoomInv' /\ UNCHANGED <<db, made>> /\ Ended(dead) /\ Cut(dead)
            /\ store' = [store EXCEPT ![s] = EmptyStore]
  <1> DEFINE dead == {t \in Threads : ServerOf[t] = s}
  <1>1. /\ store' = [store EXCEPT ![s] = EmptyStore]
        /\ act' = [t \in Threads |-> IF t \in dead THEN Idle ELSE act[t]]
        /\ Fault /\ Cut(dead) /\ UNCHANGED vault
    BY DEF Restart
  <1>2. dead \subseteq Threads
    OBVIOUS
  <1> HIDE DEF dead
  <1>3. /\ store' \in [Servers -> Store] /\ \A z \in Servers : RowsFounded(store'[z], vouched', marked')
    BY <1>1, EmptyStoreType DEF RoomInv, Fault
  <1>4. act' \in [Threads -> Act] /\ \A u \in Threads : ActFounded(act'[u], vouched', marked')
    BY <1>1, IdleType DEF RoomInv, Fault
  <1>5. mixed' \subseteq Findings /\ faults' \in Nat
    BY <1>1, <1>2 DEF Fault, Cut, RoomInv, Act
  <1>6. RoomInv'
    BY <1>1, <1>3, <1>4, <1>5 DEF RoomInv, Fault
  <1>7. Ended(dead)
    BY <1>1 DEF Ended
  <1> QED
    BY <1>1, <1>6, <1>7 DEF Fault, dead

LEMMA DamageDoes ==
  ASSUME RoomInv, NEW e \in Evidence, Damage(e)
  PROVE  RoomInv' /\ Undisposed /\ UNCHANGED <<db, store, act>>
  <1>1. RoomInv'
    BY DEF RoomInv, Damage, Fault
  <1> QED
    BY <1>1 DEF Damage, Fault, Undisposed

-----------------------------------------------------------------------------
(* Findings and marks have reasons. *)

LEMMA InitRoom == Init => RoomInv
  <1> SUFFICES ASSUME Init PROVE RoomInv
    OBVIOUS
  <1>1. db \in Db /\ RowsFounded(db, vouched, marked)
    BY FlagsType, BoundsAssumption DEF Init, Db, RowsFounded
  <1>2. store \in [Servers -> Store] /\ \A s \in Servers : RowsFounded(store[s], vouched, marked)
    BY EmptyStoreType DEF Init
  <1>3. act \in [Threads -> Act] /\ \A t \in Threads : ActFounded(act[t], vouched, marked)
    BY IdleType DEF Init
  <1> QED
    BY <1>1, <1>2, <1>3 DEF RoomInv, Init

LEMMA NextRoom == RoomInv /\ [Next]_vars => RoomInv'
  <1> SUFFICES ASSUME RoomInv, [Next]_vars PROVE RoomInv'
    OBVIOUS
  <1>1. CASE \E t \in Threads : Request(t)
    BY <1>1, UploadDoes, VerifyDoes, GateDoes, HydrateDoes DEF Request
  <1>2. ASSUME NEW t \in Threads, Step(t) PROVE RoomInv'
    <2>1. CASE PutEvidence(t)
      <3>1. act[t].evidence \in Evidence
        BY <2>1, Possessions DEF PutEvidence, At, ActFounded
      <3> QED
        BY <2>1, <3>1, PutEvidenceDoes
    <2>2. ASSUME NEW selected \in SUBSET Facts, VerifyFacts(t, selected) PROVE RoomInv'
      <3>1. act[t].evidence \in Evidence
        BY <2>2, Possessions DEF VerifyFacts, At, ActFounded
      <3> QED
        BY <2>2, <3>1, VerifyFactsDoes
    <2>3. CASE PutFact(t) \/ MarkEvidence(t)
      BY <2>3, PutFactDoes, MarkEvidenceDoes
    <2>4. CASE \E selected \in SUBSET Evidence : Analyze(t, selected)
      BY <2>4, AnalyzeDoes
    <2>5. CASE PutFindings(t) \/ Refuse(t) \/ \E c \in Findings : Dispose(t, c)
      BY <2>5, PutFindingsDoes, RefuseDoes, DisposeDoes
    <2>6. CASE PutDisposition(t) \/ PutHistory(t)
      BY <2>6, PutDispositionDoes, PutHistoryDoes
    <2> QED
      BY <1>2, <2>1, <2>2, <2>3, <2>4, <2>5, <2>6 DEF Step
  <1>3. CASE \/ \E t \in Threads : Fail(t)
             \/ \E s \in Servers : Restart(s)
             \/ \E e \in Evidence : Damage(e)
    BY <1>3, FailDoes, RestartDoes, DamageDoes
  <1>4. CASE UNCHANGED vars
    BY <1>4 DEF vars, RoomInv
  <1> QED
    BY <1>1, <1>2, <1>3, <1>4 DEF Next

\* Every row, in the tables, in a process or in the hands of a request, has the type and the verifications
\* behind it that api_server.py asks for before it writes it.
THEOREM RowsHaveReasons == Spec => []RoomInv
  BY InitRoom, NextRoom, PTL DEF Spec

\* A finding, in the tables or in any process, rests on facts a verification selected, of evidence whose
\* content a verification checked, and so does every mark on a fact of the tables: through the cached
\* rows, the requests cut short and the damaged objects of api_server.py and case_contradiction_service.py.
THEOREM FindingsAreFounded == Spec => []FindingIsFounded
  <1>1. RoomInv => FindingIsFounded
    <2> SUFFICES ASSUME RoomInv PROVE FindingIsFounded
      OBVIOUS
    <2>1. TypeOK
      BY DEF RoomInv, TypeOK, Db, Store, Act
    <2>2. \A c \in db.findings \cup UNION {store[s].findings : s \in Servers} : Founded(c, vouched, marked)
      BY DEF RoomInv, RowsFounded
    <2>3. \A f \in MarkedFacts(db.facts) : f \in marked /\ EvidenceOf[f] \in vouched
      BY DEF RoomInv, RowsFounded, MarkedFacts
    <2> QED
      BY <2>1, <2>2, <2>3 DEF FindingIsFounded, Founded
  <1> QED
    BY <1>1, RowsHaveReasons, PTL

-----------------------------------------------------------------------------
(* A verification that was complete stands: a request which writes facts   *)
(* back has them as they were when it began, or marked.  For an upload     *)
(* that is so because no fact of its evidence is in the table before.      *)

\* Facts are in the table only when their evidence is.
RowsFirst == \A f \in Facts : db.facts[f] # Absent => db.evidence[EvidenceOf[f]] # Absent

\* A request a writes to the rows d, from a process with the rows m.
Stands(a, d, m) ==
  /\ \A f \in a.stood : d.facts[f] = Verified
  /\ a.at \in {"put_evidence", "put_facts"} =>
       \A f \in a.facts : EvidenceOf[f] = a.evidence /\ (f \in a.stood => a.flags[f] = Verified)
  /\ a.at = "put_evidence" => m.evidence[a.evidence] # Absent
  /\ a.at = "put_facts" => \A f \in a.facts : d.evidence[EvidenceOf[f]] # Absent

StoodInv == RowsFirst /\ \A t \in Threads : Stands(act[t], db, store[ServerOf[t]])

\* No row of evidence disappears, save with its process.
RowsRemain ==
  /\ \A e \in Evidence : db.evidence[e] # Absent => db'.evidence[e] # Absent
  /\ \A s \in Servers, e \in Evidence : store[s].evidence[e] # Absent => store'[s].evidence[e] # Absent

LEMMA StandsStays ==
  ASSUME RoomInv, NEW t \in Threads, Stands(act[t], db, store[ServerOf[t]]),
         act'[t].at = act[t].at, act'[t].evidence = act[t].evidence, act'[t].flags = act[t].flags,
         act'[t].facts \subseteq act[t].facts, act'[t].stood \subseteq act[t].stood,
         \A f \in act'[t].stood : db'.facts[f] = db.facts[f] \/ db'.facts[f] = Verified, RowsRemain
  PROVE  Stands(act'[t], db', store'[ServerOf[t]])
  <1>1. /\ ServerOf[t] \in Servers
        /\ act[t].at \in {"put_evidence", "put_facts"} => act[t].evidence \in Evidence
        /\ act[t].facts \subseteq Facts
    BY Possessions DEF ActFounded, Act
  <1>2. act[t].at = "put_evidence" => store'[ServerOf[t]].evidence[act[t].evidence] # Absent
    BY <1>1 DEF RowsRemain, Stands
  <1>3. act[t].at = "put_facts" => \A f \in act[t].facts : db'.evidence[EvidenceOf[f]] # Absent
    BY <1>1, FactsAssumption DEF RowsRemain, Stands
  <1>4. \A f \in act'[t].stood : db'.facts[f] = Verified
    BY DEF Stands
  <1>5. act'[t].at \in {"put_evidence", "put_facts"} =>
          \A f \in act'[t].facts :
            EvidenceOf[f] = act'[t].evidence /\ (f \in act'[t].stood => act'[t].flags[f] = Verified)
    BY DEF Stands
  <1> QED
    BY <1>2, <1>3, <1>4, <1>5 DEF Stands

\* One request goes on and writes no fact.
LEMMA OneStands ==
  ASSUME RoomInv, StoodInv, NEW t \in Threads, OthersGoOn(t), db'.facts = db.facts, RowsRemain,
         Stands(act'[t], db', store'[ServerOf[t]])
  PROVE  StoodInv'
  <1>1. \A u \in Threads : Stands(act'[u], db', store'[ServerOf[u]])
    <2> SUFFICES ASSUME NEW u \in Threads, u # t PROVE Stands(act'[u], db', store'[ServerOf[u]])
      OBVIOUS
    <2>1. act'[u] = act[u] /\ Stands(act[u], db, store[ServerOf[u]])
      BY DEF OthersGoOn, StoodInv
    <2> QED
      BY <2>1, StandsStays
  <1>2. RowsFirst'
    BY FactsAssumption DEF RowsFirst, StoodInv, RowsRemain
  <1> QED
    BY <1>1, <1>2 DEF StoodInv

\* A request which does not write facts or evidence stands.
LEMMA ReaderStands ==
  ASSUME NEW a, NEW d, NEW m, a.at \notin {"put_evidence", "put_facts"}, \A f \in a.stood : d.facts[f] = Verified
  PROVE  Stands(a, d, m)
  BY DEF Stands

LEMMA InitStood == Init => StoodInv
  <1> SUFFICES ASSUME Init PROVE StoodInv
    OBVIOUS
  <1>1. RowsFirst
    BY DEF Init, RowsFirst
  <1>2. ASSUME NEW t \in Threads PROVE Stands(act[t], db, store[ServerOf[t]])
    <2>1. act[t] = Idle
      BY DEF Init
    <2> QED
      BY <2>1, IdleType DEF Stands
  <1> QED
    BY <1>1, <1>2 DEF StoodInv

LEMMA StepStood ==
  ASSUME RoomInv, StoodInv, NEW t \in Threads, Request(t) \/ Step(t)
  PROVE  StoodInv'
  <1>0. \A f \in MarkedFacts(db.facts) : db.facts[f] = Verified
    BY DEF MarkedFacts
  <1>1. ASSUME NEW e \in Evidence, Upload(t, e) PROVE StoodInv'
    <2>1. /\ OthersGoOn(t) /\ db' = db
          /\ act'[t].at = "put_evidence" /\ act'[t].evidence = e
          /\ act'[t].facts = FactsOf(e) /\ act'[t].stood = MarkedFacts(db.facts)
          /\ store'[ServerOf[t]].evidence[e] # Absent
          /\ \A s \in Servers, i \in Evidence : i # e => store'[s].evidence[i] = store[s].evidence[i]
          /\ \A s \in Servers : s # ServerOf[t] => store'[s] = store[s]
      BY <1>1, UploadDoes
    <2>2. RowsRemain
      BY <2>1 DEF RowsRemain
    <2>3. \A f \in FactsOf(e) : EvidenceOf[f] = e /\ f \notin MarkedFacts(db.facts)
      BY <1>1, FlagsType DEF StoodInv, RowsFirst, Upload, FactsOf, MarkedFacts
    <2>4. Stands(act'[t], db', store'[ServerOf[t]])
      BY <1>0, <2>1, <2>3 DEF Stands
    <2> QED
      BY <2>1, <2>2, <2>4, OneStands
  <1>2. CASE PutEvidence(t)
    <2>1. PICK e \in Evidence : e = act[t].evidence
      BY <1>2, Possessions DEF PutEvidence, At, ActFounded
    <2>2. /\ UNCHANGED store /\ OthersGoOn(t)
          /\ act[t].at = "put_evidence" /\ act'[t] = [act[t] EXCEPT !.at = "put_facts"]
          /\ db'.facts = db.facts /\ db'.evidence[e] = Mine(t).evidence[e]
          /\ \A i \in Evidence \ {e} : db'.evidence[i] = db.evidence[i]
      BY <1>2, <2>1, PutEvidenceDoes
    <2>3. /\ act[t] \in Act /\ Mine(t) = store[ServerOf[t]] /\ Stands(act[t], db, store[ServerOf[t]])
      BY Possessions DEF StoodInv
    <2>4. db'.evidence[e] # Absent
      BY <2>1, <2>2, <2>3 DEF Stands
    <2>5. RowsRemain
      BY <2>2, <2>4 DEF RowsRemain
    <2>6. /\ act'[t].at = "put_facts" /\ act'[t].facts = act[t].facts /\ act'[t].stood = act[t].stood
          /\ act'[t].flags = act[t].flags /\ act'[t].evidence = e
      BY <2>1, <2>2, <2>3 DEF Act
    <2>7. Stands(act'[t], db', store'[ServerOf[t]])
      BY <2>1, <2>2, <2>3, <2>4, <2>6 DEF Stands
    <2> QED
      BY <2>2, <2>5, <2>7, OneStands
  <1>3. CASE PutFact(t)
    <2>1. /\ UNCHANGED store /\ act[t].at = "put_facts" /\ db'.evidence = db.evidence
          /\ \/ /\ act'[t] = Idle /\ OthersGoOn(t) /\ db' = db
             \/ \E f \in act[t].facts :
                  /\ db'.facts = [db.facts EXCEPT ![f] = act[t].flags[f]]
                  /\ \A u \in Threads :
                       /\ act'[u].at = act[u].at /\ act'[u].evidence = act[u].evidence
                       /\ act'[u].flags = act[u].flags /\ act'[u].findings = act[u].findings
                       /\ act'[u].rank = act[u].rank
                       /\ act'[u].facts = IF u = t THEN act[u].facts \ {f} ELSE act[u].facts
                       /\ act'[u].stood = IF act[t].flags[f] = Verified THEN act[u].stood
                                                                         ELSE act[u].stood \ {f}
      BY <1>3, PutFactDoes
    <2>2. RowsRemain
      BY <2>1 DEF RowsRemain
    <2>3. CASE act'[t] = Idle /\ OthersGoOn(t) /\ db' = db
      BY <2>2, <2>3, IdleType, ReaderStands, OneStands
    <2>4. ASSUME NEW f \in act[t].facts,
                 db'.facts = [db.facts EXCEPT ![f] = act[t].flags[f]],
                 \A u \in Threads :
                       /\ act'[u].at = act[u].at /\ act'[u].evidence = act[u].evidence
                       /\ act'[u].flags = act[u].flags
                       /\ act'[u].facts = IF u = t THEN act[u].facts \ {f} ELSE act[u].facts
                       /\ act'[u].stood = IF act[t].flags[f] = Verified THEN act[u].stood
                                                                         ELSE act[u].stood \ {f}
          PROVE  StoodInv'
      <3>1. f \in Facts /\ db.facts \in [Facts -> Flags] /\ db.evidence[EvidenceOf[f]] # Absent
        BY <2>1, Possessions DEF RoomInv, Db, Act, StoodInv, Stands
      <3>2. \A g \in Facts : db'.facts[g] = IF g = f THEN act[t].flags[f] ELSE db.facts[g]
        BY <2>4, <3>1
      <3>3. RowsFirst'
        BY <2>1, <3>1, <3>2 DEF RowsFirst, StoodInv
      <3>4. ASSUME NEW u \in Threads PROVE Stands(act'[u], db', store'[ServerOf[u]])
        <4>1. act[u].stood \subseteq Facts /\ Stands(act[u], db, store[ServerOf[u]])
          BY Possessions DEF Act, StoodInv
        <4>2. \A g \in act'[u].stood : db'.facts[g] = db.facts[g] \/ db'.facts[g] = Verified
          BY <2>4, <3>2, <4>1
        <4> QED
          BY <2>2, <2>4, <4>1, <4>2, StandsStays
      <3> QED
        BY <3>3, <3>4 DEF StoodInv
    <2> QED
      BY <2>1, <2>3, <2>4
  <1>4. ASSUME NEW selected \in SUBSET Facts, VerifyFacts(t, selected) PROVE StoodInv'
    <2>1. PICK e \in Evidence : e = act[t].evidence
      BY <1>4, Possessions DEF VerifyFacts, At, ActFounded
    <2>2. /\ db' = db /\ OthersGoOn(t) /\ act[t].at = "read_facts"
          /\ act'[t].at = "put_facts" /\ act'[t].evidence = e
          /\ act'[t].facts = {f \in FactsOf(e) : db.facts[f] # Absent}
          /\ \A f \in act'[t].facts : act'[t].flags[f] # Absent
                                      /\ (db.facts[f] = Verified => act'[t].flags[f] = Verified)
          /\ act'[t].stood = act[t].stood
          /\ \A s \in Servers : store'[s].evidence = store[s].evidence
      BY <1>4, <2>1, VerifyFactsDoes
    <2>3. RowsRemain
      BY <2>2 DEF RowsRemain
    <2>4. \A f \in act[t].stood : db.facts[f] = Verified
      BY DEF StoodInv, Stands
    <2>5. \A f \in act'[t].facts : EvidenceOf[f] = e /\ db.evidence[EvidenceOf[f]] # Absent
      BY <2>2 DEF FactsOf, StoodInv, RowsFirst
    <2>6. Stands(act'[t], db', store'[ServerOf[t]])
      BY <2>2, <2>4, <2>5 DEF Stands
    <2> QED
      BY <2>2, <2>3, <2>6, OneStands
  <1>5. ASSUME OthersGoOn(t), db'.facts = db.facts, RowsRemain,
               act'[t].at \notin {"put_evidence", "put_facts"},
               act'[t].stood \in {{}, act[t].stood, MarkedFacts(db.facts)}
        PROVE  StoodInv'
    <2>1. \A f \in act[t].stood : db.facts[f] = Verified
      BY DEF StoodInv, Stands
    <2>2. \A f \in act'[t].stood : db'.facts[f] = Verified
      BY <1>0, <1>5, <2>1
    <2> QED
      BY <1>5, <2>2, ReaderStands, OneStands
  <1>6. CASE \E e \in Evidence : Verify(t, e)
    BY <1>5, <1>6, VerifyDoes DEF RowsRemain
  <1>7. ASSUME NEW e \in Evidence, Gate(t, e) PROVE StoodInv'
    <2>1. /\ OthersGoOn(t) /\ db' = db /\ act[t].at = "idle"
          /\ \/ act'[t] = act[t]
             \/ act'[t].at = "read_facts" /\ act'[t].stood = MarkedFacts(db.facts)
          /\ \A s \in Servers, i \in Evidence :
               store[s].evidence[i] # Absent => store'[s].evidence[i] # Absent
      BY <1>7, GateDoes
    <2>2. RowsRemain
      BY <2>1 DEF RowsRemain
    <2> QED
      BY <1>5, <2>1, <2>2
  <1>8. ASSUME NEW step \in {"analyze", "dispose"}, Hydrate(t, step) PROVE StoodInv'
    <2>1. /\ OthersGoOn(t) /\ db' = db /\ act'[t].at = step
          /\ act'[t].stood = MarkedFacts(db.facts)
          /\ \A s \in Servers, i \in Evidence :
               store[s].evidence[i] # Absent => store'[s].evidence[i] # Absent
      BY <1>8, HydrateDoes
    <2>2. RowsRemain
      BY <2>1 DEF RowsRemain
    <2> QED
      BY <1>5, <2>1, <2>2
  <1>9. CASE MarkEvidence(t)
    <2>1. /\ OthersGoOn(t) /\ db'.facts = db.facts /\ act'[t] = Idle /\ UNCHANGED store
          /\ \A i \in Evidence : db.evidence[i] # Absent => db'.evidence[i] # Absent
      BY <1>9, MarkEvidenceDoes
    <2> QED
      BY <1>5, <2>1, IdleType DEF RowsRemain
  <1>10. CASE \E selected \in SUBSET Evidence : Analyze(t, selected)
    BY <1>5, <1>10, AnalyzeDoes DEF RowsRemain
  <1>11. CASE PutFindings(t) \/ Refuse(t)
    BY <1>5, <1>11, PutFindingsDoes, RefuseDoes, IdleType DEF RowsRemain
  <1>12. CASE \E c \in Findings : Dispose(t, c)
    BY <1>5, <1>12, DisposeDoes DEF RowsRemain
  <1>13. CASE PutHistory(t)
    BY <1>5, <1>13, PutHistoryDoes, IdleType DEF RowsRemain
  <1>14. CASE PutDisposition(t)
    <2>1. /\ OthersGoOn(t) /\ db'.facts = db.facts /\ db'.evidence = db.evidence /\ UNCHANGED store
          /\ act'[t] = [act[t] EXCEPT !.at = "put_history"] /\ act[t] \in Act
      BY <1>14, PutDispositionDoes, Possessions
    <2>2. act'[t].at = "put_history" /\ act'[t].stood = act[t].stood
      BY <2>1 DEF Act
    <2> QED
      BY <1>5, <2>1, <2>2 DEF RowsRemain
  <1> QED
    BY <1>1, <1>2, <1>3, <1>4, <1>6, <1>7, <1>8, <1>9, <1>10, <1>11, <1>12, <1>13, <1>14
    DEF Request, Step

\* Requests that end, in one process or the threads of one that lost its store, leave the rest standing.
LEMMA EndedStood ==
  ASSUME RoomInv, StoodInv, NEW ts, Ended(ts), db' = db,
         \A t \in Threads \ ts : store'[ServerOf[t]] = store[ServerOf[t]]
  PROVE  StoodInv'
  <1>1. ASSUME NEW t \in Threads PROVE Stands(act'[t], db', store'[ServerOf[t]])
    <2>1. CASE t \in ts
      BY <2>1, IdleType, ReaderStands DEF Ended
    <2>2. CASE t \notin ts
      BY <2>2 DEF Ended, StoodInv
    <2> QED
      BY <2>1, <2>2
  <1> QED
    BY <1>1 DEF StoodInv, RowsFirst

LEMMA NextStood == RoomInv /\ StoodInv /\ [Next]_vars => StoodInv'
  <1> SUFFICES ASSUME RoomInv, StoodInv, [Next]_vars PROVE StoodInv'
    OBVIOUS
  <1>1. ASSUME NEW t \in Threads, Fail(t) PROVE StoodInv'
    BY <1>1, FailDoes, EndedStood
  <1>2. ASSUME NEW s \in Servers, Restart(s) PROVE StoodInv'
    <2> DEFINE dead == {t \in Threads : ServerOf[t] = s}
    <2>1. db' = db /\ Ended(dead) /\ store' = [store EXCEPT ![s] = EmptyStore]
      BY <1>2, RestartDoes
    <2>2. \A t \in Threads \ dead : store'[ServerOf[t]] = store[ServerOf[t]]
      BY <2>1, ServersAssumption DEF RoomInv
    <2> HIDE DEF dead
    <2> QED
      BY <2>1, <2>2, EndedStood
  <1>3. CASE UNCHANGED vars \/ \E e \in Evidence : Damage(e)
    <2>1. UNCHANGED <<db, store, act>>
      BY <1>3, DamageDoes DEF vars
    <2> QED
      BY <2>1 DEF StoodInv, RowsFirst
  <1> QED
    BY <1>1, <1>2, <1>3, StepStood DEF Next

\* The facts that stood when a request of api_server.py began stand in the table, and are marked in what the
\* request is about to write back.
THEOREM RequestsStand == Spec => [](RoomInv /\ StoodInv)
  <1>1. Init => RoomInv /\ StoodInv
    BY InitRoom, InitStood
  <1>2. RoomInv /\ StoodInv /\ [Next]_vars => (RoomInv /\ StoodInv)'
    BY NextRoom, NextStood
  <1> QED
    BY <1>1, <1>2, PTL DEF Spec

\* The marks of the table change only by a request that writes a fact back.
LEMMA OnlyPutFactWrites ==
  ASSUME RoomInv, [Next]_vars
  PROVE  db'.facts = db.facts \/ \E t \in Threads : PutFact(t)
  <1>1. ASSUME NEW t \in Threads, Request(t) \/ Step(t), ~PutFact(t) PROVE db'.facts = db.facts
    <2>1. CASE Request(t)
      BY <2>1, UploadDoes, VerifyDoes, GateDoes, HydrateDoes DEF Request
    <2>2. CASE PutEvidence(t)
      <3>1. act[t].evidence \in Evidence
        BY <2>2, Possessions DEF PutEvidence, At, ActFounded
      <3> QED
        BY <2>2, <3>1, PutEvidenceDoes
    <2>3. CASE \E selected \in SUBSET Facts : VerifyFacts(t, selected)
      BY <2>3 DEF VerifyFacts
    <2>4. CASE MarkEvidence(t) \/ PutFindings(t) \/ Refuse(t) \/ PutDisposition(t) \/ PutHistory(t)
      BY <2>4, MarkEvidenceDoes, PutFindingsDoes, RefuseDoes, PutDispositionDoes, PutHistoryDoes
    <2>5. CASE \/ \E selected \in SUBSET Evidence : Analyze(t, selected)
               \/ \E c \in Findings : Dispose(t, c)
      BY <2>5, AnalyzeDoes, DisposeDoes
    <2> QED
      BY <1>1, <2>1, <2>2, <2>3, <2>4, <2>5 DEF Step
  <1>2. CASE \/ \E t \in Threads : Fail(t)
             \/ \E s \in Servers : Restart(s)
             \/ \E e \in Evidence : Damage(e)
    BY <1>2, FailDoes, RestartDoes, DamageDoes
  <1>3. CASE UNCHANGED vars
    BY <1>3 DEF vars
  <1> QED
    BY <1>1, <1>2, <1>3 DEF Next

\* A fact that a verification marked keeps its mark when a request writes back the facts of its evidence,
\* unless that request began before: verify_facts and the upload of api_server.py write every fact they
\* read, one transaction each, and what they read is as old as the request.
THEOREM CompletedVerificationsStand == Spec => CompletedVerificationStands
  <1>1. ASSUME RoomInv, StoodInv, [Next]_vars, NEW t \in Threads, NEW f \in act[t].stood,
               act'[t].facts # act[t].facts, db.facts[f] = Verified
        PROVE  db'.facts[f] = Verified
    <2>1. CASE db'.facts = db.facts
      BY <1>1, <2>1
    <2>2. ASSUME NEW u \in Threads, PutFact(u), db'.facts # db.facts PROVE db'.facts[f] = Verified
      <3>1. PICK g \in act[u].facts :
               /\ db'.facts = [db.facts EXCEPT ![g] = act[u].flags[g]]
               /\ \A w \in Threads :
                    /\ act'[w].at = act[w].at /\ act'[w].evidence = act[w].evidence
                    /\ act'[w].flags = act[w].flags /\ act'[w].findings = act[w].findings
                    /\ act'[w].rank = act[w].rank
                    /\ act'[w].facts = IF w = u THEN act[w].facts \ {g} ELSE act[w].facts
                    /\ act'[w].stood = IF act[u].flags[g] = Verified THEN act[w].stood
                                                                      ELSE act[w].stood \ {g}
        BY <1>1, <2>2, PutFactDoes
      <3>2. u = t
        BY <1>1, <3>1
      <3>3. act[t].at = "put_facts" /\ Stands(act[t], db, store[ServerOf[t]])
        BY <1>1, <2>2, <3>2 DEF PutFact, At, StoodInv
      <3>4. g = f => act[t].flags[g] = Verified
        BY <3>1, <3>2, <3>3 DEF Stands
      <3>5. db.facts \in [Facts -> Flags] /\ f \in Facts
        BY <1>1, Possessions DEF RoomInv, Db, Act
      <3> QED
        BY <1>1, <3>1, <3>2, <3>4, <3>5
    <2> QED
      BY <1>1, <2>1, <2>2, OnlyPutFactWrites
  <1>2. RoomInv /\ StoodInv /\ [Next]_vars =>
          [\A t \in Threads : \A f \in act[t].stood :
             (act'[t].facts # act[t].facts /\ db.facts[f] = Verified) => db'.facts[f] = Verified]_vars
    BY <1>1
  <1> QED
    BY <1>2, RequestsStand, PTL DEF Spec, CompletedVerificationStands

-----------------------------------------------------------------------------
(* Dispositions: when none is on its way, the tables have what was made.   *)

AllMade == UNION {made[d] : d \in Findings}

\* r is the last of the dispositions S.
LastOf(r, S) == r \in S /\ \A q \in S : q <= r

\* The tables have what was made of the finding c.
Settled(c) == /\ db.history[c] = made[c]
              /\ IF made[c] = {} THEN db.disposition[c] = 0 ELSE LastOf(db.disposition[c], made[c])

\* The request a, which disposes of c, has the last disposition; all but what it is about to write is there.
OnItsWay(a, c) ==
  /\ LastOf(a.rank, made[c])
  /\ db.history[c] = made[c] \ {a.rank}
  /\ a.at = "put_history" => db.disposition[c] = a.rank

\* A request with a rank disposes of one finding.
RankHeld(a) ==
  /\ (a.rank # 0) <=> (a.at \in {"put_disposition", "put_history"})
  /\ a.rank # 0 => \E c \in Findings : a.findings = {c}

FindingKept(c) ==
  /\ \A t, u \in Threads : Disposing(t, c) /\ Disposing(u, c) => t = u
  /\ (\A t \in Threads : ~Disposing(t, c)) => Settled(c)
  /\ \A t \in Threads : Disposing(t, c) => OnItsWay(act[t], c)

DisposedInv ==
  /\ \E n \in Nat : AllMade = 1..n
  /\ \A t \in Threads : RankHeld(act[t])
  /\ \A c \in Findings \ mixed : FindingKept(c)

\* What a request is about that does not dispose, or goes on disposing.
Goes(a, b) == \/ b.rank = a.rank /\ b.at = a.at /\ b.findings = a.findings
              \/ a.rank = 0 /\ b.rank = 0 /\ b.at \notin {"put_disposition", "put_history"}

LEMMA UndisposedKept ==
  ASSUME DisposedInv, Undisposed, \A t \in Threads : Goes(act[t], act'[t])
  PROVE  DisposedInv'
  <1>1. AllMade' = AllMade
    BY DEF AllMade, Undisposed
  <1>2. \A t \in Threads : RankHeld(act'[t])
    BY DEF DisposedInv, Goes, RankHeld
  <1>3. ASSUME NEW c \in Findings \ mixed PROVE FindingKept(c)'
    <2>1. FindingKept(c) /\ made'[c] = made[c] /\ db'.history[c] = db.history[c]
          /\ db'.disposition[c] = db.disposition[c]
      BY DEF DisposedInv, Undisposed
    <2>2. \A t \in Threads : Disposing(t, c)' <=> Disposing(t, c)
      BY DEF Goes, Disposing
    <2>3. Settled(c)' <=> Settled(c)
      BY <2>1 DEF Settled, LastOf
    <2>4. \A t \in Threads : Disposing(t, c) => act'[t].rank = act[t].rank /\ act'[t].at = act[t].at
      BY DEF Goes, Disposing
    <2>5. \A t \in Threads : Disposing(t, c)' => OnItsWay(act[t], c)'
      BY <2>1, <2>2, <2>4 DEF FindingKept, OnItsWay, LastOf
    <2> QED
      BY <2>1, <2>2, <2>3, <2>5 DEF FindingKept
  <1> QED
    BY <1>1, <1>2, <1>3 DEF DisposedInv, Undisposed

\* Requests that end before their dispositions are in both tables are remembered.
LEMMA CutKept ==
  ASSUME RoomInv, DisposedInv, NEW ts \in SUBSET Threads, Ended(ts), Cut(ts), UNCHANGED <<db, made>>
  PROVE  DisposedInv'
  <1>1. AllMade' = AllMade
    BY DEF AllMade
  <1>2. \A t \in Threads : RankHeld(act'[t])
    BY IdleType DEF DisposedInv, Ended, RankHeld
  <1>3. ASSUME NEW c \in Findings \ mixed' PROVE FindingKept(c)'
    <2>1. c \in Findings \ mixed /\ FindingKept(c)
      BY DEF Cut, DisposedInv
    <2>2. \A t \in ts : ~Disposing(t, c)
      BY DEF Cut, Disposing
    <2>3. \A t \in Threads : /\ Disposing(t, c)' <=> Disposing(t, c)
                             /\ Disposing(t, c) => act'[t] = act[t]
      BY <2>2, IdleType DEF Ended, Disposing
    <2>4. Settled(c)' <=> Settled(c)
      BY DEF Settled, LastOf
    <2>5. \A t \in Threads : Disposing(t, c)' => OnItsWay(act[t], c)'
      BY <2>1, <2>3 DEF FindingKept, OnItsWay, LastOf
    <2> QED
      BY <2>1, <2>3, <2>4, <2>5 DEF FindingKept
  <1> QED
    BY <1>1, <1>2, <1>3 DEF DisposedInv

LEMMA InitDisposed == Init => DisposedInv
  <1> SUFFICES ASSUME Init PROVE DisposedInv
    OBVIOUS
  <1>1. AllMade = 1..0
    BY DEF AllMade, Init
  <1>2. \A t \in Threads : act[t] = Idle
    BY DEF Init
  <1>3. \A t \in Threads : RankHeld(act[t])
    BY <1>2, IdleType DEF RankHeld
  <1>4. ASSUME NEW c \in Findings PROVE FindingKept(c)
    <2>1. \A t \in Threads : ~Disposing(t, c)
      BY <1>2, IdleType DEF Disposing
    <2>2. Settled(c)
      BY DEF Settled, Init
    <2> QED
      BY <2>1, <2>2 DEF FindingKept
  <1> QED
    BY <1>1, <1>3, <1>4 DEF DisposedInv

LEMMA DisposeKept ==
  ASSUME RoomInv, DisposedInv, NEW t \in Threads, NEW c \in Findings, Dispose(t, c)
  PROVE  DisposedInv'
  <1>1. /\ OthersGoOn(t) /\ db' = db /\ act[t].at = "dispose"
        /\ act'[t].at = "put_disposition" /\ act'[t].findings = {c} /\ act'[t].rank = NextRank
        /\ NextRank \in Ranks /\ made' = [made EXCEPT ![c] = @ \cup {NextRank}]
        /\ mixed' = IF \E u \in Threads : Disposing(u, c) THEN mixed \cup {c} ELSE mixed
    BY DisposeDoes
  <1>2. PICK n \in Nat : AllMade = 1..n
    BY DEF DisposedInv
  <1>3. NextRank = n + 1
    <2>1. Cardinality(1..n) = n
      BY <1>2, FS_Interval
    <2> QED
      BY <1>2, <2>1 DEF NextRank, AllMade
  <1>4. made \in [Findings -> SUBSET Ranks] /\ \A d \in Findings : made[d] \subseteq 1..n
    BY <1>2 DEF RoomInv, AllMade
  <1>5. /\ \A d \in Findings : made'[d] = IF d = c THEN made[c] \cup {NextRank} ELSE made[d]
    BY <1>1, <1>4
  <1>6. AllMade' = 1..(n + 1)
    <2>1. AllMade' = AllMade \cup {NextRank}
      BY <1>5 DEF AllMade
    <2> QED
      BY <1>2, <1>3, <2>1
  <1>7. NextRank # 0 /\ NextRank \notin made[c] /\ \A q \in made[c] : q <= NextRank
    BY <1>2, <1>3, <1>4
  <1>8. act[t].rank = 0 /\ \A u \in Threads : RankHeld(act'[u])
    BY <1>1, <1>7 DEF DisposedInv, RankHeld, OthersGoOn
  <1>9. ASSUME NEW d \in Findings \ mixed', d # c PROVE FindingKept(d)'
    <2>1. FindingKept(d) /\ made'[d] = made[d]
      BY <1>1, <1>5, <1>9 DEF DisposedInv
    <2>2. \A u \in Threads : /\ Disposing(u, d)' <=> Disposing(u, d)
                             /\ Disposing(u, d) => act'[u] = act[u]
      BY <1>1, <1>8, <1>9 DEF Disposing, OthersGoOn
    <2>3. Settled(d)' <=> Settled(d)
      BY <1>1, <2>1 DEF Settled, LastOf
    <2>4. \A u \in Threads : Disposing(u, d)' => OnItsWay(act[u], d)'
      BY <1>1, <2>1, <2>2 DEF FindingKept, OnItsWay, LastOf
    <2> QED
      BY <2>1, <2>2, <2>3, <2>4 DEF FindingKept
  <1>10. ASSUME c \notin mixed' PROVE FindingKept(c)'
    <2>1. (\A u \in Threads : ~Disposing(u, c)) /\ c \notin mixed
      BY <1>1, <1>10
    <2>2. Settled(c)
      BY <2>1 DEF DisposedInv, FindingKept
    <2>3. \A u \in Threads : Disposing(u, c)' <=> u = t
      BY <1>1, <1>7, <2>1 DEF Disposing, OthersGoOn
    <2>4. LastOf(NextRank, made'[c]) /\ made'[c] \ {NextRank} = made[c] /\ NextRank \in Nat
      BY <1>3, <1>5, <1>7 DEF LastOf
    <2>5. OnItsWay(act[t], c)'
      BY <1>1, <2>2, <2>4 DEF OnItsWay, Settled, LastOf
    <2> QED
      BY <2>3, <2>5 DEF FindingKept
  <1> QED
    BY <1>6, <1>8, <1>9, <1>10 DEF DisposedInv

\* A step of a disposition changes the tables for its finding only.
LEMMA WriteKept ==
  ASSUME RoomInv, DisposedInv, NEW t \in Threads, NEW c \in Findings, Disposing(t, c), OthersGoOn(t),
         UNCHANGED <<made, mixed>>, RankHeld(act[t])', act'[t].findings \in {{}, {c}},
         \A d \in Findings \ {c} : db'.history[d] = db.history[d] /\ db'.disposition[d] = db.disposition[d],
         c \notin mixed => IF Disposing(t, c)' THEN OnItsWay(act[t], c)' ELSE Settled(c)'
  PROVE  DisposedInv'
  <1>1. AllMade' = AllMade
    BY DEF AllMade
  <1>2. \A u \in Threads : RankHeld(act'[u])
    BY DEF DisposedInv, OthersGoOn, RankHeld
  <1>3. ASSUME NEW d \in Findings \ mixed, d # c PROVE FindingKept(d)'
    <2>1. FindingKept(d) /\ made'[d] = made[d]
      BY <1>3 DEF DisposedInv
    <2>2. \A u \in Threads : /\ Disposing(u, d)' <=> Disposing(u, d)
                             /\ Disposing(u, d) => act'[u] = act[u]
      BY <1>3 DEF Disposing, OthersGoOn
    <2>3. Settled(d)' <=> Settled(d)
      BY <1>3, <2>1 DEF Settled, LastOf
    <2>4. \A u \in Threads : Disposing(u, d)' => OnItsWay(act[u], d)'
      BY <1>3, <2>1, <2>2 DEF FindingKept, OnItsWay, LastOf
    <2> QED
      BY <2>1, <2>2, <2>3, <2>4 DEF FindingKept
  <1>4. ASSUME c \notin mixed PROVE FindingKept(c)'
    <2>1. \A u \in Threads : Disposing(u, c) => u = t
      BY <1>4 DEF DisposedInv, FindingKept
    <2>2. \A u \in Threads : Disposing(u, c)' => u = t
      BY <2>1 DEF Disposing, OthersGoOn
    <2>3. CASE Disposing(t, c)'
      BY <1>4, <2>2, <2>3 DEF FindingKept
    <2>4. CASE ~Disposing(t, c)'
      BY <1>4, <2>2, <2>4 DEF FindingKept
    <2> QED
      BY <2>3, <2>4
  <1> QED
    BY <1>1, <1>2, <1>3, <1>4 DEF DisposedInv

LEMMA PutDispositionKept ==
  ASSUME RoomInv, DisposedInv, NEW t \in Threads, PutDisposition(t)
  PROVE  DisposedInv'
  <1>1. /\ UNCHANGED <<made, mixed>> /\ OthersGoOn(t) /\ db \in Db /\ act[t] \in Act
        /\ act[t].at = "put_disposition" /\ act'[t] = [act[t] EXCEPT !.at = "put_history"]
        /\ db'.history = db.history
        /\ \E c \in act[t].findings : db'.disposition = [db.disposition EXCEPT ![c] = act[t].rank]
    BY PutDispositionDoes, Possessions DEF RoomInv
  <1>2. RankHeld(act[t]) /\ act[t].rank # 0
    BY <1>1 DEF DisposedInv, RankHeld
  <1>3. PICK c \in Findings : act[t].findings = {c}
    BY <1>2 DEF RankHeld
  <1>4. db'.disposition = [db.disposition EXCEPT ![c] = act[t].rank]
    BY <1>1, <1>3
  <1>5. /\ db'.disposition[c] = act[t].rank
        /\ \A d \in Findings \ {c} : db'.history[d] = db.history[d] /\ db'.disposition[d] = db.disposition[d]
    BY <1>1, <1>4 DEF Db
  <1>6. /\ act'[t].at = "put_history" /\ act'[t].rank = act[t].rank /\ act'[t].findings = {c}
    BY <1>1, <1>3 DEF Act
  <1>7. Disposing(t, c) /\ Disposing(t, c)' /\ RankHeld(act[t])'
    BY <1>2, <1>3, <1>6 DEF Disposing, RankHeld
  <1>8. c \notin mixed => OnItsWay(act[t], c)'
    BY <1>1, <1>5, <1>6, <1>7 DEF DisposedInv, FindingKept, OnItsWay, LastOf
  <1> QED
    BY <1>1, <1>5, <1>6, <1>7, <1>8, WriteKept

LEMMA PutHistoryKept ==
  ASSUME RoomInv, DisposedInv, NEW t \in Threads, PutHistory(t)
  PROVE  DisposedInv'
  <1>1. /\ UNCHANGED <<made, mixed>> /\ OthersGoOn(t) /\ db \in Db
        /\ act[t].at = "put_history" /\ act'[t] = Idle /\ db'.disposition = db.disposition
        /\ \E c \in act[t].findings : db'.history = [db.history EXCEPT ![c] = @ \cup {act[t].rank}]
    BY PutHistoryDoes DEF RoomInv
  <1>2. RankHeld(act[t]) /\ act[t].rank # 0
    BY <1>1 DEF DisposedInv, RankHeld
  <1>3. PICK c \in Findings : act[t].findings = {c}
    BY <1>2 DEF RankHeld
  <1>4. db'.history = [db.history EXCEPT ![c] = @ \cup {act[t].rank}]
    BY <1>1, <1>3
  <1>5. /\ db'.history[c] = db.history[c] \cup {act[t].rank}
        /\ \A d \in Findings \ {c} : db'.history[d] = db.history[d] /\ db'.disposition[d] = db.disposition[d]
    BY <1>1, <1>4 DEF Db
  <1>6. Disposing(t, c) /\ ~Disposing(t, c)' /\ RankHeld(act[t])' /\ act'[t].findings = {}
    BY <1>1, <1>2, <1>3, IdleType DEF Disposing, RankHeld
  <1>7. ASSUME c \notin mixed PROVE Settled(c)'
    <2>1. OnItsWay(act[t], c)
      BY <1>6, <1>7 DEF DisposedInv, FindingKept
    <2>2. /\ act[t].rank \in made[c] /\ \A q \in made[c] : q <= act[t].rank
          /\ db.history[c] = made[c] \ {act[t].rank} /\ db.disposition[c] = act[t].rank
      BY <1>1, <2>1 DEF OnItsWay, LastOf
    <2>3. db'.history[c] = made'[c] /\ db'.disposition[c] = act[t].rank /\ made' = made
      BY <1>1, <1>5, <2>2
    <2> QED
      BY <2>2, <2>3 DEF Settled, LastOf
  <1> QED
    BY <1>1, <1>5, <1>6, <1>7, WriteKept

LEMMA NextDisposed == RoomInv /\ DisposedInv /\ [Next]_vars => DisposedInv'
  <1> SUFFICES ASSUME RoomInv, DisposedInv, [Next]_vars PROVE DisposedInv'
    OBVIOUS
  <1>1. \A u \in Threads : act[u].rank = 0 <=> act[u].at \notin {"put_disposition", "put_history"}
    BY DEF DisposedInv, RankHeld
  <1>2. ASSUME NEW t \in Threads, OthersGoOn(t), Undisposed, Goes(act[t], act'[t]) PROVE DisposedInv'
    BY <1>2, UndisposedKept DEF OthersGoOn, Goes
  <1>3. ASSUME NEW t \in Threads, Request(t) PROVE DisposedInv'
    <2>1. CASE \E e \in Evidence : Upload(t, e) \/ Verify(t, e)
      BY <1>1, <1>2, <2>1, UploadDoes, VerifyDoes DEF Goes
    <2>2. CASE \E e \in Evidence : Gate(t, e)
      <3>1. /\ OthersGoOn(t) /\ Undisposed /\ act[t].at = "idle"
            /\ act'[t] = act[t] \/ (act'[t].at = "read_facts" /\ act'[t].rank = 0)
        BY <2>2, GateDoes
      <3> QED
        BY <1>1, <1>2, <3>1 DEF Goes
    <2>3. CASE Hydrate(t, "analyze") \/ Hydrate(t, "dispose")
      BY <1>1, <1>2, <2>3, HydrateDoes DEF Goes
    <2> QED
      BY <1>3, <2>1, <2>2, <2>3 DEF Request
  <1>4. ASSUME NEW t \in Threads, Step(t) PROVE DisposedInv'
    <2>1. CASE PutEvidence(t)
      <3>1. PICK e \in Evidence : e = act[t].evidence
        BY <2>1, Possessions DEF PutEvidence, At, ActFounded
      <3>2. /\ OthersGoOn(t) /\ Undisposed /\ act[t] \in Act
            /\ act[t].at = "put_evidence" /\ act'[t] = [act[t] EXCEPT !.at = "put_facts"]
        BY <2>1, <3>1, PutEvidenceDoes, Possessions
      <3>3. act'[t].at = "put_facts" /\ act'[t].rank = act[t].rank
        BY <3>2 DEF Act
      <3> QED
        BY <1>1, <1>2, <3>2, <3>3 DEF Goes
    <2>2. ASSUME NEW selected \in SUBSET Facts, VerifyFacts(t, selected) PROVE DisposedInv'
      <3>1. PICK e \in Evidence : e = act[t].evidence
        BY <2>2, Possessions DEF VerifyFacts, At, ActFounded
      <3> QED
        BY <1>1, <1>2, <2>2, <3>1, VerifyFactsDoes DEF Goes
    <2>3. CASE PutFact(t)
      <3>1. /\ Undisposed /\ act[t].at = "put_facts"
            /\ \/ act'[t] = Idle /\ OthersGoOn(t)
               \/ \A u \in Threads : /\ act'[u].at = act[u].at /\ act'[u].findings = act[u].findings
                                     /\ act'[u].rank = act[u].rank
        BY <2>3, PutFactDoes
      <3> QED
        BY <1>1, <1>2, <3>1, UndisposedKept, IdleType DEF Goes
    <2>4. CASE MarkEvidence(t) \/ PutFindings(t) \/ Refuse(t)
      BY <1>1, <1>2, <2>4, MarkEvidenceDoes, PutFindingsDoes, RefuseDoes, IdleType DEF Goes
    <2>5. CASE \E selected \in SUBSET Evidence : Analyze(t, selected)
      BY <1>1, <1>2, <2>5, AnalyzeDoes DEF Goes
    <2>6. CASE \E c \in Findings : Dispose(t, c)
      BY <2>6, DisposeKept
    <2>7. CASE PutDisposition(t) \/ PutHistory(t)
      BY <2>7, PutDispositionKept, PutHistoryKept
    <2> QED
      BY <1>4, <2>1, <2>2, <2>3, <2>4, <2>5, <2>6, <2>7 DEF Step
  <1>5. ASSUME NEW t \in Threads, Fail(t) PROVE DisposedInv'
    BY <1>5, FailDoes, CutKept
  <1>6. ASSUME NEW s \in Servers, Restart(s) PROVE DisposedInv'
    <2> DEFINE dead == {t \in Threads : ServerOf[t] = s}
    <2>1. UNCHANGED <<db, made>> /\ Ended(dead) /\ Cut(dead) /\ dead \in SUBSET Threads
      BY <1>6, RestartDoes
    <2> HIDE DEF dead
    <2> QED
      BY <2>1, CutKept
  <1>7. CASE UNCHANGED vars \/ \E e \in Evidence : Damage(e)
    <2>1. Undisposed /\ act' = act
      BY <1>7, DamageDoes DEF vars, Undisposed
    <2> QED
      BY <2>1, UndisposedKept DEF Goes
  <1> QED
    BY <1>3, <1>4, <1>5, <1>6, <1>7 DEF Next

\* Of a finding whose dispositions never overlapped, table, processes and requests under way have what was
\* made of it, in the order in which dispose_finding ranked it.
THEOREM DispositionsAreKept == Spec => [](RoomInv /\ DisposedInv)
  <1>1. Init => RoomInv /\ DisposedInv
    BY InitRoom, InitDisposed
  <1>2. RoomInv /\ DisposedInv /\ [Next]_vars => (RoomInv /\ DisposedInv)'
    BY NextRoom, NextDisposed
  <1> QED
    BY <1>1, <1>2, PTL DEF Spec

\* When no disposition of a finding is on its way, its row has the last one made and its history has all,
\* unless two were made at once or one was cut short: dispose_finding of case_contradiction_service.py
\* and the two transactions of the repository behind it.
THEOREM DispositionsAreTheLast == Spec => []DispositionIsTheLast
  <1>1. ASSUME RoomInv, DisposedInv, NEW c \in Findings, c \notin mixed,
               ~\E t \in Threads : Disposing(t, c)
        PROVE  /\ db.history[c] = made[c]
               /\ db.disposition[c] = IF made[c] = {} THEN 0
                                      ELSE CHOOSE r \in made[c] : \A q \in made[c] : q <= r
    <2>1. Settled(c)
      BY <1>1 DEF DisposedInv, FindingKept
    <2>2. CASE made[c] = {}
      BY <2>1, <2>2 DEF Settled
    <2>3. CASE made[c] # {}
      <3> DEFINE last == CHOOSE r \in made[c] : \A q \in made[c] : q <= r
      <3>1. db.disposition[c] \in made[c] /\ \A q \in made[c] : q <= db.disposition[c]
        BY <2>1, <2>3 DEF Settled, LastOf
      <3>2. last \in made[c] /\ \A q \in made[c] : q <= last
        BY <3>1
      <3>3. made[c] \subseteq Nat
        BY <1>1, BoundsAssumption DEF RoomInv, Ranks
      <3> HIDE DEF last
      <3>4. db.disposition[c] = last
        <4>1. db.disposition[c] \in Nat /\ last \in Nat
          BY <3>1, <3>2, <3>3
        <4>2. db.disposition[c] <= last /\ last <= db.disposition[c]
          BY <3>1, <3>2
        <4> QED
          BY <4>1, <4>2
      <3> QED
        BY <2>1, <2>3, <3>4 DEF Settled, last
    <2> QED
      BY <2>2, <2>3
  <1>2. RoomInv /\ DisposedInv => DispositionIsTheLast
    BY <1>1 DEF DispositionIsTheLast
  <1> QED
    BY <1>2, DispositionsAreKept, PTL

=============================================================================
