---------------------------- MODULE CaseAnalysis ----------------------------
(***************************************************************************)
(* What is derived from a case whenever it is shown: the policy signals of *)
(* its claims and the evidence they ask for (review_workspace.py,          *)
(* operations_ui.py, case_workspace_service.py), the matrix of claims and  *)
(* evidence (case_review_matrix.py), the analysts' queue and their         *)
(* workload (the review-queue routes of api_server.py, review_queue.py).   *)
(* Nothing here is stored: each state is a case, or a queue of cases, to   *)
(* be shown. A claim is the set of text patterns it matches, and is named  *)
(* by its place.                                                           *)
(***************************************************************************)
EXTENDS Integers, SequencesExt

CONSTANTS Patterns,      \* those of ClaimTypes which claims match here, and COPIED
          MaxClaims, MaxContradictions, MaxDays,
          Evidence, Cases, Users, Org, None

VARIABLES claims,          \* extract_claims(review): the parts of its text, in order
          contradictions,  \* the case's findings: a claim and the evidence against it
          known, verified, \* the evidence this process has rows of, and the verified ones
          disposed,        \* the findings with a disposition
          cases            \* of the queue: findings, age, assignee and SLA of each case
vars == <<claims, contradictions, known, verified, disposed, cases>>

-----------------------------------------------------------------------------
\* Several patterns may match: the first one in this order is the claim's type.
ClaimTypes == <<"THREAT", "PERSONAL_INFORMATION", "ADVERTISING", "ALLEGATION",
                "EXPERIENCE", "OPINION", "FACTUAL">>
ClaimType(text) == LET hits == SelectSeq(ClaimTypes, LAMBDA c : c \in text)
                   IN IF hits = <<>> THEN "UNKNOWN" ELSE Head(hits)

Rules ==
  [THREAT |-> [code |-> "RD-P10", needs |-> <<"MESSAGE_OR_SCREENSHOT", "PAYMENT_OR_BENEFIT_REQUEST">>],
   PERSONAL_INFORMATION |-> [code |-> "RD-P08", needs |-> <<"REVIEW_SCREENSHOT">>],
   ADVERTISING |-> [code |-> "RD-P06", needs |-> <<"REVIEW_SCREENSHOT">>],
   ALLEGATION |-> [code |-> "RD-P04", needs |-> <<"RECEIPT_OR_RECORD", "TIMELINE">>],
   COPIED |-> [code |-> "RD-P07", needs |-> <<"RELATED_REVIEWS">>]]

\* What one claim raises: a signal by its type, and one by its wording.
Grounds(text) == ({ClaimType(text)} \cup (text \cap {"COPIED"})) \cap DOMAIN Rules
Raised(i) ==
  LET Signal(g) == [code |-> Rules[g].code, claims |-> <<i>>, needs |-> Rules[g].needs]
      typed == SelectSeq(<<ClaimType(claims[i]), "COPIED">>, LAMBDA g : g \in Grounds(claims[i]))
  IN [n \in DOMAIN typed |-> Signal(typed[n])]

\* tuple(dict.fromkeys(s)): the first of each, in order.
Distinct(s) == FoldLeft(LAMBDA kept, x : IF Contains(kept, x) THEN kept ELSE Append(kept, x), <<>>, s)

Joined(old, new) == [old EXCEPT !.claims = Distinct(@ \o new.claims),
                                !.needs = Distinct(@ \o new.needs)]

\* classify_policy_signals keeps one signal of a code, with the claims of them all.
Signals ==
  LET Merge(merged, s) == IF \E j \in DOMAIN merged : merged[j].code = s.code
                            THEN [j \in DOMAIN merged |-> IF merged[j].code = s.code
                                    THEN Joined(merged[j], s) ELSE merged[j]]
                            ELSE Append(merged, s)
  IN FoldLeft(Merge, <<>>, FlattenSeq([i \in DOMAIN claims |-> Raised(i)]))

\* required.setdefault(claim_id, []).extend(...): a claim needs what its signals need.
Required(signals, i) == FlattenSeq([j \in DOMAIN signals |->
                          IF Contains(signals[j].claims, i) THEN signals[j].needs ELSE <<>>])

\* An upload's type is its content type, which is never the name of a requirement.
Present == {"application/pdf", "UNKNOWN"}
MissingEvidence(signals, i) == SelectSeq(Required(signals, i), LAMBDA need : need \notin Present)

\* Every task is OPEN, so that none of them counts as covered.
Workspace ==
  LET signals == Signals
      tasks == [i \in DOMAIN claims |-> MissingEvidence(signals, i)]
      review == signals # <<>> \/ contradictions # {}
  IN [signals |-> signals, tasks |-> tasks, human_review |-> review,
      priority |-> IF review THEN "HIGH" ELSE "NORMAL",
      coverage |-> IF \A i \in DOMAIN claims : tasks[i] = <<>> THEN 1 ELSE 0]

-----------------------------------------------------------------------------
\* The store keys dispositions by organisation and finding, the matrix asks by finding.
Dispositions == {<<Org, c>> : c \in disposed}
Shown(c) == IF <<c>> \in Dispositions THEN c ELSE None

Link(c, e) == [evidence |-> e, verified |-> e \notin known \/ e \in verified,
               finding |-> c, disposition |-> Shown(c)]
Against(i) == {c \in contradictions : c.claim = i}
MatrixRow(i) ==
  LET linked == UNION {{Link(c, e) : e \in c.evidence} : c \in Against(i)}
  IN [evidence |-> linked,
      status |-> IF linked = {} THEN "NO_EVIDENCE"
                 ELSE IF Against(i) # {} THEN "CONTRADICTION" ELSE "SUPPORTED"]

-----------------------------------------------------------------------------
\* score_case as the queue calls it: it knows no requirement, and looks up the
\* suggestions of the case under a key which only evidence has, so that signals,
\* contradictions and age make the score.
Score(c) == (IF cases[c].signals THEN 10 ELSE 0)
            + Min({35, 20 * cases[c].contradictions}) + Min({20, 5 * cases[c].days})
Priority(c) == IF Score(c) >= 80 THEN "CRITICAL" ELSE IF Score(c) >= 50 THEN "HIGH"
               ELSE IF Score(c) >= 20 THEN "NORMAL" ELSE "LOW"

\* The heavier score first, an unassigned case before an assigned one, then by name.
Rank(c) == <<-Score(c), IF cases[c].assigned = None THEN 0 ELSE 1, c>>
Before(a, b) == \E n \in 1..3 : /\ Rank(a)[n] < Rank(b)[n]
                                /\ \A m \in 1..(n - 1) : Rank(a)[m] = Rank(b)[m]
Queue == SetToSortSeq(Cases, Before)

NoCases == [cases |-> 0, score |-> 0, critical |-> 0, high |-> 0, overdue |-> 0, due_soon |-> 0]
One(condition) == IF condition THEN 1 ELSE 0
Counted(row, c) ==
  [cases |-> row.cases + 1, score |-> row.score + Score(c),
   critical |-> row.critical + One(Priority(c) = "CRITICAL"),
   high |-> row.high + One(Priority(c) = "HIGH"),
   overdue |-> row.overdue + One(cases[c].sla = "OVERDUE"),
   due_soon |-> row.due_soon + One(cases[c].sla = "DUE_SOON")]
\* The workload route scores the cases again, in the order of the store.
Workload == FoldLeft(LAMBDA rows, c :
                LET u == cases[c].assigned
                IN (u :> Counted(IF u \in DOMAIN rows THEN rows[u] ELSE NoCases, c)) @@ rows,
              <<>>, SetToSortSeq(Cases, <))

-----------------------------------------------------------------------------
Quiet == [signals |-> FALSE, contradictions |-> 0, days |-> 0, assigned |-> None, sla |-> "ON_TRACK"]

Init ==
  \/ /\ claims \in UNION {[1..n -> SUBSET Patterns] : n \in 0..MaxClaims}
     /\ contradictions = {} /\ disposed = {} /\ known = {} /\ verified = {}
     /\ cases = [c \in Cases |-> Quiet]
  \/ /\ claims = <<{}, {}>>
     /\ contradictions \in SUBSET [claim : DOMAIN claims, evidence : (SUBSET Evidence) \ {{}}]
     /\ disposed \in {{}, contradictions}
     /\ known \in SUBSET Evidence /\ verified \in {{}, known}
     /\ cases = [c \in Cases |-> Quiet]
  \/ /\ claims = <<>>
     /\ contradictions = {} /\ disposed = {} /\ known = {} /\ verified = {}
     /\ cases \in [Cases -> [signals : BOOLEAN, contradictions : 0..MaxContradictions,
                             days : {0, MaxDays}, assigned : Users \cup {None},
                             sla : {"ON_TRACK", "OVERDUE"}]]

Spec == Init /\ [][FALSE]_vars

-----------------------------------------------------------------------------
\* Each code has one signal, of exactly the claims with grounds for it, in the
\* order of the text; a claim's tasks are what its own grounds ask for, each once.
SignalsFitClaims ==
  LET shown == Workspace  signals == shown.signals IN
  /\ \A j, k \in DOMAIN signals : signals[j].code = signals[k].code => j = k
  /\ \A i \in DOMAIN claims : \A g \in Grounds(claims[i]) :
       \E j \in DOMAIN signals : signals[j].code = Rules[g].code
  /\ \A j \in DOMAIN signals :
       signals[j].claims = SelectSeq([i \in DOMAIN claims |-> i],
         LAMBDA i : \E g \in Grounds(claims[i]) : Rules[g].code = signals[j].code)
  /\ \A i \in DOMAIN claims :
       /\ ToSet(shown.tasks[i]) = UNION {ToSet(Rules[g].needs) : g \in Grounds(claims[i])}
       /\ IsInjective(shown.tasks[i])
  /\ shown.human_review = (contradictions # {} \/ \E i \in DOMAIN claims : Grounds(claims[i]) # {})

\* The rows show each piece of evidence of each finding at its own claim, and
\* nothing else.
MatrixFitsFindings ==
  \A i \in DOMAIN claims :
    /\ \A c \in contradictions, e \in Evidence :
         (c.claim = i /\ e \in c.evidence)
           <=> \E l \in MatrixRow(i).evidence : l.finding = c /\ l.evidence = e
    /\ (MatrixRow(i).status = "CONTRADICTION") <=> \E c \in contradictions : c.claim = i

\* The workload adds up to the queue: an analyst's row counts the cases which the
\* queue shows with them, and no case is left out of either.
WorkloadFitsQueue ==
  LET Of(u) == {n \in DOMAIN Queue : cases[Queue[n]].assigned = u}
  IN /\ ToSet(Queue) = Cases /\ Len(Queue) = Cardinality(Cases)
     /\ \A n \in 1..(Len(Queue) - 1) : Score(Queue[n]) >= Score(Queue[n + 1])
     /\ \A u \in Users \cup {None} : u \in DOMAIN Workload <=> Of(u) # {}
     /\ \A u \in DOMAIN Workload :
          /\ Workload[u].cases = Cardinality(Of(u))
          /\ Workload[u].score = MapThenSumSet(LAMBDA n : Score(Queue[n]), Of(u))
          /\ Workload[u].high = Cardinality({n \in Of(u) : Priority(Queue[n]) = "HIGH"})
          /\ Workload[u].overdue = Cardinality({n \in Of(u) : cases[Queue[n]].sla = "OVERDUE"})

\* What is shown of a case agrees with what it is derived from.
AnalysisAgrees == SignalsFitClaims /\ MatrixFitsFindings /\ WorkloadFitsQueue
=============================================================================
