--------------------------- MODULE ReviewChecklist ---------------------------
(***************************************************************************)
(* The checklist of a case's review and its readiness (case_review.py,     *)
(* case_review_service.py and the routes review-checklist, review-         *)
(* readiness). The first route to ask builds the list, from what the case  *)
(* shows then; it is never built again.  With a repository the rows are    *)
(* asked for first, and their list, which is empty, is taken as the        *)
(* checklist.                                                              *)
(***************************************************************************)
EXTENDS Integers, Sequences, FiniteSets

CONSTANTS MaxContradictions,
          Signals,         \* BOOLEAN, or less: may the claims raise policy signals?
          None

VARIABLES persistent,      \* is there a repository?
          signals,         \* has the case policy signals?
          contradictions,  \* how many findings the process knows
          items,           \* store.review_checklists[case], or None
          rows,            \* case_review_checklist, by code
          shown,           \* history: the readiness last answered, and what was then undone
          first,           \* history: the route which asked first
          grown            \* history: has anything been found after that?
vars == <<persistent, signals, contradictions, items, rows, shown, first, grown>>

Gap == "MISSING_EVIDENCE"

\* What the case lacks: the checklist's routes ask what its signals need, and no
\* upload has the name of a requirement; the readiness route asks with no requirement.
Missing(route) == route # "readiness" /\ signals

\* The suggestions are looked up by the case, and stored by the evidence: none is seen.
Suggestions == 0

\* build_checklist
Called(route) ==
  <<"REVIEW_CONTEXT", "EVIDENCE_INTEGRITY">>
  \o (IF signals THEN <<"POLICY_SIGNALS">> ELSE <<>>)
  \o (IF Missing(route) THEN <<Gap>> ELSE <<>>)
  \o (IF Suggestions > 0 THEN <<"FACT_VERIFICATION">> ELSE <<>>)
  \o (IF contradictions > 0 THEN <<"CONTRADICTIONS">> ELSE <<>>)
  \o <<"DECISION_RATIONALE">>
Codes(list) == {list[n].code : n \in DOMAIN list}

\* ensure_checklist
Ensured(route) ==
  IF items # None THEN items
  ELSE IF persistent THEN rows
  ELSE [n \in DOMAIN Called(route) |-> [code |-> Called(route)[n], completed |-> FALSE]]

\* assess_readiness: every item is a required one.
Open(list) == {n \in DOMAIN list : ~list[n].completed}
Ready_AnyDone(list) == \E n \in DOMAIN list : list[n].completed
Ready(list) == Open(list) = {}

-----------------------------------------------------------------------------
\* What a checklist built now would ask for and this one does not show as completed.
Undone(list) == {Called("checklist")[n] : n \in DOMAIN Called("checklist")}
                \ {list[n].code : n \in DOMAIN list \ Open(list)}
NotShown == [ready |-> FALSE, undone |-> {}]

Init ==
  /\ persistent \in BOOLEAN /\ signals \in Signals
  /\ contradictions = 0 /\ items = None /\ rows = <<>>
  /\ shown = NotShown /\ first = None /\ grown = FALSE

AskedFirst(route) == first' = IF items = None THEN route ELSE first

\* GET review-checklist, GET review-readiness.
Show(route) ==
  /\ items' = Ensured(route)
  /\ shown' = [ready |-> Ready(Ensured(route)), undone |-> Undone(Ensured(route))]
  /\ AskedFirst(route)
  /\ UNCHANGED <<persistent, signals, contradictions, rows, grown>>

\* POST review-checklist: the item of the code, or else 404; the row is written after it.
UpdateItem(code, completed) ==
  LET list == Ensured("checklist") IN
  /\ items' = [n \in DOMAIN list |-> IF list[n].code = code
                                      THEN [list[n] EXCEPT !.completed = completed] ELSE list[n]]
  /\ rows' = IF persistent /\ code \in Codes(list)
               THEN SelectSeq(rows, LAMBDA r : r.code # code)
                    \o <<[code |-> code, completed |-> completed]>>
               ELSE rows
  /\ AskedFirst("checklist")
  /\ UNCHANGED <<persistent, signals, contradictions, shown, grown>>

\* The analysis of the evidence replaces the findings of the case.
Analyse(n) ==
  /\ n # contradictions /\ contradictions' = n
  /\ grown' = (grown \/ (items # None /\ contradictions = 0))
  /\ UNCHANGED <<persistent, signals, items, rows, shown, first>>

\* A process begins with an empty store; without a repository it begins without the case.
Restart ==
  /\ persistent /\ items # None
  /\ items' = None /\ contradictions' = 0 /\ first' = None /\ grown' = FALSE
  /\ shown' = NotShown
  /\ UNCHANGED <<persistent, signals, rows>>

AllCodes == {"REVIEW_CONTEXT", "EVIDENCE_INTEGRITY", "POLICY_SIGNALS", Gap, "CONTRADICTIONS", "DECISION_RATIONALE"}

Next ==
  \/ \E route \in {"checklist", "readiness"} : Show(route)
  \/ \E code \in AllCodes, completed \in BOOLEAN : UpdateItem(code, completed)
  \/ \E n \in 0..MaxContradictions : Analyse(n)
  \/ Restart

Spec == Init /\ [][Next]_vars

-----------------------------------------------------------------------------
\* A case is shown as ready only when each item which it calls for is completed: unless
\* the process has a repository, in which case nothing is ever asked (below); or a finding was
\* made after the list was built; or, as to the missing evidence, the readiness route
\* asked before the checklist's.
ReadyIsReviewed ==
  (shown.ready /\ ~persistent) =>
     \A code \in shown.undone : \/ code = "CONTRADICTIONS" /\ grown
                                \/ code = Gap /\ first = "readiness"
\* With a repository no item is ever asked for, nor is any stored.
NothingIsAsked == persistent => rows = <<>> /\ items \in {None, <<>>}
=============================================================================
