----------------------------- MODULE MCServices -----------------------------
(***************************************************************************)
(* Small instances of the parts of Services, and beside them the           *)
(* computations of the service on small inputs: the clock of a case, which *)
(* runs, and what is derived from a case and from its documents, where     *)
(* each input is a state.                                                  *)
(***************************************************************************)
EXTENDS Services, TLC

CONSTANTS s1, s2, t1, t2, t3, c1, c2, k1, k2, f1, f2

VARIABLES
  calendar, created, points, now, pausedAt, paused, worked, revised,
  wording, findings, known, verified, disposed, queued,
  claim, lines

Places == t1 :> s1 @@ t2 :> s1 @@ t3 :> s2
Payload == k1 :> f1 @@ k2 :> f2
Due == {"DUE"}
Completed == {"COMPLETED"}

\* A night of four hours but one, a policy which restricts the rest, and no policy at all.
Nights == [enabled |-> TRUE, levels |-> {"DUE", "CRITICAL"}, channels |-> {"IN_APP", "EMAIL", "WEBHOOK"},
           quiet_start |-> 2, quiet_end |-> 1, allow_external |-> TRUE]
Internal == [enabled |-> TRUE, levels |-> {"DUE"}, channels |-> {"IN_APP", "EMAIL"},
             quiet_start |-> NoValue, quiet_end |-> NoValue, allow_external |-> FALSE]
Invalid == [Internal EXCEPT !.levels = {}]
ThreePolicies == {Nights, Internal, Invalid}

\* Three releases: a file is added, and the first one is edited.
File(name, content) == [name |-> name, content |-> content]
ThreeReleases ==
  {<<File(f1, c1)>>, <<File(f1, c1), File(f2, c1)>>, <<File(f1, c2), File(f2, c1)>>}

\* Round the clock, two hours of five days with a holiday, and the weekend; a day
\* is six units long.
AllDay == [workdays |-> 0..6, start |-> 0, end |-> 6, holidays |-> {}]
Office == [workdays |-> 0..4, start |-> 2, end |-> 4, holidays |-> {1}]
Weekend == [workdays |-> {5, 6}, start |-> 3, end |-> 6, holidays |-> {}]

\* The texts which a claim may match, and two cases in the queue.
Patterns == {"THREAT", "ADVERTISING", "ALLEGATION", "COPIED"}
Queued == 1..2

\* Numbers as they may be written, with zeros, points, and thousands; and years.
Written(int, dec) == [int |-> int, dec |-> dec]
Numbers == {Written(<<0>>, <<>>), Written(<<0, 0>>, <<>>), Written(<<0>>, <<0>>), Written(<<0>>, <<5>>),
            Written(<<1>>, <<>>), Written(<<0, 1>>, <<>>), Written(<<1>>, <<0, 0>>), Written(<<1>>, <<5>>),
            Written(<<1>>, <<5, 0>>), Written(<<0, 1>>, <<5, 0>>), Written(<<9, 0>>, <<>>),
            Written(<<9, 0>>, <<0>>), Written(<<3, 0>>, <<>>), Written(<<1>>, <<2, 3, 4>>)}
Years == {<<>>, <<2, 4>>, <<2, 0, 2, 4>>, <<2, 5>>}
Days == {3, 4}
Months == {4}

Sla == INSTANCE CaseSla WITH
         Calendars <- {AllDay, Office, Weekend}, Created <- {3}, Points <- {15, 45}, Horizon <- 18
Analysis == INSTANCE CaseAnalysis WITH
              Patterns <- Patterns, MaxClaims <- 2, MaxContradictions <- 2, MaxDays <- 5,
              Evidence <- CallKeys, Cases <- Queued, Org <- s1, None <- NoValue,
              claims <- wording, contradictions <- findings, cases <- queued
Extraction == INSTANCE FactExtraction

computed == <<wording, findings, known, verified, disposed, queued, claim, lines>>
slaVars == <<calendar, created, points, now, pausedAt, paused, worked, revised>>

\* The parts which do not run keep one of their first states.
MCInit ==
  /\ part \in Parts \cup {"sla", "analysis", "extraction"}
  /\ Started
  /\ part = "report" \/ report.content = c1
  /\ part = "checklist" \/ (~persistent /\ ~signals)
  /\ part = "schema" \/ (program = "script" /\ ~table)
  /\ part = "privacy" \/ ~durable
  /\ Sla!Init /\ (part = "sla" \/ (calendar = AllDay /\ points = 15))
  /\ IF part = "analysis" THEN Analysis!Init
     ELSE /\ wording = <<>> /\ findings = {} /\ known = {} /\ verified = {} /\ disposed = {}
          /\ queued = [c \in Queued |-> Analysis!Quiet]
  /\ IF part = "extraction" THEN Extraction!Init ELSE claim = NoValue /\ lines = <<>>

MCNext ==
  \/ ServicesNext /\ UNCHANGED <<slaVars, computed>>
  \/ part = "sla" /\ Sla!Next /\ UNCHANGED <<services, computed>>

MCSpec == MCInit /\ [][MCNext]_<<services, slaVars, computed>>

-----------------------------------------------------------------------------
\* The SLA clock counts business time, added and measured alike, and what it counts
\* is the business time which passed while it ran. A deadline moves only with the
\* calendar, the score or a pause, and the signal of a case never goes back (CaseSla.tla).
SlaIsWorked ==
  /\ [](part = "sla" => Sla!CalendarAgrees /\ Sla!ActiveIsWorked)
  /\ [][part = "sla" => Sla!DeadlineKept]_<<part, slaVars>>

\* What is derived agrees with what it is derived from: the signals, tasks and matrix of
\* a case and the analysts' workload (CaseAnalysis.tla), and what documents contradict
\* (FactExtraction.tla).
ViewsAgree ==
  /\ part = "analysis" => Analysis!AnalysisAgrees
  /\ part = "extraction" => Extraction!FactsAgree
=============================================================================
