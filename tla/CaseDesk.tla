------------------------------ MODULE CaseDesk ------------------------------
(***************************************************************************)
(* Who holds a case and what became of its escalations, over several API   *)
(* processes: the claim and escalation handlers of src/api_server.py,      *)
(* src/case_operations_service.py, src/case_escalation_service.py and      *)
(* src/escalation_workflow.py, for one case.                               *)
(*                                                                         *)
(* A process reads the case once, without its assignee, and an escalation  *)
(* once; from then on its own copies decide.  The API looks for an         *)
(* escalation to acknowledge or resolve among those copies only.           *)
(***************************************************************************)
EXTENDS Naturals, FiniteSets

CONSTANTS
  Users,
  Levels,                 \* of escalation: among "DUE" and "CRITICAL"
  Servers,
  Threads, ServerOf,
  None,
  MaxRestarts             \* bound: how many times a process starts again

VARIABLES
  db,        \* assigned_to of the case's row, and its rows of case_escalations
  store,     \* the same in each process, once it has read them
  act,       \* what each thread still has to write
  signal,    \* the levels at which calculate_sla has signalled the case so far
  early,     \* history: the processes with a copy of an escalation from before its resolution
  claimers,  \* history: the processes that have claimed or released the case
  crossed,   \* history: two writes of the assignee were under way at once, or one was lost
  restarts

vars == <<db, store, act, signal, early, claimers, crossed, restarts>>

Absent == "absent"
Statuses == {Absent, "OPEN", "ACKNOWLEDGED", "RESOLVED"}

Idle == [at |-> "idle", user |-> None, level |-> "DUE", status |-> Absent]
EmptyStore == [hasCase |-> FALSE, assigned |-> None, escalations |-> [l \in Levels |-> Absent]]

Init ==
  /\ db = [assigned |-> None, escalations |-> [l \in Levels |-> Absent]]
  /\ store = [s \in Servers |-> EmptyStore]
  /\ act = [t \in Threads |-> Idle]
  /\ signal = {}
  /\ early = [l \in Levels |-> {}]
  /\ claimers = {} /\ crossed = FALSE
  /\ restarts = 0

Mine(t) == store[ServerOf[t]]
Keep(t, s) == store' = [store EXCEPT ![ServerOf[t]] = s]
Go(t, a) == act' = [act EXCEPT ![t] = a]
At(t, step) == act[t].at = step

\* A request on the case reads its row, from which the assignee is not taken.
ReadCase(t) ==
  /\ At(t, "idle") /\ ~Mine(t).hasCase
  /\ Keep(t, [Mine(t) EXCEPT !.hasCase = TRUE])
  /\ UNCHANGED <<db, act, signal, early, claimers, crossed, restarts>>

-----------------------------------------------------------------------------
(* Claiming and releasing.                                                 *)

Assign(t, u) ==
  /\ Keep(t, [Mine(t) EXCEPT !.assigned = u])
  /\ Go(t, [Idle EXCEPT !.at = "assign_case", !.user = u])
  /\ claimers' = claimers \cup {ServerOf[t]}
  /\ crossed' = (crossed \/ \E o \in Threads : At(o, "assign_case"))
  /\ UNCHANGED <<db, signal, early, restarts>>

Claim(t, u) ==
  /\ At(t, "idle") /\ Mine(t).hasCase
  /\ Mine(t).assigned \in {None, u}
  /\ Assign(t, u)

\* Only the assignee or a manager may.
Unclaim(t, u, manager) ==
  /\ At(t, "idle") /\ Mine(t).hasCase
  /\ Mine(t).assigned \in {None, u} \/ manager
  /\ Assign(t, None)

AssignCase(t) == [db EXCEPT !.assigned = act[t].user]
WriteAssignee(t) ==
  /\ At(t, "assign_case")
  /\ db' = AssignCase(t)
  /\ Go(t, Idle)
  /\ UNCHANGED <<store, signal, early, claimers, crossed, restarts>>

-----------------------------------------------------------------------------
(* Escalations.                                                            *)

\* The case falls due, and later critically overdue.
FallDue(l) ==
  /\ l \notin signal /\ (l = "CRITICAL" => "DUE" \in signal)
  /\ signal' = signal \cup {l}
  /\ UNCHANGED <<db, store, act, early, claimers, crossed, restarts>>

\* for_sla: the copy, or else the row, or else a new signal which is not written.
Signalled_Anew(t, l) ==
  IF Mine(t).escalations[l] # Absent THEN Mine(t).escalations[l] ELSE "OPEN"
Signalled(t, l) ==
  IF Mine(t).escalations[l] # Absent THEN Mine(t).escalations[l]
  ELSE IF db.escalations[l] # Absent THEN db.escalations[l] ELSE "OPEN"

\* The level is the last one signalled.
ListEscalations(t, l) ==
  /\ At(t, "idle") /\ Mine(t).hasCase
  /\ l \in signal /\ (l = "DUE" => "CRITICAL" \notin signal)
  /\ Keep(t, [Mine(t) EXCEPT !.escalations[l] = Signalled(t, l)])
  /\ UNCHANGED <<db, act, signal, early, claimers, crossed, restarts>>

\* queue_notification looks for the row when there is no copy; a resolved one is refused.
Notify(t, l) ==
  /\ At(t, "idle")
  /\ Mine(t).escalations[l] = Absent /\ db.escalations[l] # Absent
  /\ Keep(t, [Mine(t) EXCEPT !.escalations[l] = db.escalations[l]])
  /\ UNCHANGED <<db, act, signal, early, claimers, crossed, restarts>>

\* acknowledge and resolve: the process's copy decides, and is then written whole.
Decide(t, l, status) ==
  /\ At(t, "idle")
  /\ Mine(t).escalations[l] \notin {Absent, "RESOLVED"}
  /\ Keep(t, [Mine(t) EXCEPT !.escalations[l] = status])
  /\ Go(t, [Idle EXCEPT !.at = "upsert_escalation", !.level = l, !.status = status])
  /\ UNCHANGED <<db, signal, early, claimers, crossed, restarts>>

UpsertEscalation(t) ==
  LET l == act[t].level IN
  /\ At(t, "upsert_escalation")
  /\ db' = [db EXCEPT !.escalations[l] = act[t].status]
  /\ early' = IF act[t].status = "RESOLVED" /\ db.escalations[l] # "RESOLVED"
              THEN [early EXCEPT ![l] = {s \in Servers : store[s].escalations[l] # Absent}]
              ELSE early
  /\ Go(t, Idle)
  /\ UNCHANGED <<store, signal, claimers, crossed, restarts>>

-----------------------------------------------------------------------------

\* A process dies, with what its requests had still to write, and starts again.
Restart(s) ==
  LET dead == {t \in Threads : ServerOf[t] = s} IN
  /\ restarts < MaxRestarts /\ restarts' = restarts + 1
  /\ store' = [store EXCEPT ![s] = EmptyStore]
  /\ act' = [t \in Threads |-> IF t \in dead THEN Idle ELSE act[t]]
  /\ early' = [l \in Levels |-> early[l] \ {s}]
  /\ crossed' = (crossed \/ s \in claimers)
  /\ UNCHANGED <<db, signal, claimers>>

Next ==
  \/ \E t \in Threads :
       \/ ReadCase(t) \/ WriteAssignee(t) \/ UpsertEscalation(t)
       \/ \E u \in Users : Claim(t, u) \/ \E manager \in BOOLEAN : Unclaim(t, u, manager)
       \/ \E l \in Levels : ListEscalations(t, l) \/ Notify(t, l)
       \/ \E l \in Levels, status \in {"ACKNOWLEDGED", "RESOLVED"} : Decide(t, l, status)
  \/ \E l \in Levels : FallDue(l)
  \/ \E s \in Servers : Restart(s)

Spec == Init /\ [][Next]_vars

-----------------------------------------------------------------------------

\* A resolved escalation is opened again in the table only from a copy some process had
\* before the resolution: a process that starts, or first looks, after it never does.
OpenedFromCopy ==
  \A t \in Threads, l \in Levels :
    (act'[t] # act[t] /\ db.escalations[l] = "RESOLVED" /\ db'.escalations[l] # "RESOLVED")
      => ServerOf[t] \in early[l]

\* While one process alone has served claims, and no two writes of the assignee crossed,
\* the row names the user that process last said holds the case.
AssigneeIsKept ==
  \A s \in Servers :
    (claimers = {s} /\ ~crossed /\ ~\E t \in Threads : At(t, "assign_case"))
      => db.assigned = store[s].assigned
=============================================================================
