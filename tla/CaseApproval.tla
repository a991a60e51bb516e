---------------------------- MODULE CaseApproval ----------------------------
(***************************************************************************)
(* How a case is decided, frozen, approved and handed over for submission: *)
(* src/case_decision_service.py, src/decision_workspace.py and             *)
(* src/case_submission_service.py, for one case of one organization.       *)
(*                                                                         *)
(* Every API process keeps the case, its decisions and its dossier in a    *)
(* store of its own and writes them through to the tables; it reads a case *)
(* once and the decisions never.  Requests on one case run in the threads  *)
(* of several processes at once, and no lock is held over a request: it is *)
(* read, store, and one transaction for each table in turn, any of which   *)
(* may fail.                                                               *)
(*                                                                         *)
(* A dossier's hash stands for its content: it is the dossier's rank among *)
(* those frozen so far.  The review in it does not change here.            *)
(***************************************************************************)
EXTENDS Naturals, Sequences

CONSTANTS
  Decisions,             \* their identifiers
  Servers,               \* API processes
  Threads, ServerOf,     \* the threads that serve requests, and the process of each
  None,                  \* Python's None
  MaxDossiers,           \* bound: how many different dossiers are frozen
  MaxFaults              \* bound: how many transactions fail and processes die

ASSUME ServersAssumption == ServerOf \in [Threads -> Servers]
ASSUME BoundsAssumption == MaxDossiers \in Nat /\ MaxFaults \in Nat
ASSUME NoneAssumption == None \notin Decisions

VARIABLES
  db,           \* tables api_cases, api_decisions, api_dossier_snapshots and api_approvals
  store,        \* the same in each process
  act,          \* where each thread is in its request
  dossiers,     \* history: the dossiers frozen so far, by hash
  approvals,    \* history: the approvals given, as in the stores' lists of events
  submissions,  \* history: what was prepared for submission, with the dossier it had
  overlap,      \* history: two requests were under way in one process at once
  faults        \* history: how many failures there were

vars == <<db, store, act, dossiers, approvals, submissions, overlap, faults>>

\* A DecisionRecord; id is what the record says, whatever key it is stored under.
Decision == [id : Decisions \cup {None}, dossier : Nat,
             status : {"absent", "DRAFT", "PENDING_APPROVAL", "APPROVED"}]
NoDecision == [id |-> None, status |-> "absent", dossier |-> 0]

Case == [status : {"absent", "ANALYZING", "ANALYZED", "HUMAN_REVIEW", "READY_TO_SUBMIT"},
         decision : Decisions \cup {None}, dossier : Nat]
NoCase == [status |-> "absent", decision |-> None, dossier |-> 0]
NewCase == [NoCase EXCEPT !.status = "ANALYZING"]

Dossier == [decision : Decision, case : Case]
Approval == [decision : Decisions, dossier : Nat]
Tables == [case : Case, decision : [Decisions -> Decision], dossier : Nat,
           approvals : SUBSET Approval]
Store == [case : Case, decision : [Decisions -> Decision], dossier : Nat]
EmptyStore == [case |-> NoCase, decision |-> [d \in Decisions |-> NoDecision], dossier |-> 0]

Pending == {"put_decision", "set_case", "update_case", "store", "store_decision",
            "put_snapshot", "put_approval"}
Act == [at : Pending \cup {"idle"}, op : {"create", "freeze", "approve"}, decision : Decision,
        dossier : Nat]
Idle == [at |-> "idle", op |-> "create", decision |-> NoDecision, dossier |-> 0]

TypeOK ==
  /\ db \in Tables
  /\ store \in [Servers -> Store]
  /\ act \in [Threads -> Act]
  /\ \A t \in Threads : act[t].at # "idle" => act[t].decision.id \in Decisions
  /\ dossiers \in Seq(Dossier)
  /\ approvals \subseteq Approval
  /\ submissions \subseteq Approval
  /\ overlap \in BOOLEAN
  /\ faults \in Nat

Init ==
  /\ db = [case |-> NewCase, decision |-> EmptyStore.decision, dossier |-> 0, approvals |-> {}]
  /\ store = [s \in Servers |-> EmptyStore]
  /\ act = [t \in Threads |-> Idle]
  /\ dossiers = <<>>
  /\ approvals = {}
  /\ submissions = {}
  /\ overlap = FALSE
  /\ faults = 0

-----------------------------------------------------------------------------
Here(t) == store[ServerOf[t]]

\* The decision the process believes to be the case's.
Current(t) == Here(t).case.decision

\* A request begins while another is under way in the process.
Overlaps(t) == \E u \in Threads \ {t} : ServerOf[u] = ServerOf[t] /\ act[u].at # "idle"

Begins(t, op, at, decision, dossier) ==
  /\ act' = [act EXCEPT ![t] = [at |-> at, op |-> op, decision |-> decision, dossier |-> dossier]]
  /\ overlap' = (overlap \/ Overlaps(t))

Goes(t, at) == act' = [act EXCEPT ![t].at = at]
Ends(t) == act' = [act EXCEPT ![t] = Idle]

\* hydrate_case, with which every request on the case begins: the row is read
\* once, for as long as the process lives.  An abstraction: the read and the
\* store are one step, so that a process has one object for the case.
Hydrate(t) ==
  /\ act[t].at = "idle" /\ Here(t).case.status = "absent"
  /\ store' = [store EXCEPT ![ServerOf[t]].case = db.case]
  /\ UNCHANGED <<db, act, dossiers, approvals, submissions, overlap, faults>>

Serves(t) == act[t].at = "idle" /\ Here(t).case.status # "absent"

-----------------------------------------------------------------------------
(* create: a draft under a new identifier.  The case points to it once the *)
(* decision is in its table.                                               *)

Unused(d) ==
  /\ db.decision[d].status = "absent"
  /\ \A s \in Servers : store[s].decision[d].status = "absent"
  /\ \A t \in Threads : act[t].decision.id # d

Create(t, d) ==
  LET draft == [id |-> d, status |-> "DRAFT", dossier |-> 0]
  IN /\ Serves(t) /\ Unused(d)
     /\ store' = [store EXCEPT ![ServerOf[t]].decision[d] = draft]
     /\ Begins(t, "create", "put_decision", draft, 0)
     /\ UNCHANGED <<db, dossiers, approvals, submissions, faults>>

SetCase(t) ==
  /\ act[t].at = "set_case"
  /\ store' = [store EXCEPT ![ServerOf[t]].case.decision = act[t].decision.id,
                            ![ServerOf[t]].case.status = "ANALYZED"]
  /\ Goes(t, "update_case")
  /\ UNCHANGED <<db, dossiers, approvals, submissions, overlap, faults>>

-----------------------------------------------------------------------------
(* freeze: the dossier is the case and its decision as the process has     *)
(* them.  The decision may have any status, APPROVED included.             *)

FrozenAs(dossier, n) == n \in DOMAIN dossiers /\ dossiers[n] = dossier

Frozen_KeepsApproval(decision, n) ==
  [decision EXCEPT !.status = IF @ = "APPROVED" THEN @ ELSE "PENDING_APPROVAL", !.dossier = n]
Frozen(decision, n) == [decision EXCEPT !.status = "PENDING_APPROVAL", !.dossier = n]

Freeze(t) ==
  LET decision == Here(t).decision[Current(t)]
      dossier == [decision |-> decision, case |-> Here(t).case]
  IN /\ Serves(t) /\ Current(t) # None
     /\ decision.status # "absent"
     /\ \E n \in 1..MaxDossiers :
          /\ \/ FrozenAs(dossier, n) /\ UNCHANGED dossiers
             \/ /\ n = Len(dossiers) + 1 /\ \A m \in DOMAIN dossiers : ~FrozenAs(dossier, m)
                /\ dossiers' = Append(dossiers, dossier)
          /\ Begins(t, "freeze", "store", Frozen(decision, n), n)
     /\ UNCHANGED <<db, store, approvals, submissions, faults>>

CaseFrozen_KeepsStatus(row, n) == [row EXCEPT !.dossier = n]
CaseFrozen(row, n) == [row EXCEPT !.status = "HUMAN_REVIEW", !.dossier = n]

StoreSnapshot(t) ==
  /\ act[t].at = "store" /\ act[t].op = "freeze"
  /\ store' = [store EXCEPT ![ServerOf[t]].dossier = act[t].dossier]
  /\ Goes(t, "store_decision")
  /\ UNCHANGED <<db, dossiers, approvals, submissions, overlap, faults>>

\* The decision goes under the identifier the case has now.
StoreFrozen(t) ==
  /\ act[t].at = "store_decision"
  /\ store' = [store EXCEPT ![ServerOf[t]].decision[Current(t)] = act[t].decision,
                            ![ServerOf[t]].case = CaseFrozen(@, act[t].dossier)]
  /\ Goes(t, "put_snapshot")
  /\ UNCHANGED <<db, dossiers, approvals, submissions, overlap, faults>>

PutSnapshot(t) ==
  /\ act[t].at = "put_snapshot"
  /\ db' = [db EXCEPT !.dossier = act[t].dossier]
  /\ Goes(t, "put_decision")
  /\ UNCHANGED <<store, dossiers, approvals, submissions, overlap, faults>>

-----------------------------------------------------------------------------
(* approve: only what is pending, and only with the dossier it was frozen  *)
(* with.                                                                   *)

Approvable_AnyDossier(decision, n) == decision.status = "PENDING_APPROVAL"
Approvable(decision, n) == decision.status = "PENDING_APPROVAL" /\ decision.dossier = n

Approve(t) ==
  LET decision == Here(t).decision[Current(t)]
  IN /\ Serves(t) /\ Current(t) # None
     /\ Here(t).dossier # 0
     /\ Approvable(decision, Here(t).dossier)
     /\ Begins(t, "approve", "store", [decision EXCEPT !.status = "APPROVED"], Here(t).dossier)
     /\ UNCHANGED <<db, store, dossiers, approvals, submissions, faults>>

Given(t) == [decision |-> act[t].decision.id, dossier |-> act[t].dossier]

StoreApproved(t) ==
  /\ act[t].at = "store" /\ act[t].op = "approve"
  /\ store' = [store EXCEPT ![ServerOf[t]].decision[Current(t)] = act[t].decision,
                            ![ServerOf[t]].case.status = "READY_TO_SUBMIT"]
  /\ approvals' = approvals \cup {Given(t)}
  /\ Goes(t, "put_decision")
  /\ UNCHANGED <<db, dossiers, submissions, overlap, faults>>

PutApproval(t) ==
  /\ act[t].at = "put_approval"
  /\ db' = [db EXCEPT !.approvals = @ \cup {Given(t)}]
  /\ Goes(t, "update_case")
  /\ UNCHANGED <<store, dossiers, approvals, submissions, overlap, faults>>

-----------------------------------------------------------------------------
(* What they share.  update_case takes from the process's case what it     *)
(* holds by then.                                                          *)

AfterPutDecision == [create |-> "set_case", freeze |-> "update_case", approve |-> "put_approval"]

PutDecision(t) ==
  /\ act[t].at = "put_decision"
  /\ db' = [db EXCEPT !.decision[act[t].decision.id] = act[t].decision]
  /\ Goes(t, AfterPutDecision[act[t].op])
  /\ UNCHANGED <<store, dossiers, approvals, submissions, overlap, faults>>

Updated(row, seen, op) ==
  CASE op = "create"  -> [row EXCEPT !.status = seen.status, !.decision = seen.decision]
    [] op = "freeze"  -> [row EXCEPT !.status = seen.status, !.dossier = seen.dossier]
    [] op = "approve" -> [row EXCEPT !.status = seen.status]

UpdateCase(t) ==
  /\ act[t].at = "update_case"
  /\ db' = [db EXCEPT !.case = Updated(@, Here(t).case, act[t].op)]
  /\ Ends(t)
  /\ UNCHANGED <<store, dossiers, approvals, submissions, overlap, faults>>

\* A transaction fails: the request ends there, and what it stored stays.
TransactionFails(t) ==
  /\ act[t].at \in {"put_decision", "put_snapshot", "put_approval", "update_case"}
  /\ faults < MaxFaults
  /\ faults' = faults + 1
  /\ Ends(t)
  /\ UNCHANGED <<db, store, dossiers, approvals, submissions, overlap>>

\* The process dies or is replaced, with its requests and its store.
Restart(s) ==
  /\ faults < MaxFaults
  /\ faults' = faults + 1
  /\ store' = [store EXCEPT ![s] = EmptyStore]
  /\ act' = [t \in Threads |-> IF ServerOf[t] = s THEN Idle ELSE act[t]]
  /\ UNCHANGED <<db, dossiers, approvals, submissions, overlap>>

-----------------------------------------------------------------------------
\* prepare: a submission for the case, if its decision is approved.  The rows
\* it adds to the store and to api_submissions are not looked at again here.
Submittable_Decided(decision) == decision.status # "absent"
Submittable(decision) == decision.status = "APPROVED"

Submit(t) ==
  /\ Serves(t) /\ Current(t) # None
  /\ Submittable(Here(t).decision[Current(t)])
  /\ submissions' = submissions \cup {[decision |-> Current(t), dossier |-> Here(t).dossier]}
  /\ overlap' = (overlap \/ Overlaps(t))
  /\ UNCHANGED <<db, store, act, dossiers, approvals, faults>>

-----------------------------------------------------------------------------
CreateStep(t) == SetCase(t) \/ \E d \in Decisions : Create(t, d)
FreezeStep(t) == Freeze(t) \/ StoreSnapshot(t) \/ StoreFrozen(t) \/ PutSnapshot(t)
ApproveStep(t) == Approve(t) \/ StoreApproved(t) \/ PutApproval(t)
SharedStep(t) == Hydrate(t) \/ PutDecision(t) \/ UpdateCase(t) \/ TransactionFails(t) \/ Submit(t)

Next ==
  \/ \E t \in Threads : CreateStep(t) \/ FreezeStep(t) \/ ApproveStep(t) \/ SharedStep(t)
  \/ \E s \in Servers : Restart(s)

Spec == Init /\ [][Next]_vars

-----------------------------------------------------------------------------
(* Properties. *)

\* What was approved is a dossier of the very decision that was approved,
\* however freezes, approvals and new decisions race in one process.
ApprovalsFitDossiers ==
  \A a \in approvals : a.dossier \in DOMAIN dossiers /\ dossiers[a.dossier].decision.id = a.decision

\* The table has no decision as approved, with a dossier, that nobody approved
\* with that dossier.
ApprovedOnRecord ==
  \A d \in Decisions : db.decision[d].status = "APPROVED"
    => [decision |-> d, dossier |-> db.decision[d].dossier] \in approvals

\* "explicit human approval required before submission": what is prepared for
\* submission is the case's decision with its dossier, approved as such.
SubmissionsAreApproved == submissions \subseteq approvals

\* It is so as long as no two requests overlap in one process, whatever other
\* processes do, whatever fails.
SequentialSubmissionsAreApproved == overlap \/ SubmissionsAreApproved

\* A process that has the case ready for submission and knows its decision has
\* it approved with the dossier it holds, unless requests overlapped or one is
\* just storing a new dossier.
ReadyIsApproved ==
  \A s \in Servers :
    LET current == store[s].case.decision
    IN /\ store[s].case.status = "READY_TO_SUBMIT" /\ current # None /\ ~overlap
       /\ store[s].decision[current].status # "absent"
       /\ \A t \in Threads : ServerOf[t] = s => act[t].at # "store_decision"
       => /\ store[s].decision[current].status = "APPROVED"
          /\ store[s].decision[current].dossier = store[s].dossier
=============================================================================
