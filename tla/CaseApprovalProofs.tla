------------------------- MODULE CaseApprovalProofs -------------------------
(***************************************************************************)
(* Theorems about CaseApproval, for any decisions, processes, threads and  *)
(* bounds: whatever requests overlap, the types, what an approval covers   *)
(* and what the table has as approved; and, as long as the requests of a   *)
(* process do not overlap, what a submission and READY rest on.            *)
(*                                                                         *)
(* The first are carried by FitInv: every record of a decision that waits  *)
(* for approval or has it, in a process or on its way to the table, points *)
(* to a dossier of its own, and every request is where its record says.    *)
(* The second are carried by CasesPoint and SequentialInv: in a process    *)
(* the record of a case that is ready is approved, an approved one has the *)
(* dossier the process has, and what a request has in hand is still what   *)
(* its process has.                                                        *)
(***************************************************************************)
EXTENDS CaseApproval, TLAPS

\* The dossier of a pending or approved record is of the decision the record
\* names.
Fits(record) ==
  record.status \in {"PENDING_APPROVAL", "APPROVED"}
    => record.dossier \in DOMAIN dossiers /\ dossiers[record.dossier].decision.id = record.id

\* An approved record has been approved, with its dossier.
Vouched(record) ==
  record.status = "APPROVED" => [decision |-> record.id, dossier |-> record.dossier] \in approvals

RecordsFit ==
  \A s \in Servers, d \in Decisions :
    LET record == store[s].decision[d]
    IN /\ record.status # "absent" => record.id \in Decisions
       /\ Fits(record) /\ Vouched(record)

\* What a request has in hand.
StatusOf == [create |-> "DRAFT", freeze |-> "PENDING_APPROVAL", approve |-> "APPROVED"]

RequestsFit ==
  \A t \in Threads : act[t].at # "idle"
    => /\ act[t].decision.status = StatusOf[act[t].op]
       /\ Fits(act[t].decision)
       /\ act[t].op = "approve" => /\ act[t].dossier = act[t].decision.dossier
                                   /\ act[t].at # "store" => Given(t) \in approvals
       /\ act[t].at = "store_decision" => act[t].op = "freeze"

FitInv == TypeOK /\ RecordsFit /\ RequestsFit /\ ApprovalsFitDossiers /\ ApprovedOnRecord


-----------------------------------------------------------------------------
(* Types. *)

LEMMA EmptyStoreType == EmptyStore \in Store /\ NoDecision \in Decision /\ Idle \in Act
  BY DEF EmptyStore, Store, NoCase, Case, NoDecision, Decision, Idle, Act, Pending

\* A thread that goes on with its request, begins one, or ends it.
LEMMA GoesType ==
  ASSUME TypeOK, NEW t \in Threads, NEW at \in Pending, Goes(t, at), act[t].at # "idle"
  PROVE  act' \in [Threads -> Act] /\ \A u \in Threads : act'[u].at # "idle" => act'[u].decision.id \in Decisions
  BY DEF TypeOK, Goes, Act

LEMMA EndsType ==
  ASSUME TypeOK, NEW t \in Threads, Ends(t)
  PROVE  act' \in [Threads -> Act] /\ \A u \in Threads : act'[u].at # "idle" => act'[u].decision.id \in Decisions
  BY EmptyStoreType DEF TypeOK, Ends, Idle

LEMMA BeginsType ==
  ASSUME TypeOK, NEW t \in Threads, NEW op \in {"create", "freeze", "approve"}, NEW at \in Pending,
         NEW r \in Decision, r.id \in Decisions, NEW n \in Nat, Begins(t, op, at, r, n)
  PROVE  /\ act' \in [Threads -> Act]
         /\ \A u \in Threads : act'[u].at # "idle" => act'[u].decision.id \in Decisions
         /\ overlap' \in BOOLEAN
  <1>1. [at |-> at, op |-> op, decision |-> r, dossier |-> n] \in Act
    BY DEF Act
  <1>2. overlap' \in BOOLEAN
    BY DEF Begins, Overlaps, TypeOK
  <1> QED
    BY <1>1, <1>2 DEF Begins, TypeOK

\* What a process has, changed in one place, keeps its type.
LEMMA StoreDecisionType ==
  ASSUME NEW row \in Store, NEW r \in Decision, NEW d
  PROVE  [row EXCEPT !.decision[d] = r] \in Store
  BY DEF Store

LEMMA StoreCaseType ==
  ASSUME NEW row \in Store, NEW c \in Case
  PROVE  [row EXCEPT !.case = c] \in Store
  BY DEF Store

LEMMA HereType == ASSUME TypeOK, NEW t \in Threads PROVE ServerOf[t] \in Servers /\ Here(t) \in Store
  BY ServersAssumption DEF TypeOK, Here

LEMMA InitType == ASSUME Init PROVE TypeOK
  <1>1. NewCase \in Case
    BY DEF NewCase, NoCase, Case
  <1>2. EmptyStore.decision \in [Decisions -> Decision]
    BY EmptyStoreType DEF EmptyStore
  <1>3. db \in Tables
    BY <1>1, <1>2 DEF Init, Tables
  <1>4. dossiers \in Seq(Dossier)
    BY DEF Init
  <1> QED
    BY <1>3, <1>4, EmptyStoreType DEF Init, TypeOK, Idle

\* The record a freeze or an approval starts from is a decision's.
LEMMA CurrentType ==
  ASSUME TypeOK, RecordsFit, NEW t \in Threads, Current(t) # None
  PROVE  /\ Current(t) \in Decisions
         /\ Here(t).decision[Current(t)] \in Decision
         /\ Here(t).decision[Current(t)].status # "absent"
              => Here(t).decision[Current(t)].id \in Decisions
  <1>1. Here(t) \in Store
    BY HereType
  <1>2. Current(t) \in Decisions
    BY <1>1 DEF Current, Store, Case
  <1>3. Here(t).decision[Current(t)] \in Decision
    BY <1>1, <1>2 DEF Store
  <1> QED
    BY <1>2, <1>3, HereType DEF RecordsFit, Here

LEMMA CreateType ==
  ASSUME TypeOK, NEW t \in Threads, NEW d \in Decisions, Create(t, d)
  PROVE  TypeOK'
  <1> DEFINE draft == [id |-> d, status |-> "DRAFT", dossier |-> 0]
             s == ServerOf[t]
  <1>1. draft \in Decision
    BY DEF Decision
  <1>2. [store[s] EXCEPT !.decision[d] = draft] \in Store
    BY <1>1, HereType, StoreDecisionType DEF Here
  <1>3. store' = [store EXCEPT ![s] = [store[s] EXCEPT !.decision[d] = draft]]
    BY HereType DEF Create, TypeOK
  <1>4. store' \in [Servers -> Store]
    BY <1>2, <1>3 DEF TypeOK
  <1>5. /\ act' \in [Threads -> Act]
        /\ \A u \in Threads : act'[u].at # "idle" => act'[u].decision.id \in Decisions
        /\ overlap' \in BOOLEAN
    BY <1>1, BeginsType DEF Create, Pending
  <1> QED
    BY <1>4, <1>5 DEF Create, TypeOK

LEMMA FreezeType ==
  ASSUME TypeOK, RecordsFit, NEW t \in Threads, Freeze(t)
  PROVE  TypeOK'
  <1> DEFINE decision == Here(t).decision[Current(t)]
             dossier == [decision |-> decision, case |-> Here(t).case]
  <1>1. decision \in Decision /\ decision.id \in Decisions
    BY CurrentType DEF Freeze
  <1>2. dossier \in Dossier
    BY <1>1, HereType DEF Dossier, Store
  <1>3. PICK n \in 1..MaxDossiers :
          /\ \/ UNCHANGED dossiers
             \/ dossiers' = Append(dossiers, dossier)
          /\ Begins(t, "freeze", "store", Frozen(decision, n), n)
    BY DEF Freeze
  <1>4. n \in Nat
    BY BoundsAssumption
  <1>5. Frozen(decision, n) \in Decision /\ Frozen(decision, n).id \in Decisions
    BY <1>1, <1>4 DEF Frozen, Decision
  <1>6. /\ act' \in [Threads -> Act]
        /\ \A u \in Threads : act'[u].at # "idle" => act'[u].decision.id \in Decisions
        /\ overlap' \in BOOLEAN
    BY <1>3, <1>4, <1>5, BeginsType DEF Pending
  <1>7. dossiers' \in Seq(Dossier)
    BY <1>2, <1>3 DEF TypeOK
  <1> QED
    BY <1>6, <1>7 DEF Freeze, TypeOK

LEMMA ApproveType ==
  ASSUME TypeOK, RecordsFit, NEW t \in Threads, Approve(t)
  PROVE  TypeOK'
  <1> DEFINE decision == Here(t).decision[Current(t)]
             approved == [decision EXCEPT !.status = "APPROVED"]
  <1>1. decision \in Decision /\ decision.id \in Decisions
    BY CurrentType DEF Approve, Approvable
  <1>2. approved \in Decision /\ approved.id \in Decisions
    BY <1>1 DEF Decision
  <1>3. Here(t).dossier \in Nat
    BY HereType DEF Store
  <1>4. Begins(t, "approve", "store", approved, Here(t).dossier)
    BY DEF Approve
  <1>5. /\ act' \in [Threads -> Act]
        /\ \A u \in Threads : act'[u].at # "idle" => act'[u].decision.id \in Decisions
        /\ overlap' \in BOOLEAN
    BY <1>2, <1>3, <1>4, BeginsType DEF Pending
  <1> QED
    BY <1>5 DEF Approve, TypeOK

\* Steps of a request under way: they write what the request has in hand.
LEMMA StoreStepType ==
  ASSUME TypeOK, NEW t \in Threads,
         SetCase(t) \/ StoreSnapshot(t) \/ StoreFrozen(t) \/ StoreApproved(t)
  PROVE  TypeOK'
  <1> DEFINE s == ServerOf[t]
  <1>0. /\ act[t] \in Act /\ act[t].decision \in Decision /\ act[t].dossier \in Nat
        /\ s \in Servers /\ store[s] \in Store /\ store[s].case \in Case
        /\ act[t].at # "idle" /\ act[t].decision.id \in Decisions
    <2>1. act[t].at # "idle"
      BY DEF SetCase, StoreSnapshot, StoreFrozen, StoreApproved
    <2> QED
      BY <2>1, HereType DEF TypeOK, Act, Store, Here
  <1>1. /\ act' \in [Threads -> Act]
        /\ \A u \in Threads : act'[u].at # "idle" => act'[u].decision.id \in Decisions
    BY <1>0, GoesType DEF SetCase, StoreSnapshot, StoreFrozen, StoreApproved, Pending
  <1>2. CASE SetCase(t)
    <2> DEFINE case == [store[s].case EXCEPT !.decision = act[t].decision.id, !.status = "ANALYZED"]
    <2>1. case \in Case
      BY <1>0 DEF Case
    <2>2. store' = [store EXCEPT ![s] = [store[s] EXCEPT !.case = case]]
      BY <1>0, <1>2 DEF SetCase, TypeOK, Store, Case
    <2>3. store' \in [Servers -> Store]
      BY <1>0, <2>1, <2>2, StoreCaseType DEF TypeOK
    <2> QED
      BY <1>1, <1>2, <2>3 DEF SetCase, TypeOK
  <1>3. CASE StoreSnapshot(t)
    <2>1. store' \in [Servers -> Store]
      BY <1>0, <1>3 DEF StoreSnapshot, TypeOK, Store
    <2> QED
      BY <1>1, <1>3, <2>1 DEF StoreSnapshot, TypeOK
  <1>4. CASE StoreFrozen(t)
    <2> DEFINE case == CaseFrozen(store[s].case, act[t].dossier)
               first == [store[s] EXCEPT !.decision[Current(t)] = act[t].decision]
    <2>1. case \in Case
      BY <1>0 DEF CaseFrozen, Case
    <2>2. first \in Store /\ [first EXCEPT !.case = case] \in Store
      BY <1>0, <2>1, StoreDecisionType, StoreCaseType
    <2>3. store' = [store EXCEPT ![s] = [first EXCEPT !.case = case]]
      BY <1>0, <1>4 DEF StoreFrozen, TypeOK, Store
    <2>4. store' \in [Servers -> Store]
      BY <1>0, <2>2, <2>3 DEF TypeOK
    <2> QED
      BY <1>1, <1>4, <2>4 DEF StoreFrozen, TypeOK
  <1>5. CASE StoreApproved(t)
    <2> DEFINE case == [store[s].case EXCEPT !.status = "READY_TO_SUBMIT"]
               first == [store[s] EXCEPT !.decision[Current(t)] = act[t].decision]
    <2>1. case \in Case
      BY <1>0 DEF Case
    <2>2. first \in Store /\ [first EXCEPT !.case = case] \in Store
      BY <1>0, <2>1, StoreDecisionType, StoreCaseType
    <2>3. store' = [store EXCEPT ![s] = [first EXCEPT !.case = case]]
      BY <1>0, <1>5 DEF StoreApproved, TypeOK, Store, Case
    <2>4. store' \in [Servers -> Store]
      BY <1>0, <2>2, <2>3 DEF TypeOK
    <2>5. approvals' \subseteq Approval
      BY <1>0, <1>5 DEF StoreApproved, Given, Approval, TypeOK
    <2> QED
      BY <1>1, <1>5, <2>4, <2>5 DEF StoreApproved, TypeOK
  <1> QED
    BY <1>2, <1>3, <1>4, <1>5

LEMMA UpdatedType ==
  ASSUME NEW row \in Case, NEW seen \in Case, NEW op \in {"create", "freeze", "approve"}
  PROVE  Updated(row, seen, op) \in Case
  BY DEF Updated, Case

LEMMA TableStepType ==
  ASSUME TypeOK, NEW t \in Threads,
         PutDecision(t) \/ PutSnapshot(t) \/ PutApproval(t) \/ UpdateCase(t)
  PROVE  TypeOK'
  <1>0. /\ act[t] \in Act /\ act[t].decision \in Decision /\ act[t].dossier \in Nat
        /\ act[t].op \in {"create", "freeze", "approve"}
        /\ Here(t) \in Store /\ Here(t).case \in Case
        /\ act[t].at # "idle" /\ act[t].decision.id \in Decisions
    <2>1. act[t].at # "idle"
      BY DEF PutDecision, PutSnapshot, PutApproval, UpdateCase
    <2> QED
      BY <2>1, HereType DEF TypeOK, Act, Store
  <1>1. CASE PutDecision(t)
    <2>1. AfterPutDecision[act[t].op] \in Pending
      BY <1>0 DEF AfterPutDecision, Pending
    <2>2. /\ act' \in [Threads -> Act]
          /\ \A u \in Threads : act'[u].at # "idle" => act'[u].decision.id \in Decisions
      BY <1>0, <1>1, <2>1, GoesType DEF PutDecision
    <2>3. db' \in Tables
      BY <1>0, <1>1 DEF PutDecision, TypeOK, Tables
    <2> QED
      BY <1>1, <2>2, <2>3 DEF PutDecision, TypeOK
  <1>2. CASE PutSnapshot(t)
    <2>1. /\ act' \in [Threads -> Act]
          /\ \A u \in Threads : act'[u].at # "idle" => act'[u].decision.id \in Decisions
      BY <1>0, <1>2, GoesType DEF PutSnapshot, Pending
    <2>2. db' \in Tables
      BY <1>0, <1>2 DEF PutSnapshot, TypeOK, Tables
    <2> QED
      BY <1>2, <2>1, <2>2 DEF PutSnapshot, TypeOK
  <1>3. CASE PutApproval(t)
    <2>1. /\ act' \in [Threads -> Act]
          /\ \A u \in Threads : act'[u].at # "idle" => act'[u].decision.id \in Decisions
      BY <1>0, <1>3, GoesType DEF PutApproval, Pending
    <2>2. Given(t) \in Approval
      BY <1>0 DEF Given, Approval
    <2>3. db' \in Tables
      BY <1>3, <2>2 DEF PutApproval, TypeOK, Tables
    <2> QED
      BY <1>3, <2>1, <2>3 DEF PutApproval, TypeOK
  <1>4. CASE UpdateCase(t)
    <2>1. /\ act' \in [Threads -> Act]
          /\ \A u \in Threads : act'[u].at # "idle" => act'[u].decision.id \in Decisions
      BY <1>4, EndsType DEF UpdateCase
    <2>2. Updated(db.case, Here(t).case, act[t].op) \in Case
      BY <1>0, UpdatedType DEF TypeOK, Tables
    <2>3. db' \in Tables
      BY <1>4, <2>2 DEF UpdateCase, TypeOK, Tables
    <2> QED
      BY <1>4, <2>1, <2>3 DEF UpdateCase, TypeOK
  <1> QED
    BY <1>1, <1>2, <1>3, <1>4

LEMMA OtherStepType ==
  ASSUME TypeOK, RecordsFit, NEW t \in Threads, Hydrate(t) \/ TransactionFails(t) \/ Submit(t)
  PROVE  TypeOK'
  <1>1. CASE Hydrate(t)
    <2>1. db.case \in Case /\ ServerOf[t] \in Servers /\ store[ServerOf[t]] \in Store
      BY HereType DEF TypeOK, Tables, Here
    <2>2. store' = [store EXCEPT ![ServerOf[t]] = [store[ServerOf[t]] EXCEPT !.case = db.case]]
      BY <1>1, <2>1 DEF Hydrate, TypeOK
    <2>3. store' \in [Servers -> Store]
      BY <2>1, <2>2, StoreCaseType DEF TypeOK
    <2> QED
      BY <1>1, <2>3 DEF Hydrate, TypeOK
  <1>2. CASE TransactionFails(t)
    <2>1. /\ act' \in [Threads -> Act]
          /\ \A u \in Threads : act'[u].at # "idle" => act'[u].decision.id \in Decisions
      BY <1>2, EndsType DEF TransactionFails
    <2> QED
      BY <1>2, <2>1 DEF TransactionFails, TypeOK
  <1>3. CASE Submit(t)
    <2>1. [decision |-> Current(t), dossier |-> Here(t).dossier] \in Approval
      BY <1>3, CurrentType, HereType DEF Submit, Approval, Store
    <2>2. overlap' \in BOOLEAN
      BY <1>3 DEF Submit, Overlaps, TypeOK
    <2> QED
      BY <1>3, <2>1, <2>2 DEF Submit, TypeOK
  <1> QED
    BY <1>1, <1>2, <1>3

LEMMA NextType == ASSUME TypeOK, RecordsFit, [Next]_vars PROVE TypeOK'
  <1>1. ASSUME NEW t \in Threads, CreateStep(t) \/ FreezeStep(t) \/ ApproveStep(t) \/ SharedStep(t)
        PROVE  TypeOK'
    BY <1>1, CreateType, FreezeType, ApproveType, StoreStepType, TableStepType, OtherStepType
      DEF CreateStep, FreezeStep, ApproveStep, SharedStep
  <1>2. ASSUME NEW s \in Servers, Restart(s) PROVE TypeOK'
    BY <1>2, EmptyStoreType DEF Restart, TypeOK, Idle
  <1>3. CASE UNCHANGED vars
    BY <1>3 DEF vars, TypeOK
  <1> QED
    BY <1>1, <1>2, <1>3 DEF Next

-----------------------------------------------------------------------------
(* What is frozen stays, and so does what is approved. *)

LEMMA HistoryGrows ==
  ASSUME TypeOK, [Next]_vars
  PROVE  /\ \A n \in DOMAIN dossiers : n \in DOMAIN dossiers' /\ dossiers'[n] = dossiers[n]
         /\ approvals \subseteq approvals'
  <1>1. ASSUME NEW t \in Threads, Freeze(t)
        PROVE  \A n \in DOMAIN dossiers : n \in DOMAIN dossiers' /\ dossiers'[n] = dossiers[n]
    <2> DEFINE dossier == [decision |-> Here(t).decision[Current(t)], case |-> Here(t).case]
    <2>1. UNCHANGED dossiers \/ dossiers' = Append(dossiers, dossier)
      BY <1>1 DEF Freeze
    <2> QED
      BY <2>1 DEF TypeOK
  <1>2. UNCHANGED dossiers \/ \E t \in Threads : Freeze(t)
    BY Zenon DEF Next, vars, CreateStep, FreezeStep, ApproveStep, SharedStep, Restart, Create, SetCase,
      StoreSnapshot, StoreFrozen, PutSnapshot, Approve, StoreApproved, PutApproval, Hydrate,
      PutDecision, UpdateCase, TransactionFails, Submit
  <1>3. approvals \subseteq approvals'
    BY Zenon DEF Next, vars, CreateStep, FreezeStep, ApproveStep, SharedStep, Restart, Create, SetCase,
      StoreSnapshot, StoreFrozen, PutSnapshot, Freeze, Approve, StoreApproved, PutApproval, Hydrate,
      PutDecision, UpdateCase, TransactionFails, Submit
  <1> QED
    BY <1>1, <1>2, <1>3

\* So a record that fits still does after a step.
LEMMA StillFits ==
  ASSUME TypeOK, [Next]_vars, NEW record \in Decision
  PROVE  /\ Fits(record) =>
              (record.status \in {"PENDING_APPROVAL", "APPROVED"}
                 => record.dossier \in DOMAIN dossiers' /\ dossiers'[record.dossier].decision.id = record.id)
         /\ Vouched(record) =>
              (record.status = "APPROVED"
                 => [decision |-> record.id, dossier |-> record.dossier] \in approvals')
  BY HistoryGrows DEF Fits, Vouched

-----------------------------------------------------------------------------
(* What a step does to one record of a process. *)

LEMMA RecordStep ==
  ASSUME TypeOK, [Next]_vars, NEW s \in Servers, NEW d \in Decisions
  PROVE  \/ store'[s].decision[d] = store[s].decision[d]
         \/ store'[s].decision[d] = NoDecision
         \/ store'[s].decision[d] = [id |-> d, status |-> "DRAFT", dossier |-> 0]
         \/ \E t \in Threads : /\ act[t].at = "store_decision" \/ StoreApproved(t)
                               /\ store'[s].decision[d] = act[t].decision
  <1> DEFINE Goal ==
        \/ store'[s].decision[d] = store[s].decision[d]
        \/ store'[s].decision[d] = NoDecision
        \/ store'[s].decision[d] = [id |-> d, status |-> "DRAFT", dossier |-> 0]
        \/ \E t \in Threads : /\ act[t].at = "store_decision" \/ StoreApproved(t)
                              /\ store'[s].decision[d] = act[t].decision
  <1>0. store[s] \in Store /\ d \in DOMAIN store[s].decision
    BY DEF TypeOK, Store
  <1>1. ASSUME NEW t \in Threads, NEW e \in Decisions, Create(t, e) PROVE Goal
    <2> DEFINE draft == [id |-> e, status |-> "DRAFT", dossier |-> 0]
    <2>1. store' = [store EXCEPT ![ServerOf[t]] = [store[ServerOf[t]] EXCEPT !.decision[e] = draft]]
      BY <1>1, HereType DEF Create, TypeOK
    <2>2. CASE s = ServerOf[t] /\ d = e
      BY <1>0, <2>1, <2>2 DEF TypeOK, Store
    <2>3. CASE ~(s = ServerOf[t] /\ d = e)
      BY <1>0, <2>1, <2>3 DEF TypeOK, Store
    <2> QED
      BY <2>2, <2>3
  <1>2. ASSUME NEW t \in Threads, SetCase(t) \/ StoreSnapshot(t) \/ Hydrate(t) PROVE Goal
    <2>1. CASE SetCase(t)
      <3> DEFINE case == [store[ServerOf[t]].case EXCEPT !.decision = act[t].decision.id,
                                                         !.status = "ANALYZED"]
      <3>1. store' = [store EXCEPT ![ServerOf[t]] = [store[ServerOf[t]] EXCEPT !.case = case]]
        BY <2>1, HereType DEF SetCase, TypeOK, Store, Case
      <3>2. store'[s].decision = store[s].decision
        BY <1>0, <3>1 DEF TypeOK, Store
      <3> QED
        BY <3>2
    <2>2. CASE StoreSnapshot(t)
      <3>1. store'[s].decision = store[s].decision
        BY <1>0, <2>2, HereType DEF StoreSnapshot, TypeOK, Store
      <3> QED
        BY <3>1
    <2>3. CASE Hydrate(t)
      <3>1. store'[s].decision = store[s].decision
        BY <1>0, <2>3, HereType DEF Hydrate, TypeOK, Store
      <3> QED
        BY <3>1
    <2> QED
      BY <1>2, <2>1, <2>2, <2>3
  <1>3. ASSUME NEW t \in Threads, StoreFrozen(t) PROVE Goal
    <2>1. store'[s].decision[d] \in {store[s].decision[d], act[t].decision}
      BY <1>0, <1>3, HereType DEF StoreFrozen, TypeOK, Store
    <2> QED
      BY <1>3, <2>1 DEF StoreFrozen
  <1>4. ASSUME NEW t \in Threads, StoreApproved(t) PROVE Goal
    <2>1. store'[s].decision[d] \in {store[s].decision[d], act[t].decision}
      BY <1>0, <1>4, HereType DEF StoreApproved, TypeOK, Store
    <2> QED
      BY <1>4, <2>1
  <1>5. ASSUME NEW r \in Servers, Restart(r) PROVE Goal
    BY <1>0, <1>5 DEF Restart, TypeOK, EmptyStore
  <1>6. CASE UNCHANGED store
    BY <1>6
  <1>7. \/ UNCHANGED store
        \/ \E t \in Threads : \/ \E e \in Decisions : Create(t, e)
                              \/ SetCase(t) \/ StoreSnapshot(t) \/ Hydrate(t)
                              \/ StoreFrozen(t) \/ StoreApproved(t)
        \/ \E r \in Servers : Restart(r)
    BY DEF Next, vars, CreateStep, FreezeStep, ApproveStep, SharedStep, Freeze, PutSnapshot, Approve,
      PutApproval, PutDecision, UpdateCase, TransactionFails, Submit
  <1> QED
    BY <1>1, <1>2, <1>3, <1>4, <1>5, <1>6, <1>7

LEMMA RecordsStayFit ==
  ASSUME TypeOK, RecordsFit, RequestsFit, [Next]_vars
  PROVE  RecordsFit'
  <1> SUFFICES ASSUME NEW s \in Servers, NEW d \in Decisions
               PROVE  LET record == store'[s].decision[d]
                      IN /\ record.status # "absent" => record.id \in Decisions
                         /\ record.status \in {"PENDING_APPROVAL", "APPROVED"}
                              => /\ record.dossier \in DOMAIN dossiers'
                                 /\ dossiers'[record.dossier].decision.id = record.id
                         /\ record.status = "APPROVED"
                              => [decision |-> record.id, dossier |-> record.dossier] \in approvals'
    BY DEF RecordsFit, Fits, Vouched
  <1>1. CASE store'[s].decision[d] = store[s].decision[d]
    <2>1. store[s].decision[d] \in Decision
      BY DEF TypeOK, Store
    <2> QED
      BY <1>1, <2>1, StillFits DEF RecordsFit
  <1>2. CASE store'[s].decision[d] = NoDecision
    BY <1>2 DEF NoDecision
  <1>3. CASE store'[s].decision[d] = [id |-> d, status |-> "DRAFT", dossier |-> 0]
    BY <1>3
  <1>4. ASSUME NEW t \in Threads, act[t].at = "store_decision",
               store'[s].decision[d] = act[t].decision
        PROVE  LET record == act[t].decision
               IN /\ record.status # "absent" => record.id \in Decisions
                  /\ record.status \in {"PENDING_APPROVAL", "APPROVED"}
                       => /\ record.dossier \in DOMAIN dossiers'
                          /\ dossiers'[record.dossier].decision.id = record.id
                  /\ record.status = "APPROVED"
                       => [decision |-> record.id, dossier |-> record.dossier] \in approvals'
    <2>1. act[t].decision \in Decision /\ act[t].decision.id \in Decisions
      BY <1>4 DEF TypeOK, Act
    <2>2. act[t].decision.status = "PENDING_APPROVAL"
      BY <1>4 DEF RequestsFit, StatusOf
    <2>3. Fits(act[t].decision)
      BY <1>4 DEF RequestsFit
    <2> QED
      BY <2>1, <2>2, <2>3, StillFits
  <1>5. ASSUME NEW t \in Threads, StoreApproved(t),
               store'[s].decision[d] = act[t].decision
        PROVE  LET record == act[t].decision
               IN /\ record.status # "absent" => record.id \in Decisions
                  /\ record.status \in {"PENDING_APPROVAL", "APPROVED"}
                       => /\ record.dossier \in DOMAIN dossiers'
                          /\ dossiers'[record.dossier].decision.id = record.id
                  /\ record.status = "APPROVED"
                       => [decision |-> record.id, dossier |-> record.dossier] \in approvals'
    <2>1. act[t].decision \in Decision /\ act[t].decision.id \in Decisions
      BY <1>5 DEF TypeOK, Act, StoreApproved
    <2>2. Fits(act[t].decision) /\ act[t].dossier = act[t].decision.dossier
      BY <1>5 DEF RequestsFit, StoreApproved
    <2>3. Given(t) \in approvals'
      BY <1>5 DEF StoreApproved
    <2> QED
      BY <2>1, <2>2, <2>3, StillFits DEF Given
  <1> QED
    BY <1>1, <1>2, <1>3, <1>4, <1>5, RecordStep

-----------------------------------------------------------------------------
(* What a step does to one request. *)

LEMMA RequestStep ==
  ASSUME TypeOK, RequestsFit, [Next]_vars, NEW u \in Threads, act'[u].at # "idle"
  PROVE  \/ act'[u] = act[u]
         \/ \E at \in Pending \ {"store"} :
              /\ act'[u] = [act[u] EXCEPT !.at = at] /\ act[u].at # "idle"
              /\ at = "store_decision" => act[u].op = "freeze"
              /\ act[u].op = "approve" => act[u].at # "store" \/ Given(u) \in approvals'
         \/ (\E d \in Decisions : Create(u, d)) \/ Freeze(u) \/ Approve(u)
  <1> DEFINE Goal ==
         \/ act'[u] = act[u]
         \/ \E at \in Pending \ {"store"} :
              /\ act'[u] = [act[u] EXCEPT !.at = at] /\ act[u].at # "idle"
              /\ at = "store_decision" => act[u].op = "freeze"
              /\ act[u].op = "approve" => act[u].at # "store" \/ Given(u) \in approvals'
         \/ (\E d \in Decisions : Create(u, d)) \/ Freeze(u) \/ Approve(u)
  <1>0. act \in [Threads -> Act] /\ act[u] \in Act
    BY DEF TypeOK
  <1>1. ASSUME NEW t \in Threads, (\E d \in Decisions : Create(t, d)) \/ Freeze(t) \/ Approve(t)
        PROVE  Goal
    <2>1. CASE t = u
      BY <1>1, <2>1
    <2>2. CASE t # u
      BY <1>0, <1>1, <2>2 DEF Create, Freeze, Approve, Begins
    <2> QED
      BY <2>1, <2>2
  <1>2. ASSUME NEW t \in Threads,
               \/ SetCase(t) \/ StoreSnapshot(t) \/ StoreFrozen(t) \/ PutSnapshot(t)
               \/ StoreApproved(t) \/ PutApproval(t) \/ PutDecision(t)
        PROVE  Goal
    <2>1. CASE t # u
      <3>1. \E at \in Pending : act' = [act EXCEPT ![t].at = at]
        BY <1>0, <1>2 DEF SetCase, StoreSnapshot, StoreFrozen, PutSnapshot, StoreApproved, PutApproval,
          PutDecision, Goes, Pending, AfterPutDecision, TypeOK, Act
      <3> QED
        BY <1>0, <2>1, <3>1
    <2>2. CASE t = u
      <3>1. ASSUME NEW at \in Pending, Goes(u, at) PROVE act'[u] = [act[u] EXCEPT !.at = at]
        BY <1>0, <3>1 DEF Goes
      <3>2. CASE SetCase(u)
        BY <3>1, <3>2 DEF SetCase, Pending
      <3>3. CASE StoreSnapshot(u)
        BY <3>1, <3>3 DEF StoreSnapshot, Pending
      <3>4. CASE StoreFrozen(u)
        BY <3>1, <3>4 DEF StoreFrozen, Pending
      <3>5. CASE PutSnapshot(u)
        BY <3>1, <3>5 DEF PutSnapshot, Pending
      <3>6. CASE StoreApproved(u)
        <4>1. Given(u) \in approvals'
          BY <3>6 DEF StoreApproved
        <4> QED
          BY <3>1, <3>6, <4>1 DEF StoreApproved, Pending
      <3>7. CASE PutApproval(u)
        BY <3>1, <3>7 DEF PutApproval, Pending
      <3>8. CASE PutDecision(u)
        <4>1. AfterPutDecision[act[u].op] \in Pending \ {"store", "store_decision"}
          BY <1>0 DEF AfterPutDecision, Pending, Act
        <4> QED
          BY <3>1, <3>8, <4>1 DEF PutDecision
      <3> QED
        BY <1>2, <2>2, <3>2, <3>3, <3>4, <3>5, <3>6, <3>7, <3>8
    <2> QED
      BY <2>1, <2>2
  <1>3. ASSUME NEW t \in Threads, UpdateCase(t) \/ TransactionFails(t) PROVE Goal
    BY <1>0, <1>3 DEF UpdateCase, TransactionFails, Ends, Idle
  <1>4. ASSUME NEW s \in Servers, Restart(s) PROVE Goal
    BY <1>0, <1>4 DEF Restart, Idle
  <1>5. CASE UNCHANGED act
    BY <1>5
  <1>6. \/ UNCHANGED act
        \/ \E t \in Threads :
             \/ (\E d \in Decisions : Create(t, d)) \/ Freeze(t) \/ Approve(t)
             \/ SetCase(t) \/ StoreSnapshot(t) \/ StoreFrozen(t) \/ PutSnapshot(t)
             \/ StoreApproved(t) \/ PutApproval(t) \/ PutDecision(t)
             \/ UpdateCase(t) \/ TransactionFails(t)
        \/ \E s \in Servers : Restart(s)
    BY DEF Next, vars, CreateStep, FreezeStep, ApproveStep, SharedStep, Hydrate, Submit
  <1> QED
    BY <1>1, <1>2, <1>3, <1>4, <1>5, <1>6

LEMMA RequestsStayFit ==
  ASSUME TypeOK, RecordsFit, RequestsFit, [Next]_vars
  PROVE  RequestsFit'
  <1> DEFINE Goal(request) ==
        /\ request.decision.status = StatusOf[request.op]
        /\ request.decision.status \in {"PENDING_APPROVAL", "APPROVED"}
             => /\ request.decision.dossier \in DOMAIN dossiers'
                /\ dossiers'[request.decision.dossier].decision.id = request.decision.id
        /\ request.op = "approve"
             => /\ request.dossier = request.decision.dossier
                /\ request.at # "store"
                     => [decision |-> request.decision.id, dossier |-> request.dossier] \in approvals'
        /\ request.at = "store_decision" => request.op = "freeze"
  <1> SUFFICES ASSUME NEW u \in Threads, act'[u].at # "idle"
               PROVE  Goal(act'[u])
    BY DEF RequestsFit, Fits, Given, StatusOf
  <1>0. act[u] \in Act /\ act[u].decision \in Decision
    BY DEF TypeOK, Act
  <1>1. CASE act'[u] = act[u]
    <2>1. act[u].at # "idle"
      BY <1>1
    <2> QED
      BY <1>0, <1>1, <2>1, StillFits, HistoryGrows DEF RequestsFit, Given
  <1>2. ASSUME NEW at \in Pending \ {"store"},
               act'[u] = [act[u] EXCEPT !.at = at], act[u].at # "idle",
               at = "store_decision" => act[u].op = "freeze",
               act[u].op = "approve" => act[u].at # "store" \/ Given(u) \in approvals'
        PROVE  Goal(act'[u])
    <2>1. /\ act'[u].at = at /\ act'[u].op = act[u].op
          /\ act'[u].decision = act[u].decision /\ act'[u].dossier = act[u].dossier
      BY <1>0, <1>2 DEF Act
    <2>2. act[u].op = "approve" => Given(u) \in approvals'
      BY <1>2, HistoryGrows DEF RequestsFit
    <2> QED
      BY <1>0, <1>2, <2>1, <2>2, StillFits DEF RequestsFit, Given
  <1>3. ASSUME NEW d \in Decisions, Create(u, d)
        PROVE  Goal(act'[u])
    <2>1. act'[u] = [at |-> "put_decision", op |-> "create",
                     decision |-> [id |-> d, status |-> "DRAFT", dossier |-> 0], dossier |-> 0]
      BY <1>3 DEF Create, Begins, TypeOK
    <2> QED
      BY <2>1 DEF StatusOf
  <1>4. CASE Freeze(u)
    <2> DEFINE decision == Here(u).decision[Current(u)]
               dossier == [decision |-> decision, case |-> Here(u).case]
    <2>1. PICK n \in 1..MaxDossiers :
            /\ \/ FrozenAs(dossier, n) /\ UNCHANGED dossiers
               \/ n = Len(dossiers) + 1 /\ dossiers' = Append(dossiers, dossier)
            /\ Begins(u, "freeze", "store", Frozen(decision, n), n)
      BY <1>4 DEF Freeze
    <2>2. n \in DOMAIN dossiers' /\ dossiers'[n] = dossier
      BY <2>1 DEF FrozenAs, TypeOK
    <2>3. decision \in Decision
      BY <1>4, CurrentType DEF Freeze
    <2>4. /\ Frozen(decision, n).id = decision.id /\ Frozen(decision, n).dossier = n
          /\ Frozen(decision, n).status = "PENDING_APPROVAL"
      BY <2>3 DEF Frozen, Decision
    <2>5. act'[u] = [at |-> "store", op |-> "freeze", decision |-> Frozen(decision, n), dossier |-> n]
      BY <2>1 DEF Begins, TypeOK
    <2> QED
      BY <2>2, <2>4, <2>5 DEF StatusOf
  <1>5. CASE Approve(u)
    <2> DEFINE decision == Here(u).decision[Current(u)]
    <2>1. decision \in Decision /\ Fits(decision)
      BY <1>5, CurrentType, HereType DEF Approve, RecordsFit, Here
    <2>2. decision.status = "PENDING_APPROVAL" /\ decision.dossier = Here(u).dossier
      BY <1>5 DEF Approve, Approvable
    <2>3. act'[u] = [at |-> "store", op |-> "approve",
                     decision |-> [decision EXCEPT !.status = "APPROVED"], dossier |-> Here(u).dossier]
      BY <1>5 DEF Approve, Begins, TypeOK
    <2>4. /\ act'[u].decision.id = decision.id /\ act'[u].decision.dossier = decision.dossier
          /\ act'[u].decision.status = "APPROVED"
      BY <2>1, <2>3 DEF Decision
    <2>5. UNCHANGED dossiers
      BY <1>5 DEF Approve
    <2> QED
      BY <2>1, <2>2, <2>3, <2>4, <2>5 DEF Fits, StatusOf
  <1> HIDE DEF Goal
  <1> QED
    BY <1>1, <1>2, <1>3, <1>4, <1>5, RequestStep

-----------------------------------------------------------------------------
(* The invariant. *)

LEMMA ApprovalsStayFit ==
  ASSUME TypeOK, RequestsFit, ApprovalsFitDossiers, [Next]_vars
  PROVE  ApprovalsFitDossiers'
  <1>1. ASSUME NEW t \in Threads, StoreApproved(t)
        PROVE  ApprovalsFitDossiers'
    <2>1. Fits(act[t].decision) /\ act[t].decision.status = "APPROVED"
          /\ act[t].dossier = act[t].decision.dossier
      BY <1>1 DEF StoreApproved, RequestsFit, StatusOf
    <2>2. Given(t).dossier \in DOMAIN dossiers
          /\ dossiers[Given(t).dossier].decision.id = Given(t).decision
      BY <2>1 DEF Fits, Given
    <2>3. approvals' = approvals \cup {Given(t)} /\ UNCHANGED dossiers
      BY <1>1 DEF StoreApproved
    <2> QED
      BY <2>2, <2>3 DEF ApprovalsFitDossiers
  <1>2. CASE UNCHANGED approvals
    BY <1>2, HistoryGrows DEF ApprovalsFitDossiers
  <1>3. UNCHANGED approvals \/ \E t \in Threads : StoreApproved(t)
    BY Zenon DEF Next, vars, CreateStep, FreezeStep, ApproveStep, SharedStep, Restart, Create, SetCase,
      StoreSnapshot, StoreFrozen, PutSnapshot, Freeze, Approve, PutApproval, Hydrate,
      PutDecision, UpdateCase, TransactionFails, Submit
  <1> QED
    BY <1>1, <1>2, <1>3

LEMMA TableStaysOnRecord ==
  ASSUME TypeOK, RequestsFit, ApprovedOnRecord, [Next]_vars
  PROVE  ApprovedOnRecord'
  <1> SUFFICES ASSUME NEW d \in Decisions, db'.decision[d].status = "APPROVED"
               PROVE  [decision |-> d, dossier |-> db'.decision[d].dossier] \in approvals'
    BY DEF ApprovedOnRecord
  <1>1. CASE db'.decision[d] = db.decision[d]
    BY <1>1, HistoryGrows DEF ApprovedOnRecord
  <1>2. ASSUME NEW t \in Threads, PutDecision(t), db'.decision[d] # db.decision[d]
        PROVE  [decision |-> d, dossier |-> db'.decision[d].dossier] \in approvals'
    <2>1. act[t].decision.id = d /\ db'.decision[d] = act[t].decision
      BY <1>2 DEF PutDecision, TypeOK, Tables
    <2>2. act[t] \in Act /\ act[t].op = "approve"
      BY <1>2, <2>1 DEF PutDecision, RequestsFit, StatusOf, TypeOK, Act
    <2>3. act[t].dossier = act[t].decision.dossier /\ Given(t) \in approvals
      BY <1>2, <2>2 DEF PutDecision, RequestsFit
    <2> QED
      BY <2>1, <2>3, HistoryGrows DEF Given
  <1>3. db'.decision[d] = db.decision[d] \/ \E t \in Threads : PutDecision(t)
    <2>1. \/ UNCHANGED db
          \/ \E t \in Threads : PutDecision(t) \/ PutSnapshot(t) \/ PutApproval(t) \/ UpdateCase(t)
      BY Zenon DEF Next, vars, CreateStep, FreezeStep, ApproveStep, SharedStep, Restart, Create, SetCase,
        StoreSnapshot, StoreFrozen, Freeze, Approve, StoreApproved, Hydrate, TransactionFails, Submit
    <2> QED
      BY <2>1 DEF PutSnapshot, PutApproval, UpdateCase, TypeOK, Tables
  <1> QED
    BY <1>1, <1>2, <1>3

LEMMA FitInvInductive == FitInv /\ [Next]_vars => FitInv'
  BY NextType, RecordsStayFit, RequestsStayFit, ApprovalsStayFit, TableStaysOnRecord DEF FitInv

LEMMA FitInvInitially == Init => FitInv
  <1> SUFFICES ASSUME Init PROVE FitInv
    OBVIOUS
  <1>1. TypeOK
    BY InitType
  <1>2. RecordsFit
    <2>1. \A s \in Servers, d \in Decisions : store[s].decision[d] = NoDecision
      BY DEF Init, EmptyStore
    <2>2. NoDecision.status = "absent"
      BY DEF NoDecision
    <2> QED
      BY <2>1, <2>2 DEF RecordsFit, Fits, Vouched
  <1>3. RequestsFit
    BY DEF Init, RequestsFit, Idle
  <1>4. ApprovalsFitDossiers /\ ApprovedOnRecord
    BY DEF Init, ApprovalsFitDossiers, ApprovedOnRecord, EmptyStore, NoDecision
  <1> QED
    BY <1>1, <1>2, <1>3, <1>4 DEF FitInv

\* The invariant holds in every state: records of pending and approved
\* decisions and the requests that carry them always fit what was frozen.
THEOREM FitInvariant == Spec => []FitInv
  BY FitInvInitially, FitInvInductive, PTL DEF Spec

\* The variables of the approval path have their types in every state: no
\* request leaves a record of another shape in a process or in a table.
THEOREM TypeCorrect == Spec => []TypeOK
  <1>1. FitInv => TypeOK
    BY DEF FitInv
  <1> QED
    BY <1>1, FitInvariant, PTL

\* approve_decision compares the hashes of a decision and of a snapshot it
\* reads from two dictionaries that other threads write: what it approves is
\* nevertheless always a dossier of the decision it approves.
THEOREM ApprovalsCoverTheirDecision == Spec => []ApprovalsFitDossiers
  <1>1. FitInv => ApprovalsFitDossiers
    BY DEF FitInv
  <1> QED
    BY <1>1, FitInvariant, PTL

\* put_decision writes an approved row only for an approval that was given,
\* whatever requests overlap, transactions fail or processes restart.
THEOREM TableApprovalsWereGiven == Spec => []ApprovedOnRecord
  <1>1. FitInv => ApprovedOnRecord
    BY DEF FitInv
  <1> QED
    BY <1>1, FitInvariant, PTL

-----------------------------------------------------------------------------
(* While no two requests overlap in a process.                             *)
(*                                                                         *)
(* That a new draft takes no identifier a case already points to holds     *)
(* whatever overlaps: a case points to a decision once the table has it.   *)

Tabled(d) == db.decision[d].status # "absent"

CasesPoint ==
  /\ db.case.status # "absent"
  /\ db.case.decision # None => Tabled(db.case.decision)
  /\ \A s \in Servers :
       /\ store[s].case.decision # None => Tabled(store[s].case.decision)
       /\ store[s].case.status = "absent" => store[s] = EmptyStore
  /\ \A t \in Threads :
       /\ act[t].at # "idle" => Here(t).case.status # "absent"
       /\ act[t].at = "set_case" => Tabled(act[t].decision.id)

\* A process has every record under its own identifier.  The record its case
\* points to is approved if the case is ready, and an approved one has the
\* dossier of the process, but for the moment a new dossier is being stored.
InStep(row, storing) ==
  LET current == row.case.decision
      record == row.decision[current]
  IN /\ \A d \in Decisions : row.decision[d].status # "absent" => row.decision[d].id = d
     /\ current # None /\ row.case.status = "READY_TO_SUBMIT" /\ record.status # "absent"
          => record.status = "APPROVED"
     /\ current # None /\ record.status = "APPROVED" /\ ~storing
          => record.dossier = row.dossier

Storing(s) == \E t \in Threads : ServerOf[t] = s /\ act[t].at = "store_decision"

\* What a request has in hand is still what its process has.
UpToDate(request, row) ==
  /\ request.at \in {"store", "store_decision"} => row.case.decision = request.decision.id
  /\ request.at = "store" /\ request.op = "approve" => request.dossier = row.dossier
  /\ request.at = "put_snapshot" => request.op = "freeze"
  /\ request.at = "set_case" \/ (request.at = "put_decision" /\ request.op = "create")
       => row.decision[request.decision.id].status = "DRAFT"

Alone == \A t, u \in Threads : ServerOf[t] = ServerOf[u] /\ act[t].at # "idle" /\ act[u].at # "idle" => t = u

SequentialInv ==
  \/ overlap
  \/ /\ Alone
     /\ SubmissionsAreApproved
     /\ \A s \in Servers : InStep(store[s], Storing(s))
     /\ \A t \in Threads : UpToDate(act[t], Here(t))

-----------------------------------------------------------------------------
(* What each step leaves in the process. *)

\* The rest of the processes is as it was.
Only(s) == \A r \in Servers \ {s} : store'[r] = store[r]

LEMMA RowAfterCreate ==
  ASSUME TypeOK, NEW t \in Threads, NEW d \in Decisions, Create(t, d), NEW s, s = ServerOf[t]
  PROVE  /\ store'[s].case = store[s].case /\ store'[s].dossier = store[s].dossier
         /\ store'[s].decision = [store[s].decision EXCEPT ![d] = [id |-> d, status |-> "DRAFT", dossier |-> 0]]
         /\ Only(s)
  BY HereType DEF Create, TypeOK, Store, Only

LEMMA RowAfterSetCase ==
  ASSUME TypeOK, NEW t \in Threads, SetCase(t), NEW s, s = ServerOf[t]
  PROVE  /\ store'[s].case = [store[s].case EXCEPT !.decision = act[t].decision.id, !.status = "ANALYZED"]
         /\ store'[s].case.decision = act[t].decision.id /\ store'[s].case.status = "ANALYZED"
         /\ store'[s].decision = store[s].decision /\ store'[s].dossier = store[s].dossier
         /\ Only(s)
  <1>1. /\ s \in Servers /\ store \in [Servers -> Store] /\ store[s] \in Store
        /\ store[s].case \in Case
    BY HereType DEF TypeOK, Here, Store
  <1> DEFINE case == [store[s].case EXCEPT !.decision = act[t].decision.id, !.status = "ANALYZED"]
  <1>2. store' = [store EXCEPT ![s] = [store[s] EXCEPT !.case = case]]
    BY <1>1 DEF SetCase, Store, Case
  <1>3. case.decision = act[t].decision.id /\ case.status = "ANALYZED"
    BY <1>1 DEF Case
  <1> HIDE DEF case
  <1>4. store'[s].case = case /\ store'[s].decision = store[s].decision /\ store'[s].dossier = store[s].dossier
    BY <1>1, <1>2 DEF Store
  <1>5. Only(s)
    BY <1>1, <1>2 DEF Only
  <1> QED
    BY <1>3, <1>4, <1>5 DEF case

LEMMA RowAfterSnapshot ==
  ASSUME TypeOK, NEW t \in Threads, StoreSnapshot(t), NEW s, s = ServerOf[t]
  PROVE  /\ store'[s].case = store[s].case /\ store'[s].decision = store[s].decision
         /\ store'[s].dossier = act[t].dossier
         /\ Only(s)
  BY HereType DEF StoreSnapshot, TypeOK, Store, Only

LEMMA RowAfterFrozen ==
  ASSUME TypeOK, NEW t \in Threads, StoreFrozen(t), NEW s, s = ServerOf[t]
  PROVE  /\ store'[s].case.decision = store[s].case.decision
         /\ store'[s].case.status = "HUMAN_REVIEW"
         /\ store'[s].decision = [store[s].decision EXCEPT ![Current(t)] = act[t].decision]
         /\ store'[s].dossier = store[s].dossier
         /\ Only(s)
  <1>1. /\ s \in Servers /\ store \in [Servers -> Store] /\ store[s] \in Store
        /\ store[s].case \in Case
    BY HereType DEF TypeOK, Here, Store
  <1> DEFINE case == CaseFrozen(store[s].case, act[t].dossier)
             first == [store[s] EXCEPT !.decision[Current(t)] = act[t].decision]
  <1>2. store' = [store EXCEPT ![s] = [first EXCEPT !.case = case]]
    BY <1>1 DEF StoreFrozen, Store
  <1>3. case.decision = store[s].case.decision /\ case.status = "HUMAN_REVIEW"
    BY <1>1 DEF CaseFrozen, Case
  <1>4. store'[s] = [first EXCEPT !.case = case] /\ Only(s)
    BY <1>1, <1>2 DEF Only
  <1> HIDE DEF case
  <1>5. /\ store'[s].case = case /\ store'[s].dossier = store[s].dossier
        /\ store'[s].decision = [store[s].decision EXCEPT ![Current(t)] = act[t].decision]
    BY <1>1, <1>4 DEF Store
  <1> QED
    BY <1>3, <1>4, <1>5

LEMMA RowAfterApproved ==
  ASSUME TypeOK, NEW t \in Threads, StoreApproved(t), NEW s, s = ServerOf[t]
  PROVE  /\ store'[s].case.decision = store[s].case.decision
         /\ store'[s].case.status = "READY_TO_SUBMIT"
         /\ store'[s].decision = [store[s].decision EXCEPT ![Current(t)] = act[t].decision]
         /\ store'[s].dossier = store[s].dossier
         /\ Only(s)
  <1>1. /\ s \in Servers /\ store \in [Servers -> Store] /\ store[s] \in Store
        /\ store[s].case \in Case
    BY HereType DEF TypeOK, Here, Store
  <1> DEFINE case == [store[s].case EXCEPT !.status = "READY_TO_SUBMIT"]
             first == [store[s] EXCEPT !.decision[Current(t)] = act[t].decision]
  <1>2. store' = [store EXCEPT ![s] = [first EXCEPT !.case = case]]
    BY <1>1 DEF StoreApproved, Store, Case
  <1>3. case.decision = store[s].case.decision /\ case.status = "READY_TO_SUBMIT"
    BY <1>1 DEF Case
  <1>4. store'[s] = [first EXCEPT !.case = case] /\ Only(s)
    BY <1>1, <1>2 DEF Only
  <1> HIDE DEF case
  <1>5. /\ store'[s].case = case /\ store'[s].dossier = store[s].dossier
        /\ store'[s].decision = [store[s].decision EXCEPT ![Current(t)] = act[t].decision]
    BY <1>1, <1>4 DEF Store
  <1> QED
    BY <1>3, <1>4, <1>5

LEMMA RowAfterHydrate ==
  ASSUME TypeOK, NEW t \in Threads, Hydrate(t), NEW s, s = ServerOf[t]
  PROVE  /\ store'[s].case = db.case
         /\ store'[s].decision = store[s].decision /\ store'[s].dossier = store[s].dossier
         /\ Only(s)
  BY HereType DEF Hydrate, TypeOK, Store, Only

-----------------------------------------------------------------------------
(* Cases point to decisions the table has. *)

LEMMA TableKeeps ==
  ASSUME TypeOK, RequestsFit, [Next]_vars, NEW d \in Decisions, Tabled(d)
  PROVE  Tabled(d)'
  <1>1. ASSUME NEW t \in Threads, PutDecision(t) PROVE Tabled(d)'
    <2>1. act[t] \in Act /\ act[t].decision.status = StatusOf[act[t].op]
      BY <1>1 DEF PutDecision, RequestsFit, TypeOK
    <2>2. act[t].decision.status # "absent"
      BY <2>1 DEF StatusOf, Act
    <2>3. db'.decision[d] \in {db.decision[d], act[t].decision}
      BY <1>1 DEF PutDecision, TypeOK, Tables
    <2> QED
      BY <2>2, <2>3 DEF Tabled
  <1>2. ASSUME NEW t \in Threads, PutSnapshot(t) \/ PutApproval(t) \/ UpdateCase(t) PROVE Tabled(d)'
    BY <1>2 DEF PutSnapshot, PutApproval, UpdateCase, TypeOK, Tables, Tabled
  <1>3. \/ UNCHANGED db
        \/ \E t \in Threads : PutDecision(t) \/ PutSnapshot(t) \/ PutApproval(t) \/ UpdateCase(t)
    BY Zenon DEF Next, vars, CreateStep, FreezeStep, ApproveStep, SharedStep, Restart, Create, SetCase,
      StoreSnapshot, StoreFrozen, Freeze, Approve, StoreApproved, Hydrate, TransactionFails, Submit
  <1> QED
    BY <1>1, <1>2, <1>3 DEF Tabled

\* What a process takes as its case.
LEMMA CaseStep ==
  ASSUME TypeOK, CasesPoint, [Next]_vars, NEW s \in Servers
  PROVE  /\ \/ store'[s].case.decision = store[s].case.decision
            \/ store'[s].case.decision = None
            \/ store'[s].case.decision = db.case.decision
            \/ \E t \in Threads : act[t].at = "set_case" /\ store'[s].case.decision = act[t].decision.id
         /\ store'[s].case.status = "absent" => store'[s] = EmptyStore
         /\ store[s].case.status # "absent" => store'[s].case.status # "absent" \/ Restart(s)
  <1> DEFINE Goal ==
         /\ \/ store'[s].case.decision = store[s].case.decision
            \/ store'[s].case.decision = None
            \/ store'[s].case.decision = db.case.decision
            \/ \E t \in Threads : act[t].at = "set_case" /\ store'[s].case.decision = act[t].decision.id
         /\ store'[s].case.status = "absent" => store'[s] = EmptyStore
         /\ store[s].case.status # "absent" => store'[s].case.status # "absent" \/ Restart(s)
  <1>1. CASE store'[s] = store[s]
    BY <1>1 DEF CasesPoint
  <1>2. ASSUME NEW t \in Threads, \/ SetCase(t) \/ StoreSnapshot(t) \/ StoreFrozen(t) \/ StoreApproved(t)
                                  \/ Hydrate(t) \/ \E d \in Decisions : Create(t, d)
        PROVE  Goal
    <2>1. CASE s # ServerOf[t]
      <3>1. Only(ServerOf[t])
        BY <1>2, RowAfterSetCase, RowAfterSnapshot, RowAfterFrozen, RowAfterApproved, RowAfterHydrate,
          RowAfterCreate
      <3> QED
        BY <1>1, <2>1, <3>1 DEF Only
    <2>2. CASE s = ServerOf[t]
      <3>1. CASE SetCase(t)
        <4>1. act[t].at = "set_case"
          BY <3>1 DEF SetCase
        <4>2. store'[s].case.decision = act[t].decision.id /\ store'[s].case.status = "ANALYZED"
          BY <2>2, <3>1, RowAfterSetCase
        <4> QED
          BY <4>1, <4>2
      <3>2. CASE StoreFrozen(t)
        BY <2>2, <3>2, RowAfterFrozen
      <3>3. CASE StoreApproved(t)
        BY <2>2, <3>3, RowAfterApproved
      <3>4. CASE Hydrate(t)
        BY <2>2, <3>4, RowAfterHydrate DEF CasesPoint
      <3>5. CASE StoreSnapshot(t) \/ \E d \in Decisions : Create(t, d)
        <4>1. store'[s].case = store[s].case
          BY <2>2, <3>5, RowAfterSnapshot, RowAfterCreate
        <4>2. store[s].case.status # "absent"
          BY <2>2, <3>5 DEF StoreSnapshot, Create, Serves, CasesPoint, Here
        <4> QED
          BY <4>1, <4>2
      <3> QED
        BY <1>2, <3>1, <3>2, <3>3, <3>4, <3>5
    <2> QED
      BY <2>1, <2>2
  <1>3. ASSUME NEW r \in Servers, Restart(r) PROVE Goal
    <2>1. CASE r = s
      BY <1>3, <2>1 DEF Restart, TypeOK, EmptyStore, NoCase
    <2>2. CASE r # s
      BY <1>1, <1>3, <2>2 DEF Restart, TypeOK
    <2> QED
      BY <2>1, <2>2
  <1>4. \/ UNCHANGED store
        \/ \E t \in Threads : \/ SetCase(t) \/ StoreSnapshot(t) \/ StoreFrozen(t) \/ StoreApproved(t)
                              \/ Hydrate(t) \/ \E d \in Decisions : Create(t, d)
        \/ \E r \in Servers : Restart(r)
    BY DEF Next, vars, CreateStep, FreezeStep, ApproveStep, SharedStep, Freeze, PutSnapshot, Approve,
      PutApproval, PutDecision, UpdateCase, TransactionFails, Submit
  <1> QED
    BY <1>1, <1>2, <1>3, <1>4

LEMMA ToSetCase ==
  ASSUME TypeOK, RequestsFit, [Next]_vars, NEW u \in Threads, act'[u].at = "set_case"
  PROVE  /\ act'[u].decision = act[u].decision
         /\ act[u].at = "set_case" \/ (PutDecision(u) /\ act[u].op = "create")
  <1> DEFINE Goal == /\ act'[u].decision = act[u].decision
                     /\ act[u].at = "set_case" \/ (PutDecision(u) /\ act[u].op = "create")
  <1>0. act \in [Threads -> Act] /\ act[u] \in Act
    BY DEF TypeOK
  <1>1. ASSUME NEW t \in Threads, NEW op, NEW at \in {"put_decision", "store"}, NEW r, NEW n,
               Begins(t, op, at, r, n)
        PROVE  Goal
    BY <1>0, <1>1 DEF Begins
  <1>2. ASSUME NEW t \in Threads, (\E d \in Decisions : Create(t, d)) \/ Freeze(t) \/ Approve(t)
        PROVE  Goal
    <2>1. \E op, r, n : \E at \in {"put_decision", "store"} : Begins(t, op, at, r, n)
      BY <1>2 DEF Create, Freeze, Approve
    <2> QED
      BY <1>1, <2>1
  <1>3. ASSUME NEW t \in Threads,
               \/ SetCase(t) \/ StoreSnapshot(t) \/ StoreFrozen(t) \/ PutSnapshot(t)
               \/ StoreApproved(t) \/ PutApproval(t)
        PROVE  Goal
    <2>1. PICK at \in Pending \ {"set_case"} : Goes(t, at)
      BY <1>3 DEF SetCase, StoreSnapshot, StoreFrozen, PutSnapshot, StoreApproved, PutApproval, Pending
    <2> QED
      BY <1>0, <2>1 DEF Goes, Act
  <1>4. ASSUME NEW t \in Threads, PutDecision(t)
        PROVE  Goal
    <2>1. CASE t # u
      BY <1>0, <1>4, <2>1 DEF PutDecision, Goes
    <2>2. CASE t = u
      <3>1. act'[u].decision = act[u].decision /\ act'[u].at = AfterPutDecision[act[u].op]
        BY <1>0, <1>4, <2>2 DEF PutDecision, Goes, Act
      <3>2. act[u].op = "create"
        BY <1>0, <3>1 DEF AfterPutDecision, Act
      <3> QED
        BY <1>4, <2>2, <3>1, <3>2
    <2> QED
      BY <2>1, <2>2
  <1>5. ASSUME NEW t \in Threads, UpdateCase(t) \/ TransactionFails(t) PROVE Goal
    BY <1>0, <1>5 DEF UpdateCase, TransactionFails, Ends, Idle
  <1>6. ASSUME NEW s \in Servers, Restart(s) PROVE Goal
    BY <1>0, <1>6 DEF Restart, Idle
  <1>7. CASE UNCHANGED act
    BY <1>7
  <1>8. \/ UNCHANGED act
        \/ \E t \in Threads :
             \/ (\E d \in Decisions : Create(t, d)) \/ Freeze(t) \/ Approve(t)
             \/ SetCase(t) \/ StoreSnapshot(t) \/ StoreFrozen(t) \/ PutSnapshot(t)
             \/ StoreApproved(t) \/ PutApproval(t) \/ PutDecision(t)
             \/ UpdateCase(t) \/ TransactionFails(t)
        \/ \E s \in Servers : Restart(s)
    BY DEF Next, vars, CreateStep, FreezeStep, ApproveStep, SharedStep, Hydrate, Submit
  <1> QED
    BY <1>2, <1>3, <1>4, <1>5, <1>6, <1>7, <1>8

LEMMA CasesStayPointed ==
  ASSUME TypeOK, RecordsFit, RequestsFit, CasesPoint, [Next]_vars
  PROVE  CasesPoint'
  <1>0. /\ db.case \in Case
        /\ \A s \in Servers : store[s].case \in Case
        /\ \A t \in Threads : act[t].at # "idle" => act[t].decision.id \in Decisions
    BY DEF TypeOK, Tables, Store
  <1>1. \A d \in Decisions : Tabled(d) => Tabled(d)'
    BY TableKeeps
  <1>2. \/ db'.case = db.case
        \/ \E t \in Threads : /\ act[t].at # "idle"
                              /\ db'.case.status = Here(t).case.status
                              /\ db'.case.decision \in {db.case.decision, Here(t).case.decision}
    <2>1. ASSUME NEW t \in Threads, UpdateCase(t)
          PROVE  /\ act[t].at # "idle"
                 /\ db'.case.status = Here(t).case.status
                 /\ db'.case.decision \in {db.case.decision, Here(t).case.decision}
      <3>1. act[t].at # "idle" /\ act[t].op \in {"create", "freeze", "approve"}
        BY <2>1 DEF UpdateCase, TypeOK, Act
      <3>2. Here(t).case \in Case
        BY HereType DEF Store
      <3>3. db'.case = Updated(db.case, Here(t).case, act[t].op)
        BY <2>1 DEF UpdateCase, TypeOK, Tables
      <3>4. ASSUME NEW op \in {"create", "freeze", "approve"}, NEW seen \in Case
            PROVE  /\ Updated(db.case, seen, op).status = seen.status
                   /\ Updated(db.case, seen, op).decision \in {db.case.decision, seen.decision}
        BY <1>0 DEF Updated, Case
      <3> QED
        BY <3>1, <3>2, <3>3, <3>4
    <2>2. \/ UNCHANGED db
          \/ \E t \in Threads : PutDecision(t) \/ PutSnapshot(t) \/ PutApproval(t) \/ UpdateCase(t)
      BY Zenon DEF Next, vars, CreateStep, FreezeStep, ApproveStep, SharedStep, Restart, Create, SetCase,
        StoreSnapshot, StoreFrozen, Freeze, Approve, StoreApproved, Hydrate, TransactionFails, Submit
    <2>3. ASSUME NEW t \in Threads, PutDecision(t) \/ PutSnapshot(t) \/ PutApproval(t)
          PROVE  db'.case = db.case
      BY <2>3 DEF PutDecision, PutSnapshot, PutApproval, TypeOK, Tables
    <2> QED
      BY <2>1, <2>2, <2>3
  <1>3. \A t \in Threads : act[t].at # "idle" => Here(t).case.status # "absent"
    BY DEF CasesPoint
  <1>4. \A s \in Servers : store[s].case.decision # None => Tabled(store[s].case.decision)
    BY DEF CasesPoint
  <1>5. db'.case.status # "absent"
    BY <1>2, <1>3 DEF CasesPoint
  <1>6. db'.case.decision # None => Tabled(db'.case.decision)
    <2>1. \A t \in Threads : Here(t).case.decision # None => Tabled(Here(t).case.decision)
      BY <1>4, HereType DEF Here
    <2> QED
      BY <1>2, <2>1 DEF CasesPoint
  <1>7. ASSUME NEW s \in Servers
        PROVE  store'[s].case.decision # None => Tabled(store'[s].case.decision)
    BY <1>4, CaseStep DEF CasesPoint
  <1>8. ASSUME NEW d \in Decisions \cup {None}, d # None => Tabled(d)
        PROVE  d # None => db'.decision[d].status # "absent"
    BY <1>1, <1>8 DEF Tabled
  <1>9. TypeOK'
    BY NextType
  <1>10. db'.case.decision # None => db'.decision[db'.case.decision].status # "absent"
    <2>1. db'.case.decision \in Decisions \cup {None}
      BY <1>9 DEF TypeOK, Tables, Case
    <2> QED
      BY <1>6, <1>8, <2>1
  <1>11. ASSUME NEW s \in Servers
         PROVE  /\ store'[s].case.decision # None => db'.decision[store'[s].case.decision].status # "absent"
                /\ store'[s].case.status = "absent" => store'[s] = EmptyStore
    <2>1. store'[s].case.decision \in Decisions \cup {None}
      BY <1>9 DEF TypeOK, Store, Case
    <2> QED
      BY <1>7, <1>8, <2>1, CaseStep
  <1>12. ASSUME NEW u \in Threads, act'[u].at # "idle"
         PROVE  store'[ServerOf[u]].case.status # "absent"
    <2>1. ~Restart(ServerOf[u])
      BY <1>12 DEF Restart, Idle
    <2>2. act[u].at # "idle" \/ Serves(u)
      BY <1>12, RequestStep DEF Create, Freeze, Approve
    <2>3. store[ServerOf[u]].case.status # "absent"
      BY <1>3, <2>2 DEF Serves, Here
    <2> QED
      BY <2>1, <2>3, CaseStep, HereType
  <1>13. ASSUME NEW u \in Threads, act'[u].at = "set_case"
         PROVE  db'.decision[act'[u].decision.id].status # "absent"
    <2>1. act'[u].decision = act[u].decision
      BY <1>13, ToSetCase
    <2>2. CASE act[u].at = "set_case"
      <3>1. Tabled(act[u].decision.id)
        BY <2>2 DEF CasesPoint
      <3> QED
        BY <1>0, <1>1, <2>1, <2>2, <3>1 DEF Tabled
    <2>3. CASE PutDecision(u)
      <3>1. act[u] \in Act /\ act[u].decision.status = StatusOf[act[u].op]
        BY <2>3 DEF PutDecision, RequestsFit, TypeOK
      <3>2. act[u].decision.status # "absent"
        BY <3>1 DEF StatusOf, Act
      <3>3. act[u].decision.id \in Decisions
        BY <2>3, <1>0 DEF PutDecision
      <3>4. db'.decision[act[u].decision.id] = act[u].decision
        BY <2>3, <3>3 DEF PutDecision, TypeOK, Tables
      <3> QED
        BY <2>1, <3>2, <3>4
    <2> QED
      BY <1>13, <2>2, <2>3, ToSetCase
  <1> QED
    BY <1>5, <1>10, <1>11, <1>12, <1>13 DEF CasesPoint, Tabled, Here, EmptyStore, NoDecision, NoCase

-----------------------------------------------------------------------------
(* A process whose requests come one at a time. *)

LEMMA EmptyInStep ==
  ASSUME NEW row, row.decision = EmptyStore.decision, row.case.decision \in Decisions \cup {None},
         NEW storing \in BOOLEAN
  PROVE  InStep(row, storing)
  <1>1. \A d \in Decisions : row.decision[d] = NoDecision
    BY DEF EmptyStore
  <1>2. NoDecision.status = "absent"
    BY DEF NoDecision
  <1> QED
    BY <1>1, <1>2 DEF InStep

\* The request of thread t and its process, s, in step before and after.
Before(t, s) == InStep(store[s], act[t].at = "store_decision") /\ UpToDate(act[t], store[s])
After(t, s) == InStep(store'[s], act'[t].at = "store_decision") /\ UpToDate(act'[t], store'[s])

LEMMA Goals ==
  ASSUME TypeOK, NEW t \in Threads, NEW at, Goes(t, at)
  PROVE  /\ act'[t].at = at /\ act'[t].op = act[t].op
         /\ act'[t].decision = act[t].decision /\ act'[t].dossier = act[t].dossier
  BY DEF Goes, TypeOK, Act

LEMMA Types ==
  ASSUME TypeOK, NEW t \in Threads, NEW s, s = ServerOf[t]
  PROVE  /\ s \in Servers /\ store[s] \in Store /\ store[s].case \in Case
         /\ store[s].case.decision \in Decisions \cup {None}
         /\ store[s].decision \in [Decisions -> Decision] /\ store[s].dossier \in Nat
         /\ act[t] \in Act /\ act[t].decision \in Decision /\ act[t].dossier \in Nat
         /\ act[t].op \in {"create", "freeze", "approve"}
         /\ act[t].at # "idle" => act[t].decision.id \in Decisions
  BY HereType DEF TypeOK, Store, Case, Act, Here

LEMMA CreateInStep ==
  ASSUME TypeOK, CasesPoint, NEW t \in Threads, NEW d \in Decisions, Create(t, d),
         NEW s, s = ServerOf[t], Before(t, s)
  PROVE  After(t, s)
  <1> DEFINE draft == [id |-> d, status |-> "DRAFT", dossier |-> 0]
             current == store[s].case.decision
  <1>1. current # d
    <2>1. ~Tabled(d)
      BY DEF Create, Unused, Tabled
    <2>2. current # None => Tabled(current)
      BY Types DEF CasesPoint
    <2> QED
      BY <2>1, <2>2, NoneAssumption
  <1>2. /\ store'[s].case = store[s].case /\ store'[s].dossier = store[s].dossier
        /\ store'[s].decision = [store[s].decision EXCEPT ![d] = draft]
    BY RowAfterCreate
  <1>3. act'[t] = [at |-> "put_decision", op |-> "create", decision |-> draft, dossier |-> 0]
    BY DEF Create, Begins, TypeOK
  <1>4. \A e \in Decisions : store'[s].decision[e] = IF e = d THEN draft ELSE store[s].decision[e]
    BY <1>2, Types
  <1>5. act[t].at = "idle"
    BY DEF Create, Serves
  <1>6. InStep(store[s], FALSE)
    BY <1>5 DEF Before
  <1>7. current # None => store'[s].decision[current] = store[s].decision[current]
    BY <1>1, <1>4, Types
  <1>8. draft.id = d /\ draft.status = "DRAFT" /\ act'[t].decision.id = d /\ act'[t].at = "put_decision"
    BY <1>3
  <1> HIDE DEF draft
  <1>9. InStep(store'[s], act'[t].at = "store_decision")
    <2>1. \A e \in Decisions : store'[s].decision[e].status # "absent" => store'[s].decision[e].id = e
      BY <1>4, <1>6, <1>8 DEF InStep
    <2>2. current # None /\ store'[s].case.status = "READY_TO_SUBMIT"
            /\ store'[s].decision[current].status # "absent"
            => store'[s].decision[current].status = "APPROVED"
      BY <1>2, <1>6, <1>7 DEF InStep
    <2>3. current # None /\ store'[s].decision[current].status = "APPROVED"
            => store'[s].decision[current].dossier = store'[s].dossier
      BY <1>2, <1>6, <1>7 DEF InStep
    <2>4. store'[s].case.decision = current
      BY <1>2
    <2> HIDE DEF current
    <2> QED
      BY <2>1, <2>2, <2>3, <2>4 DEF InStep
  <1>10. UpToDate(act'[t], store'[s])
    BY <1>4, <1>8 DEF UpToDate
  <1> QED
    BY <1>9, <1>10 DEF After

LEMMA SetCaseInStep ==
  ASSUME TypeOK, NEW t \in Threads, SetCase(t), NEW s, s = ServerOf[t], Before(t, s)
  PROVE  After(t, s)
  <1> DEFINE d == act[t].decision.id
  <1>1. act[t].at = "set_case" /\ Goes(t, "update_case")
    BY DEF SetCase
  <1>2. /\ store'[s].case.decision = d /\ store'[s].case.status = "ANALYZED"
        /\ store'[s].decision = store[s].decision
    BY RowAfterSetCase
  <1>3. store[s].decision[d].status = "DRAFT" /\ InStep(store[s], FALSE)
    BY <1>1 DEF Before, UpToDate
  <1>4. act'[t].at = "update_case"
    BY <1>1, Goals
  <1>5. InStep(store'[s], act'[t].at = "store_decision")
    BY <1>2, <1>3, <1>4 DEF InStep
  <1>6. UpToDate(act'[t], store'[s])
    BY <1>4 DEF UpToDate
  <1> QED
    BY <1>5, <1>6 DEF After

LEMMA FreezeInStep ==
  ASSUME TypeOK, RecordsFit, NEW t \in Threads, Freeze(t), NEW s, s = ServerOf[t], Before(t, s)
  PROVE  After(t, s)
  <1> DEFINE decision == Here(t).decision[Current(t)]
             dossier == [decision |-> decision, case |-> Here(t).case]
  <1>1. /\ decision.status # "absent" /\ Current(t) # None /\ store' = store
        /\ act[t].at = "idle"
    BY DEF Freeze, Serves
  <1>2. PICK n \in 1..MaxDossiers :
          /\ \/ FrozenAs(dossier, n) /\ UNCHANGED dossiers
             \/ /\ n = Len(dossiers) + 1 /\ \A m \in DOMAIN dossiers : ~FrozenAs(dossier, m)
                /\ dossiers' = Append(dossiers, dossier)
          /\ Begins(t, "freeze", "store", Frozen(decision, n), n)
    BY DEF Freeze
  <1>3. Current(t) \in Decisions /\ decision \in Decision
    BY <1>1, CurrentType
  <1>4. decision.id = Current(t)
    BY <1>1, <1>3 DEF Before, InStep, Here, Current
  <1>5. Frozen(decision, n).id = decision.id
    BY <1>3 DEF Frozen, Decision
  <1>6. act'[t] = [at |-> "store", op |-> "freeze", decision |-> Frozen(decision, n), dossier |-> n]
    BY <1>2 DEF Begins, TypeOK
  <1>7. InStep(store'[s], act'[t].at = "store_decision")
    BY <1>1, <1>6 DEF Before
  <1>8. UpToDate(act'[t], store'[s])
    BY <1>1, <1>4, <1>5, <1>6 DEF UpToDate, Current, Here
  <1> QED
    BY <1>7, <1>8 DEF After

LEMMA SnapshotInStep ==
  ASSUME TypeOK, NEW t \in Threads, StoreSnapshot(t), NEW s, s = ServerOf[t], Before(t, s)
  PROVE  After(t, s)
  <1>1. act[t].at = "store" /\ Goes(t, "store_decision")
    BY DEF StoreSnapshot
  <1>2. store'[s].case = store[s].case /\ store'[s].decision = store[s].decision
    BY RowAfterSnapshot
  <1>3. InStep(store[s], FALSE) /\ store[s].case.decision = act[t].decision.id
    BY <1>1 DEF Before, UpToDate
  <1>4. act'[t].at = "store_decision" /\ act'[t].decision = act[t].decision
    BY <1>1, Goals
  <1>5. InStep(store'[s], act'[t].at = "store_decision")
    BY <1>2, <1>3, <1>4 DEF InStep
  <1>6. UpToDate(act'[t], store'[s])
    BY <1>2, <1>3, <1>4 DEF UpToDate
  <1> QED
    BY <1>5, <1>6 DEF After

\* A record goes where its identifier says, and is the case's.
LEMMA RecordStored ==
  ASSUME TypeOK, NEW t \in Threads, StoreFrozen(t) \/ StoreApproved(t), NEW s, s = ServerOf[t],
         Before(t, s)
  PROVE  /\ store[s].case.decision = act[t].decision.id
         /\ store'[s].case.decision = act[t].decision.id
         /\ store'[s].dossier = store[s].dossier
         /\ \A e \in Decisions :
              store'[s].decision[e] =
                IF e = act[t].decision.id THEN act[t].decision ELSE store[s].decision[e]
         /\ \A e \in Decisions : store'[s].decision[e].status # "absent" => store'[s].decision[e].id = e
  <1>1. act[t].at \in {"store", "store_decision"}
    BY DEF StoreFrozen, StoreApproved
  <1>2. store[s].case.decision = act[t].decision.id /\ Current(t) = act[t].decision.id
    BY <1>1 DEF Before, UpToDate, Current, Here
  <1>3. /\ store'[s].case.decision = store[s].case.decision /\ store'[s].dossier = store[s].dossier
        /\ store'[s].decision = [store[s].decision EXCEPT ![Current(t)] = act[t].decision]
    BY RowAfterFrozen, RowAfterApproved
  <1>4. \A e \in Decisions :
          store'[s].decision[e] =
            IF e = act[t].decision.id THEN act[t].decision ELSE store[s].decision[e]
    BY <1>2, <1>3, Types
  <1>5. \A e \in Decisions : store[s].decision[e].status # "absent" => store[s].decision[e].id = e
    BY DEF Before, InStep
  <1> QED
    BY <1>2, <1>3, <1>4, <1>5

LEMMA FrozenInStep ==
  ASSUME TypeOK, RequestsFit, NEW t \in Threads, StoreFrozen(t), NEW s, s = ServerOf[t], Before(t, s)
  PROVE  After(t, s)
  <1> DEFINE d == act[t].decision.id
  <1>1. act[t].at = "store_decision" /\ Goes(t, "put_snapshot")
    BY DEF StoreFrozen
  <1>2. act[t].op = "freeze" /\ act[t].decision.status = "PENDING_APPROVAL" /\ d \in Decisions
    BY <1>1, Types DEF RequestsFit, StatusOf
  <1>3. act'[t].at = "put_snapshot" /\ act'[t].op = "freeze"
    BY <1>1, <1>2, Goals
  <1>4. store'[s].case.status = "HUMAN_REVIEW"
    BY RowAfterFrozen
  <1>5. store'[s].case.decision = d /\ store'[s].decision[d] = act[t].decision
    BY <1>2, RecordStored
  <1>6. \A e \in Decisions : store'[s].decision[e].status # "absent" => store'[s].decision[e].id = e
    BY RecordStored
  <1>7. InStep(store'[s], act'[t].at = "store_decision")
    BY <1>2, <1>4, <1>5, <1>6 DEF InStep
  <1>8. UpToDate(act'[t], store'[s])
    BY <1>3 DEF UpToDate
  <1> QED
    BY <1>7, <1>8 DEF After

LEMMA ApproveInStep ==
  ASSUME TypeOK, RecordsFit, NEW t \in Threads, Approve(t), NEW s, s = ServerOf[t], Before(t, s)
  PROVE  After(t, s)
  <1> DEFINE decision == Here(t).decision[Current(t)]
             approved == [decision EXCEPT !.status = "APPROVED"]
  <1>1. /\ decision.status = "PENDING_APPROVAL" /\ Current(t) # None /\ store' = store
        /\ act[t].at = "idle"
        /\ Begins(t, "approve", "store", approved, Here(t).dossier)
    BY DEF Approve, Serves, Approvable
  <1>2. Current(t) \in Decisions /\ decision \in Decision
    BY <1>1, CurrentType
  <1>3. decision.id = Current(t)
    BY <1>1, <1>2 DEF Before, InStep, Here, Current
  <1>4. approved.id = decision.id
    BY <1>2 DEF Decision
  <1>5. act'[t] = [at |-> "store", op |-> "approve", decision |-> approved, dossier |-> Here(t).dossier]
    BY <1>1 DEF Begins, TypeOK
  <1>6. InStep(store'[s], act'[t].at = "store_decision")
    BY <1>1, <1>5 DEF Before
  <1>7. UpToDate(act'[t], store'[s])
    <2> HIDE DEF approved, decision
    <2>0. store' = store
      BY <1>1
    <2>1. approved.id = store'[s].case.decision /\ Here(t).dossier = store'[s].dossier
      BY <1>3, <1>4, <2>0 DEF Current, Here
    <2>2. /\ act'[t].at = "store" /\ act'[t].op = "approve" /\ act'[t].decision = approved
          /\ act'[t].dossier = Here(t).dossier
      BY <1>5
    <2> QED
      BY <2>1, <2>2 DEF UpToDate
  <1> QED
    BY <1>6, <1>7 DEF After

LEMMA ApprovedInStep ==
  ASSUME TypeOK, RequestsFit, NEW t \in Threads, StoreApproved(t), NEW s, s = ServerOf[t], Before(t, s)
  PROVE  After(t, s)
  <1> DEFINE d == act[t].decision.id
  <1>1. act[t].at = "store" /\ act[t].op = "approve" /\ Goes(t, "put_decision")
    BY DEF StoreApproved
  <1>2. /\ act[t].decision.status = "APPROVED" /\ d \in Decisions
        /\ act[t].dossier = act[t].decision.dossier
    BY <1>1, Types DEF RequestsFit, StatusOf
  <1>3. act[t].dossier = store[s].dossier
    BY <1>1 DEF Before, UpToDate
  <1>4. act'[t].at = "put_decision" /\ act'[t].op = "approve"
    BY <1>1, Goals
  <1>5. /\ store'[s].case.decision = d /\ store'[s].decision[d] = act[t].decision
        /\ store'[s].dossier = store[s].dossier
    BY <1>2, RecordStored
  <1>6. \A e \in Decisions : store'[s].decision[e].status # "absent" => store'[s].decision[e].id = e
    BY RecordStored
  <1>7. InStep(store'[s], act'[t].at = "store_decision")
    BY <1>2, <1>3, <1>5, <1>6 DEF InStep
  <1>8. UpToDate(act'[t], store'[s])
    BY <1>4 DEF UpToDate
  <1> QED
    BY <1>7, <1>8 DEF After

\* The tables are written: the process stays as it is.
LEMMA TableStepInStep ==
  ASSUME TypeOK, NEW t \in Threads,
         PutSnapshot(t) \/ PutDecision(t) \/ PutApproval(t) \/ UpdateCase(t) \/ TransactionFails(t),
         NEW s, s = ServerOf[t], Before(t, s)
  PROVE  After(t, s)
  <1>1. store' = store /\ act[t].at # "store_decision"
    BY DEF PutSnapshot, PutDecision, PutApproval, UpdateCase, TransactionFails
  <1>2. InStep(store'[s], FALSE)
    BY <1>1 DEF Before
  <1>3. UpToDate(act'[t], store'[s]) /\ act'[t].at # "store_decision"
    <2>1. CASE PutSnapshot(t)
      <3>1. act[t].at = "put_snapshot" /\ Goes(t, "put_decision")
        BY <2>1 DEF PutSnapshot
      <3>2. act'[t].at = "put_decision" /\ act'[t].op = "freeze"
        BY <3>1, Goals DEF Before, UpToDate
      <3> QED
        BY <3>2 DEF UpToDate
    <2>2. CASE PutDecision(t)
      <3>1. act[t].at = "put_decision" /\ Goes(t, AfterPutDecision[act[t].op])
        BY <2>2 DEF PutDecision
      <3>2. act'[t].at = AfterPutDecision[act[t].op] /\ act'[t].decision = act[t].decision
        BY <3>1, Goals
      <3>3. CASE act[t].op = "create"
        <4>1. store[s].decision[act[t].decision.id].status = "DRAFT"
          BY <3>1, <3>3 DEF Before, UpToDate
        <4>2. act'[t].at = "set_case"
          BY <3>2, <3>3 DEF AfterPutDecision
        <4> QED
          BY <1>1, <3>2, <4>1, <4>2 DEF UpToDate
      <3>4. CASE act[t].op \in {"freeze", "approve"}
        <4>1. act'[t].at \in {"update_case", "put_approval"}
          BY <3>2, <3>4 DEF AfterPutDecision
        <4> QED
          BY <4>1 DEF UpToDate
      <3> QED
        BY <3>3, <3>4, Types
    <2>3. CASE PutApproval(t)
      <3>1. act'[t].at = "update_case"
        BY <2>3, Goals DEF PutApproval
      <3> QED
        BY <3>1 DEF UpToDate
    <2>4. CASE UpdateCase(t) \/ TransactionFails(t)
      <3>1. act'[t].at = "idle"
        BY <2>4 DEF UpdateCase, TransactionFails, Ends, Idle, TypeOK
      <3> QED
        BY <3>1 DEF UpToDate
    <2> QED
      BY <2>1, <2>2, <2>3, <2>4
  <1> QED
    BY <1>2, <1>3 DEF After

LEMMA HydrateInStep ==
  ASSUME TypeOK, CasesPoint, NEW t \in Threads, Hydrate(t), NEW s, s = ServerOf[t]
  PROVE  After(t, s)
  <1>1. store[s] = EmptyStore
    BY Types DEF Hydrate, CasesPoint, Here
  <1>2. store'[s].case = db.case /\ store'[s].decision = EmptyStore.decision
    BY <1>1, RowAfterHydrate
  <1>3. store'[s].case.decision \in Decisions \cup {None}
    BY <1>2 DEF TypeOK, Tables, Case
  <1>4. act'[t].at = "idle"
    BY DEF Hydrate
  <1>5. InStep(store'[s], act'[t].at = "store_decision")
    BY <1>2, <1>3, EmptyInStep
  <1>6. UpToDate(act'[t], store'[s])
    BY <1>4 DEF UpToDate
  <1> QED
    BY <1>5, <1>6 DEF After

\* A step of thread t that its process or its request can see.
Works(t) ==
  \/ (\E d \in Decisions : Create(t, d)) \/ SetCase(t) \/ FreezeStep(t) \/ ApproveStep(t)
  \/ Hydrate(t) \/ PutDecision(t) \/ UpdateCase(t) \/ TransactionFails(t)

LEMMA Steps ==
  ASSUME [Next]_vars
  PROVE  \/ UNCHANGED <<store, act>> /\ (UNCHANGED <<submissions, overlap>> \/ \E t \in Threads : Submit(t))
         \/ UNCHANGED submissions /\ (\E t \in Threads : Works(t))
         \/ UNCHANGED <<submissions, overlap>> /\ (\E s \in Servers : Restart(s))
  <1>1. ASSUME NEW t \in Threads, Works(t) PROVE UNCHANGED submissions
    BY <1>1, Zenon DEF Works, FreezeStep, ApproveStep, Create, SetCase, Freeze, StoreSnapshot, StoreFrozen,
      PutSnapshot, Approve, StoreApproved, PutApproval, Hydrate, PutDecision, UpdateCase, TransactionFails
  <1>2. ASSUME NEW t \in Threads, Submit(t) PROVE UNCHANGED <<store, act>>
    BY <1>2 DEF Submit
  <1>3. ASSUME NEW s \in Servers, Restart(s) PROVE UNCHANGED <<submissions, overlap>>
    BY <1>3 DEF Restart
  <1> QED
    BY <1>1, <1>2, <1>3 DEF Next, vars, CreateStep, SharedStep, Works

LEMMA OverlapStays == ASSUME TypeOK, [Next]_vars, overlap PROVE overlap'
  BY Zenon DEF Next, vars, CreateStep, FreezeStep, ApproveStep, SharedStep, Restart, Create, SetCase,
    StoreSnapshot, StoreFrozen, PutSnapshot, Freeze, Approve, StoreApproved, PutApproval, Hydrate,
    PutDecision, UpdateCase, TransactionFails, Submit, Begins

LEMMA WorkIsLocal ==
  ASSUME TypeOK, NEW t \in Threads, Works(t)
  PROVE  Only(ServerOf[t]) /\ \A u \in Threads \ {t} : act'[u] = act[u]
  <1>1. Only(ServerOf[t])
    <2>1. CASE UNCHANGED store
      BY <2>1 DEF Only
    <2>2. \/ UNCHANGED store
          \/ (\E d \in Decisions : Create(t, d)) \/ SetCase(t) \/ StoreSnapshot(t) \/ StoreFrozen(t)
          \/ StoreApproved(t) \/ Hydrate(t)
      BY DEF Works, FreezeStep, ApproveStep, Freeze, PutSnapshot, Approve, PutApproval, PutDecision,
        UpdateCase, TransactionFails
    <2> QED
      BY <2>1, <2>2, RowAfterCreate, RowAfterSetCase, RowAfterSnapshot, RowAfterFrozen, RowAfterApproved,
        RowAfterHydrate
  <1>2. \A u \in Threads \ {t} : act'[u] = act[u]
    BY DEF Works, FreezeStep, ApproveStep, Create, SetCase, Freeze, StoreSnapshot, StoreFrozen,
      PutSnapshot, Approve, StoreApproved, PutApproval, Hydrate, PutDecision, UpdateCase,
      TransactionFails, Begins, Goes, Ends, TypeOK
  <1> QED
    BY <1>1, <1>2

\* The other threads of the process are idle.
LEMMA WorksAlone ==
  ASSUME TypeOK, CasesPoint, Alone, NEW t \in Threads, Works(t), ~overlap'
  PROVE  \A u \in Threads \ {t} : ServerOf[u] = ServerOf[t] => act[u].at = "idle"
  <1>1. CASE act[t].at # "idle"
    BY <1>1 DEF Alone
  <1>2. CASE Hydrate(t)
    BY <1>2 DEF Hydrate, CasesPoint, Here
  <1>3. CASE ~Overlaps(t)
    BY <1>3 DEF Overlaps
  <1>4. act[t].at # "idle" \/ Hydrate(t) \/ ~Overlaps(t)
    <2>1. CASE (\E d \in Decisions : Create(t, d)) \/ Freeze(t) \/ Approve(t)
      BY <2>1 DEF Create, Freeze, Approve, Begins
    <2> QED
      BY <2>1 DEF Works, FreezeStep, ApproveStep, SetCase, StoreSnapshot, StoreFrozen, PutSnapshot,
        StoreApproved, PutApproval, PutDecision, UpdateCase, TransactionFails
  <1> QED
    BY <1>1, <1>2, <1>3, <1>4

LEMMA WorkInStep ==
  ASSUME FitInv, CasesPoint, NEW t \in Threads, Works(t), NEW s, s = ServerOf[t], Before(t, s)
  PROVE  After(t, s)
  BY CreateInStep, SetCaseInStep, FreezeInStep, SnapshotInStep, FrozenInStep, ApproveInStep,
    ApprovedInStep, TableStepInStep, HydrateInStep
  DEF FitInv, Works, FreezeStep, ApproveStep

LEMMA WorkStaysSequential ==
  ASSUME FitInv, CasesPoint, Alone, \A s \in Servers : InStep(store[s], Storing(s)),
         \A u \in Threads : UpToDate(act[u], Here(u)),
         NEW t \in Threads, Works(t), ~overlap'
  PROVE  /\ Alone'
         /\ \A s \in Servers : InStep(store'[s], \E u \in Threads : ServerOf[u] = s /\ act'[u].at = "store_decision")
         /\ \A u \in Threads : UpToDate(act'[u], store'[ServerOf[u]])
  <1> DEFINE s == ServerOf[t]
  <1>0. TypeOK /\ s \in Servers
    BY HereType DEF FitInv
  <1>1. Only(s) /\ \A u \in Threads \ {t} : act'[u] = act[u]
    BY <1>0, WorkIsLocal
  <1>2. \A u \in Threads \ {t} : ServerOf[u] = s => act[u].at = "idle" /\ act'[u].at = "idle"
    BY <1>0, <1>1, WorksAlone
  <1>3. Storing(s) <=> act[t].at = "store_decision"
    BY <1>2 DEF Storing
  <1>4. (\E u \in Threads : ServerOf[u] = s /\ act'[u].at = "store_decision") <=> act'[t].at = "store_decision"
    BY <1>2
  <1>5. Before(t, s)
    <2>1. InStep(store[s], Storing(s))
      BY <1>0
    <2>2. UpToDate(act[t], store[s])
      BY DEF Here
    <2> QED
      BY <1>3, <2>1, <2>2 DEF Before, InStep
  <1>6. After(t, s)
    BY <1>5, WorkInStep
  <1>7. Alone'
    BY <1>1, <1>2 DEF Alone
  <1>8. ASSUME NEW r \in Servers
        PROVE  InStep(store'[r], \E u \in Threads : ServerOf[u] = r /\ act'[u].at = "store_decision")
    <2>1. CASE r = s
      BY <1>4, <1>6, <2>1 DEF After, InStep
    <2>2. CASE r # s
      <3>1. store'[r] = store[r]
        BY <1>1, <2>2 DEF Only
      <3>2. (\E u \in Threads : ServerOf[u] = r /\ act'[u].at = "store_decision") <=> Storing(r)
        BY <1>1, <2>2 DEF Storing
      <3>3. InStep(store[r], Storing(r))
        OBVIOUS
      <3> QED
        BY <3>1, <3>2, <3>3 DEF InStep
    <2> QED
      BY <2>1, <2>2
  <1>9. ASSUME NEW u \in Threads
        PROVE  UpToDate(act'[u], store'[ServerOf[u]])
    <2>1. CASE u = t
      BY <1>6, <2>1 DEF After
    <2>2. CASE u # t /\ ServerOf[u] = s
      <3>1. act'[u].at = "idle"
        BY <1>2, <2>2
      <3> QED
        BY <3>1 DEF UpToDate
    <2>3. CASE u # t /\ ServerOf[u] # s
      <3>1. act'[u] = act[u] /\ store'[ServerOf[u]] = store[ServerOf[u]]
        BY <1>1, <2>3, ServersAssumption DEF Only
      <3> QED
        BY <3>1 DEF Here
    <2> QED
      BY <2>1, <2>2, <2>3
  <1> QED
    BY <1>7, <1>8, <1>9

LEMMA RestartStaysSequential ==
  ASSUME FitInv, Alone, \A s \in Servers : InStep(store[s], Storing(s)),
         \A u \in Threads : UpToDate(act[u], Here(u)),
         NEW s \in Servers, Restart(s)
  PROVE  /\ Alone'
         /\ \A r \in Servers : InStep(store'[r], \E u \in Threads : ServerOf[u] = r /\ act'[u].at = "store_decision")
         /\ \A u \in Threads : UpToDate(act'[u], store'[ServerOf[u]])
  <1>1. /\ store'[s] = EmptyStore /\ Only(s)
        /\ \A u \in Threads : IF ServerOf[u] = s THEN act'[u].at = "idle" ELSE act'[u] = act[u]
    BY DEF Restart, FitInv, TypeOK, Only, Idle
  <1>2. Alone'
    BY <1>1 DEF Alone
  <1>3. ASSUME NEW r \in Servers
        PROVE  InStep(store'[r], \E u \in Threads : ServerOf[u] = r /\ act'[u].at = "store_decision")
    <2>1. CASE r = s
      BY <1>1, <2>1, EmptyInStep DEF EmptyStore, NoCase
    <2>2. CASE r # s
      <3>1. store'[r] = store[r]
        BY <1>1, <2>2 DEF Only
      <3>2. (\E u \in Threads : ServerOf[u] = r /\ act'[u].at = "store_decision") <=> Storing(r)
        BY <1>1, <2>2 DEF Storing
      <3>3. InStep(store[r], Storing(r))
        OBVIOUS
      <3> QED
        BY <3>1, <3>2, <3>3 DEF InStep
    <2> QED
      BY <2>1, <2>2
  <1>4. ASSUME NEW u \in Threads
        PROVE  UpToDate(act'[u], store'[ServerOf[u]])
    <2>1. CASE ServerOf[u] = s
      BY <1>1, <2>1 DEF UpToDate
    <2>2. CASE ServerOf[u] # s
      BY <1>1, <2>2, ServersAssumption DEF Only, Here
    <2> QED
      BY <2>1, <2>2
  <1> QED
    BY <1>2, <1>3, <1>4

\* prepare finds the case's decision approved, and with the dossier the
\* process has.
LEMMA SubmitsApproved ==
  ASSUME FitInv, SubmissionsAreApproved, \A s \in Servers : InStep(store[s], Storing(s)),
         NEW t \in Threads, Submit(t), ~overlap'
  PROVE  SubmissionsAreApproved'
  <1> DEFINE s == ServerOf[t]
             d == Current(t)
             record == store[s].decision[d]
  <1>1. /\ act[t].at = "idle" /\ d # None /\ record.status = "APPROVED" /\ ~Overlaps(t)
        /\ submissions' = submissions \cup {[decision |-> d, dossier |-> store[s].dossier]}
        /\ UNCHANGED approvals
    BY DEF Submit, Serves, Submittable, Here
  <1>2. ~Storing(s)
    BY <1>1 DEF Overlaps, Storing
  <1>3. s \in Servers /\ d \in Decisions
    BY <1>1, HereType, CurrentType DEF FitInv
  <1>4. record.id = d /\ record.dossier = store[s].dossier
    <2>1. InStep(store[s], Storing(s)) /\ d = store[s].case.decision
      BY <1>3 DEF Current, Here
    <2> QED
      BY <1>1, <1>2, <1>3, <2>1 DEF InStep
  <1>5. [decision |-> record.id, dossier |-> record.dossier] \in approvals
    BY <1>1, <1>3 DEF FitInv, RecordsFit, Vouched
  <1> QED
    BY <1>1, <1>4, <1>5 DEF SubmissionsAreApproved

LEMMA SequentialStep == FitInv /\ CasesPoint /\ SequentialInv /\ [Next]_vars => SequentialInv'
  <1> SUFFICES ASSUME FitInv, CasesPoint, SequentialInv, [Next]_vars, ~overlap'
               PROVE  SequentialInv'
    BY DEF SequentialInv
  <1>0. /\ Alone /\ SubmissionsAreApproved
        /\ \A s \in Servers : InStep(store[s], Storing(s))
        /\ \A u \in Threads : UpToDate(act[u], Here(u))
    BY OverlapStays DEF SequentialInv, FitInv
  <1>1. SubmissionsAreApproved'
    <2>1. CASE UNCHANGED submissions
      BY <1>0, <2>1, HistoryGrows DEF SubmissionsAreApproved, FitInv
    <2> QED
      BY <1>0, <2>1, Steps, SubmitsApproved
  <1>2. /\ Alone'
        /\ \A s \in Servers : InStep(store'[s], \E u \in Threads : ServerOf[u] = s /\ act'[u].at = "store_decision")
        /\ \A u \in Threads : UpToDate(act'[u], store'[ServerOf[u]])
    <2>1. CASE UNCHANGED <<store, act>>
      BY <1>0, <2>1 DEF Alone, Storing, Here
    <2> QED
      BY <1>0, <2>1, Steps, WorkStaysSequential, RestartStaysSequential
  <1> QED
    BY <1>1, <1>2 DEF SequentialInv, Storing, Here

LEMMA SequentialInitially == Init => CasesPoint /\ SequentialInv
  <1> SUFFICES ASSUME Init PROVE CasesPoint /\ SequentialInv
    OBVIOUS
  <1>1. CasesPoint
    BY DEF Init, CasesPoint, NewCase, NoCase, EmptyStore, Idle
  <1>2. Alone /\ SubmissionsAreApproved
    BY DEF Init, Alone, Idle, SubmissionsAreApproved
  <1>3. \A s \in Servers : InStep(store[s], Storing(s))
    <2>1. \A s \in Servers : store[s] = EmptyStore
      BY DEF Init
    <2>2. \A s \in Servers : Storing(s) \in BOOLEAN
      BY DEF Storing
    <2> QED
      BY <2>1, <2>2, EmptyInStep DEF EmptyStore, NoCase
  <1>4. \A t \in Threads : UpToDate(act[t], Here(t))
    BY DEF Init, UpToDate, Idle
  <1> QED
    BY <1>1, <1>2, <1>3, <1>4 DEF SequentialInv

\* A case points to no decision that the table does not have, and while no two
\* requests overlap in a process, each has its case, records and dossier in
\* step.
THEOREM ProcessesStayInStep == Spec => [](CasesPoint /\ SequentialInv)
  <1>1. CasesPoint /\ FitInv /\ [Next]_vars => CasesPoint'
    BY CasesStayPointed DEF FitInv
  <1> QED
    BY <1>1, FitInvariant, SequentialInitially, SequentialStep, PTL DEF Spec

\* "explicit human approval required before submission": prepare checks a
\* decision's status alone, and still prepares nothing but a decision with the
\* dossier it was approved with, whatever other processes do and whatever
\* fails, as long as no two requests overlap in a process.
THEOREM SequentialSubmissionsStandApproved == Spec => []SequentialSubmissionsAreApproved
  <1>1. SequentialInv => SequentialSubmissionsAreApproved
    BY DEF SequentialInv, SequentialSubmissionsAreApproved
  <1> QED
    BY <1>1, ProcessesStayInStep, PTL

\* READY_TO_SUBMIT in a process means that the decision it has for the case is
\* approved with the dossier it has.
THEOREM ReadyStandsApproved == Spec => []ReadyIsApproved
  <1>1. SequentialInv => ReadyIsApproved
    BY Zenon DEF SequentialInv, ReadyIsApproved, InStep, Storing
  <1> QED
    BY <1>1, ProcessesStayInStep, PTL

=============================================================================
