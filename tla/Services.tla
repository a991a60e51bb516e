------------------------------ MODULE Services ------------------------------
(***************************************************************************)
(* The parts of the service which run apart from the queues and from the   *)
(* tables of the cases: one instance of each.  They share no state, so     *)
(* `part` picks one, which alone takes steps: what is true of the whole is *)
(* what is true of each of its parts.                                      *)
(***************************************************************************)
EXTENDS Integers, Sequences

CONSTANTS
  NoValue,                        \* no value, no user, no row
  Servers, ServerOfCaller,        \* API processes, and the one of each caller
  Callers, Requests,              \* threads, clients or instances; requests under way
  Users, EscalationLevels, MaxRestarts,                              \* CaseDesk
  FailureThreshold, RecoveryTime, BreakerTime,                       \* CircuitBreaker
  CallKeys, Fingerprints, MaxTries, MaxCalls,                        \* IdempotencyBarrier
  GateCallers, GateLimit,                                            \* ConcurrencyGate
  RateClients, RateLimit, Window, MaxClients, RateTime,              \* RateLimiter
  Texts, MaxApprovals,                                               \* SubmissionWorkspace
  Events, PayloadOf, MaxPushCalls, MaxClaims,                        \* PostgresSync
  Companies, Policies, Hours, MaxSets, MaxPolicyFaults,              \* NotificationPolicy
  MaxContradictions, SignalChoices,                                  \* ReviewChecklist
  Reviews, CaseKeys, Bodies, MaxCases, MaxIntakeFaults,              \* CaseIntake
  Releases, MaxInstanceFaults,                                       \* Migrations
  Ids, Dossiers, SignalledTexts, MaxObjects,                         \* ReferencePipeline
  Subjects, RequestStatuses, Notes,                                  \* PrivacyWorkflow
  MaxCreated, MaxPatches, MaxPrivacyFaults

VARIABLES part,
  db, store, act, signal, early, claimers, crossed, restarts,
  state, failures, openedAt, probe, call, clock, stale,
  entries, caller, runs, returned, calls,
  permits, active, peak, at,
  hits, asking, rateClock, served, late,
  report, approvals,
  events, rows, tx, acked, pushCalls, claims,
  policyRows, copies, policyAct, policyStale, policyCrossed, obeyed, sets, policyFaults,
  persistent, signals, contradictions, items, itemRows, shown, first, grown,
  reviewRows, caseRows, reviews, cases, idempotency, locked, intakeAct, made, intakeFaults,
  answered, failed,
  program, table, migrated, executed, creating, lockHolder, inst, instFaults,
  texts, objects, documents, decisions, snapshots, submissions, outcomes, compared,
  durable, privacyRows, privacyStore, privacyAct, posted, patches, privacyFaults, told

Desk == INSTANCE CaseDesk WITH
          Levels <- EscalationLevels, Threads <- Callers, ServerOf <- ServerOfCaller, None <- NoValue
Breaker == INSTANCE CircuitBreaker WITH MaxTime <- BreakerTime
Barrier == INSTANCE IdempotencyBarrier WITH
             Keys <- CallKeys, NoFingerprint <- NoValue, MaxAttempts <- MaxTries
Gate == INSTANCE ConcurrencyGate WITH Callers <- GateCallers, Limit <- GateLimit
Rate == INSTANCE RateLimiter WITH
          Callers <- Requests, Clients <- RateClients, Limit <- RateLimit, MaxKeys <- MaxClients,
          NotAsking <- NoValue, MaxTime <- RateTime, clock <- rateClock
Report == INSTANCE SubmissionWorkspace WITH Contents <- Texts, Actors <- Users, None <- NoValue
Push == INSTANCE PostgresSync WITH
          Clients <- Callers, Payloads <- Fingerprints, MaxCalls <- MaxPushCalls,
          calls <- pushCalls, None <- NoValue
Policy == INSTANCE NotificationPolicy WITH
            Orgs <- Companies, Payloads <- Policies, MaxFaults <- MaxPolicyFaults, None <- NoValue,
            rows <- policyRows, act <- policyAct, stale <- policyStale, crossed <- policyCrossed,
            faults <- policyFaults
Checklist == INSTANCE ReviewChecklist WITH
               rows <- itemRows, Signals <- SignalChoices, None <- NoValue
Intake == INSTANCE CaseIntake WITH
            Keys <- CaseKeys, MaxFaults <- MaxIntakeFaults, None <- NoValue,
            act <- intakeAct, faults <- intakeFaults
Schema == INSTANCE Migrations WITH
            Instances <- Callers, MaxFaults <- MaxInstanceFaults, None <- NoValue,
            rows <- migrated, locked <- lockHolder, faults <- instFaults
Pipeline == INSTANCE ReferencePipeline WITH
              Payloads <- Dossiers, Signalled <- SignalledTexts, None <- NoValue, reviews <- texts
Privacy == INSTANCE PrivacyWorkflow WITH
             Threads <- Subjects, Place <- ServerOfCaller, MaxFaults <- MaxPrivacyFaults,
             Statuses <- RequestStatuses, None <- NoValue,
             persistent <- durable, table <- privacyRows, store <- privacyStore,
             act <- privacyAct, created <- posted, faults <- privacyFaults

\* A pushed event's row, an answered case, and an item of a checklist.
PushedRow == [payload : Fingerprints, state : {"QUEUED", "RUNNING"}, attempts : Nat]
IntakeCases == [id : Nat, review : Reviews]
Answers == [body : Bodies, case : IntakeCases]
ChecklistItem == [code : Checklist!AllCodes, completed : BOOLEAN]

\* Limits and times are counts, a caller has a process, an event one payload, a release
\* is a list of files; and NoValue is none of the values where it stands for none.
ASSUME DeskAssumption == ServerOfCaller \in [Callers -> Servers]
ASSUME BreakerAssumption == FailureThreshold \in Nat /\ BreakerTime \in Nat
ASSUME BarrierAssumption == MaxTries \in Nat \ {0} /\ NoValue \notin Fingerprints
ASSUME GateAssumption == GateLimit \in Nat
ASSUME RateAssumption == RateLimit \in Nat \ {0} /\ Window \in Nat /\ RateTime \in Nat
ASSUME PushAssumption == PayloadOf \in [Events -> Fingerprints] /\ NoValue \notin PushedRow
ASSUME PolicyAssumption == Hours \in Nat /\ NoValue \notin 0..(Hours - 1) /\ NoValue \notin Policies
ASSUME ChecklistAssumption == NoValue \notin Seq(ChecklistItem)
ASSUME IntakeAssumption == NoValue \notin Requests /\ NoValue \notin Answers
ASSUME SchemaAssumption ==
  NoValue \notin Callers /\ \A r \in Releases : Len(r) \in Nat /\ DOMAIN r = 1..Len(r)
ASSUME PipelineAssumption == NoValue \notin Dossiers
ASSUME PrivacyAssumption == NoValue \notin Users /\ \A t \in Subjects : ServerOfCaller[t] \in Servers

Parts == {"desk", "breaker", "barrier", "gate", "rate", "report", "push", "policy",
          "checklist", "intake", "schema", "pipeline", "privacy"}

deskVars == <<db, store, act, signal, early, claimers, crossed, restarts>>
breakerVars == <<state, failures, openedAt, probe, call, clock, stale>>
barrierVars == <<entries, caller, runs, returned, calls>>
gateVars == <<permits, active, peak, at>>
rateVars == <<hits, asking, rateClock, served, late>>
reportVars == <<report, approvals>>
pushVars == <<events, rows, tx, acked, pushCalls, claims>>
policyVars == <<policyRows, copies, policyAct, policyStale, policyCrossed, obeyed, sets, policyFaults>>
checklistVars == <<persistent, signals, contradictions, items, itemRows, shown, first, grown>>
intakeVars == <<reviewRows, caseRows, reviews, cases, idempotency, locked, intakeAct, made,
                intakeFaults, answered, failed>>
schemaVars == <<program, table, migrated, executed, creating, lockHolder, inst, instFaults>>
pipelineVars == <<texts, objects, documents, decisions, snapshots, submissions, outcomes, compared>>
privacyVars == <<durable, privacyRows, privacyStore, privacyAct, posted, patches, privacyFaults, told>>
services == <<part, deskVars, breakerVars, barrierVars, gateVars, rateVars, reportVars, pushVars,
              policyVars, checklistVars, intakeVars, schemaVars, pipelineVars, privacyVars>>

Started ==
  /\ Desk!Init /\ Breaker!Init /\ Barrier!Init /\ Gate!Init /\ Rate!Init /\ Report!Init
  /\ Push!Init /\ Policy!Init /\ Checklist!Init /\ Intake!Init /\ Schema!Init
  /\ Pipeline!Init /\ Privacy!Init
ServicesInit == part \in Parts /\ Started

\* The others rest while a part runs.
Rest ==
  /\ UNCHANGED part
  /\ part # "desk" => UNCHANGED deskVars
  /\ part # "breaker" => UNCHANGED breakerVars
  /\ part # "barrier" => UNCHANGED barrierVars
  /\ part # "gate" => UNCHANGED gateVars
  /\ part # "rate" => UNCHANGED rateVars
  /\ part # "report" => UNCHANGED reportVars
  /\ part # "push" => UNCHANGED pushVars
  /\ part # "policy" => UNCHANGED policyVars
  /\ part # "checklist" => UNCHANGED checklistVars
  /\ part # "intake" => UNCHANGED intakeVars
  /\ part # "schema" => UNCHANGED schemaVars
  /\ part # "pipeline" => UNCHANGED pipelineVars
  /\ part # "privacy" => UNCHANGED privacyVars

ServicesNext ==
  \/ part = "desk" /\ Desk!Next /\ Rest
  \/ part = "breaker" /\ Breaker!Next /\ Rest
  \/ part = "barrier" /\ Barrier!Next /\ Rest
  \/ part = "gate" /\ Gate!Next /\ Rest
  \/ part = "rate" /\ Rate!Next /\ Rest
  \/ part = "report" /\ Report!Next /\ Rest
  \/ part = "push" /\ Push!Next /\ Rest
  \/ part = "policy" /\ Policy!Next /\ Rest
  \/ part = "checklist" /\ Checklist!Next /\ Rest
  \/ part = "intake" /\ Intake!Next /\ Rest
  \/ part = "schema" /\ Schema!Next /\ Rest
  \/ part = "pipeline" /\ Pipeline!Next /\ Rest
  \/ part = "privacy" /\ Privacy!Next /\ Rest

ServicesSpec == ServicesInit /\ [][ServicesNext]_services

-----------------------------------------------------------------------------
\* A half-open circuit lets one call through (CircuitBreaker.tla), a key executes within
\* one retry budget (IdempotencyBarrier.tla), and the gate and the limiter admit no more
\* than they may (ConcurrencyGate.tla, RateLimiter.tla).
CallsAreGuarded == Breaker!OneProbe /\ Barrier!OneExecution /\ Gate!GateHolds /\ Rate!WindowHolds

\* An acknowledged event has a job, claimed once (PostgresSync.tla).
PushedIsQueued == Push!AcknowledgedIsQueued /\ Push!OneClaim

\* A process leaves a case with whom it was given to (CaseDesk.tla), and lets
\* notifications out as their organisation's policy says, unless its copy or its worker's
\* is another one (NotificationPolicy.tla).
CopiesAgree == Desk!AssigneeIsKept /\ Policy!WindowIsAStretch /\ Policy!PolicyIsObeyed

\* A case answered as created is in the table, once per key and review, with its review,
\* and a process has no other (CaseIntake.tla).
CasesAreStored == Intake!CasesAreStored /\ Intake!CasesHaveReviews

\* However many instances start together or fail, a migration is executed once, and
\* before its release serves (Migrations.tla).
SchemaIsRecorded == Schema!SchemaIsRecorded

\* What is shown agrees with what is stored: a case's checklist and readiness
\* (ReviewChecklist.tla), its evidence and decision (ReferencePipeline.tla), and a
\* person's requests and consents (PrivacyWorkflow.tla).
RecordsAgree ==
  /\ Checklist!ReadyIsReviewed /\ Checklist!NothingIsAsked
  /\ Pipeline!PipelineAgrees
  /\ Privacy!ExportIsComplete

\* What was decided stands: a resolved escalation is reopened only from an older copy
\* (CaseDesk.tla), and a report is submitted as it was approved (SubmissionWorkspace.tla).
StandingIsKept == [][Desk!OpenedFromCopy /\ Report!SubmitsWhatWasApproved]_services
=============================================================================
