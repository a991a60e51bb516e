---------------------------- MODULE ProcessingLog ----------------------------
(***************************************************************************)
(* The event trail of one processing job, table processing_job_events, as  *)
(* both processing queues write it: one event per change of status.  What  *)
(* a reader of the trail may conclude about the job is stated here, for    *)
(* ProcessingQueue and PostgresQueue alike.                                *)
(***************************************************************************)
EXTENDS Naturals, Sequences, FiniteSets

Statuses == {"pending", "processing", "completed", "failed"}
EventTypes == {"enqueued", "claimed", "completed", "failed", "retry_scheduled", "lease_expired"}

\* The status a trail leaves its job in; a job without events does not exist.
LastStatus(log) == IF log = <<>> THEN "absent" ELSE log[Len(log)].to

\* Every event starts where the one before it ended.
Chained(log) ==
  \A i \in DOMAIN log : log[i].from = (IF i = 1 THEN "absent" ELSE log[i - 1].to)

Attempts(log) == Cardinality({i \in DOMAIN log : log[i].type = "claimed"})

\* The event that ends a lease names the worker and the attempt of the claim.
LeasesNamed(log) ==
  \A i \in DOMAIN log : log[i].from = "processing" =>
    i > 1 /\ log[i].worker = log[i - 1].worker /\ log[i].attempt = log[i - 1].attempt

\* The instants do not run backwards along the trail.
InTimeOrder(log) == \A i \in DOMAIN log : i > 1 => log[i - 1].at <= log[i].at
=============================================================================
