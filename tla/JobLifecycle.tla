---------------------------- MODULE JobLifecycle ----------------------------
(***************************************************************************)
(* What every durable queue of the repository promises about one job,      *)
(* whatever its table, its clock or its workers look like: the job waits,  *)
(* is leased to a run, and the run either completes it, is rejected (the   *)
(* job waits again, or is dead once its allowance is used up) or lets the  *)
(* lease lapse.  JobQueue, ProcessingQueue and PostgresQueue implement it. *)
(***************************************************************************)
EXTENDS Naturals

CONSTANTS Jobs

VARIABLES
  phase,     \* where each job is in its life
  tries,     \* how many leases the job was given
  allowance  \* the number of tries after which a rejected job is dead

vars == <<phase, tries, allowance>>

Phases == {"absent", "waiting", "leased", "done", "dead", "withdrawn"}

TypeOK ==
  /\ phase \in [Jobs -> Phases]
  /\ tries \in [Jobs -> Nat]
  /\ allowance \in [Jobs -> Nat]

Init ==
  /\ phase = [j \in Jobs |-> "absent"]
  /\ tries = [j \in Jobs |-> 0]
  /\ allowance = [j \in Jobs |-> 0]

Submit(j) ==
  /\ phase[j] = "absent"
  /\ phase' = [phase EXCEPT ![j] = "waiting"]
  /\ allowance'[j] \in Nat \ {0}
  /\ allowance' = [allowance EXCEPT ![j] = allowance'[j]]
  /\ UNCHANGED tries

\* The leases of the jobs in S run out; the jobs wait again.
Lapse(S) ==
  /\ \A j \in S : phase[j] = "leased"
  /\ phase' = [j \in Jobs |-> IF j \in S THEN "waiting" ELSE phase[j]]
  /\ UNCHANGED <<tries, allowance>>

\* A worker leases a job, after the leases of the jobs in S ran out.
Lease(S, j) ==
  /\ \A i \in S : phase[i] = "leased"
  /\ phase[j] = "waiting" \/ j \in S
  /\ phase' = [i \in Jobs |-> IF i = j THEN "leased"
                              ELSE IF i \in S THEN "waiting" ELSE phase[i]]
  /\ tries' = [tries EXCEPT ![j] = @ + 1]
  /\ UNCHANGED allowance

Complete(j) ==
  /\ phase[j] = "leased"
  /\ phase' = [phase EXCEPT ![j] = "done"]
  /\ UNCHANGED <<tries, allowance>>

Reject(j) ==
  /\ phase[j] = "leased"
  /\ phase' = [phase EXCEPT ![j] = IF tries[j] >= allowance[j] THEN "dead" ELSE "waiting"]
  /\ UNCHANGED <<tries, allowance>>

\* Anything but a leased job may be withdrawn, a finished one included.
Withdraw(j) ==
  /\ phase[j] \notin {"absent", "leased"}
  /\ phase' = [phase EXCEPT ![j] = "withdrawn"]
  /\ UNCHANGED <<tries, allowance>>

Next ==
  \/ \E S \in SUBSET Jobs : Lapse(S)
  \/ \E j \in Jobs :
       \/ Submit(j)
       \/ \E S \in SUBSET Jobs : Lease(S, j)
       \/ Complete(j)
       \/ Reject(j)
       \/ Withdraw(j)

Spec == Init /\ [][Next]_vars
=============================================================================
