-------------------------- MODULE ConcurrencyGate --------------------------
(***************************************************************************)
(* ConcurrencyGate of src/resilience.py.  The semaphore and the counters   *)
(* have locks of their own, taken one after the other.                     *)
(***************************************************************************)
EXTENDS Naturals, FiniteSets

CONSTANTS Callers, Limit

VARIABLES
  permits,         \* the semaphore
  active, peak,    \* _active and _peak
  at               \* where each thread is

vars == <<permits, active, peak, at>>

Init == permits = Limit /\ active = 0 /\ peak = 0 /\ at = [t \in Callers |-> "out"]

Move(t, from, to) == at[t] = from /\ at' = [at EXCEPT ![t] = to]

\* A thread that finds no permit is refused, at once or when its timeout has passed.
Acquire(t) == permits > 0 /\ permits' = permits - 1 /\ Move(t, "out", "acquired") /\ UNCHANGED <<active, peak>>

Enter(t) ==
  /\ Move(t, "acquired", "in")
  /\ active' = active + 1
  /\ peak' = IF active' > peak THEN active' ELSE peak
  /\ UNCHANGED permits

\* release counts the thread out before it gives the permit back.
FirstOfRelease == active' = active - 1 /\ UNCHANGED permits
LastOfRelease == permits' = permits + 1 /\ UNCHANGED active
Release(t) ==
  /\ UNCHANGED peak
  /\ \/ Move(t, "in", "leaving") /\ FirstOfRelease
     \/ Move(t, "leaving", "out") /\ LastOfRelease

Next == \E t \in Callers : Acquire(t) \/ Enter(t) \/ Release(t)

Spec == Init /\ [][Next]_vars

-----------------------------------------------------------------------------

\* However threads come and go, no more are counted as inside than the limit, the
\* counter is theirs, and every permit is free or some thread's.
GateHolds ==
  /\ active = Cardinality({t \in Callers : at[t] = "in"})
  /\ active <= peak /\ peak <= Limit
  /\ permits + Cardinality({t \in Callers : at[t] # "out"}) = Limit
=============================================================================
