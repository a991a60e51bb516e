--------------------------- MODULE CircuitBreaker ---------------------------
(***************************************************************************)
(* CircuitBreaker of src/resilience.py: threads call an operation through  *)
(* one breaker.  Whether a call may start is decided under the lock, and   *)
(* so is what its end does; between the two the breaker may have opened,   *)
(* recovered and sent a probe without the call knowing.                    *)
(***************************************************************************)
EXTENDS Naturals, FiniteSets

CONSTANTS
  Callers,               \* threads
  FailureThreshold, RecoveryTime,
  MaxTime                \* bound: the last instant of the clock

VARIABLES
  state, failures, openedAt, probe,   \* _state, _failures, _opened_at, _probe_in_flight
  call,                  \* what each thread is doing: idle, a call, or a recovery probe
  clock,
  stale                  \* history: threads whose call began before the circuit last opened or closed

vars == <<state, failures, openedAt, probe, call, clock, stale>>
breaker == <<state, failures, openedAt, probe>>

InFlight == {t \in Callers : call[t] # "idle"}
Probing == {t \in Callers : call[t] = "probe"}

Init ==
  /\ state = "CLOSED" /\ failures = 0 /\ openedAt = 0 /\ probe = FALSE
  /\ call = [t \in Callers |-> "idle"]
  /\ clock = 0
  /\ stale = {}

\* _refresh_locked: an open circuit is half open once the recovery time has passed.
Recovers == state = "OPEN" /\ clock - openedAt >= RecoveryTime
Refreshed == IF Recovers THEN "HALF_OPEN" ELSE state
ProbeNow_Forgotten == FALSE
ProbeNow == probe /\ ~Recovers

\* The state property refreshes as well.
ReadState ==
  /\ Recovers
  /\ state' = "HALF_OPEN" /\ probe' = FALSE
  /\ UNCHANGED <<failures, openedAt, call, clock, stale>>

\* _before_call.
Admit(t) ==
  /\ call[t] = "idle"
  /\ Refreshed # "OPEN"
  /\ Refreshed = "HALF_OPEN" => ~ProbeNow
  /\ state' = Refreshed
  /\ probe' = (Refreshed = "HALF_OPEN")
  /\ call' = [call EXCEPT ![t] = IF Refreshed = "HALF_OPEN" THEN "probe" ELSE "call"]
  /\ UNCHANGED <<failures, openedAt, clock, stale>>

\* _success, whenever the call began.
Success(t) ==
  /\ t \in InFlight
  /\ state' = "CLOSED" /\ failures' = 0 /\ openedAt' = 0 /\ probe' = FALSE
  /\ call' = [call EXCEPT ![t] = "idle"]
  /\ stale' = (IF state = "CLOSED" THEN stale ELSE InFlight) \ {t}
  /\ UNCHANGED clock

\* _failure, whenever the call began.  Beyond the threshold the count makes no difference.
Opens == state = "HALF_OPEN" \/ failures + 1 >= FailureThreshold
Failure(t) ==
  /\ t \in InFlight
  /\ probe' = FALSE
  /\ failures' = IF failures < FailureThreshold THEN failures + 1 ELSE failures
  /\ state' = IF Opens THEN "OPEN" ELSE state
  /\ openedAt' = IF Opens THEN clock ELSE openedAt
  /\ call' = [call EXCEPT ![t] = "idle"]
  /\ stale' = (IF Opens THEN InFlight ELSE stale) \ {t}
  /\ UNCHANGED clock

Tick == clock < MaxTime /\ clock' = clock + 1 /\ UNCHANGED <<breaker, call, stale>>

Next ==
  \/ ReadState \/ Tick
  \/ \E t \in Callers : Admit(t) \/ Success(t) \/ Failure(t)

Spec == Init /\ [][Next]_vars

-----------------------------------------------------------------------------

TypeOK ==
  /\ state \in {"CLOSED", "OPEN", "HALF_OPEN"} /\ failures \in 0..FailureThreshold
  /\ openedAt \in 0..MaxTime /\ probe \in BOOLEAN /\ clock \in 0..MaxTime
  /\ call \in [Callers -> {"idle", "call", "probe"}] /\ stale \subseteq InFlight

\* A half-open circuit that refuses calls because a probe is in flight has one, so it
\* can still find out; and it sends one probe at a time, unless a call that began
\* before the circuit last opened or closed is still in flight: its end may open or
\* close the circuit in the middle of a probe.
OneProbe ==
  /\ TypeOK
  /\ probe => state = "HALF_OPEN" /\ Probing # {}
  /\ stale = {} => Cardinality(Probing) <= 1
=============================================================================
