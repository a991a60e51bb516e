------------------------- MODULE IdempotencyBarrier -------------------------
(***************************************************************************)
(* IdempotencyStore of src/resilience.py, its operation run by a           *)
(* RetryExecutor: the first caller of a key owns it and runs the           *)
(* operation, the others wait for what it returns or raises.               *)
(***************************************************************************)
EXTENDS Naturals, FiniteSets

CONSTANTS
  Callers, Keys, Fingerprints,
  NoFingerprint,         \* of a key without an entry
  MaxAttempts,           \* of the retry policy
  MaxCalls               \* bound: calls begun in all

VARIABLES
  entries,    \* the entry of each key: its fingerprint, whether it is done, result or error
  caller,     \* where each thread is
  runs,       \* history: how many times the operation of a key was attempted
  returned,   \* history: what callers got for a key
  calls

vars == <<entries, caller, runs, returned, calls>>

\* What an attempt comes to.  Errors are retryable or not; an exhausted budget is an error of its own.
Result == "result"
Retryable == "retryable"
Fatal == "fatal"
Exhausted == "exhausted"
Unknown == "unknown"
Outcomes == {Result, Fatal, Exhausted}

Idle == [at |-> "idle", key |-> CHOOSE k \in Keys : TRUE, attempt |-> 0, outcome |-> Unknown]

Init ==
  /\ entries = [k \in Keys |-> [fingerprint |-> NoFingerprint, done |-> FALSE, outcome |-> Unknown]]
  /\ caller = [t \in Callers |-> Idle]
  /\ runs = [k \in Keys |-> 0]
  /\ returned = [k \in Keys |-> {}]
  /\ calls = 0

Go(t, c) == caller' = [caller EXCEPT ![t] = c]

\* Under the store's lock: the caller becomes the owner, waits, or is refused for a
\* different request under the key.
Joins(k) == entries[k].fingerprint # NoFingerprint
Execute(t, k, fp) ==
  /\ caller[t].at = "idle"
  /\ calls < MaxCalls /\ calls' = calls + 1
  /\ \/ /\ ~Joins(k)
        /\ entries' = [entries EXCEPT ![k] = [fingerprint |-> fp, done |-> FALSE, outcome |-> Unknown]]
        /\ Go(t, [Idle EXCEPT !.at = "run", !.key = k])
     \/ /\ Joins(k) /\ entries[k].fingerprint = fp
        /\ Go(t, [Idle EXCEPT !.at = "wait", !.key = k])
        /\ UNCHANGED entries
     \/ /\ Joins(k) /\ entries[k].fingerprint # fp
        /\ UNCHANGED <<caller, entries>>
  /\ UNCHANGED <<runs, returned>>

\* One turn of RetryExecutor.run: a retryable error below the limit is tried again.
Attempt(t, outcome) ==
  LET tried == caller[t].attempt + 1 IN
  /\ caller[t].at = "run"
  /\ runs' = [runs EXCEPT ![caller[t].key] = @ + 1]
  /\ \/ /\ outcome = Retryable /\ tried < MaxAttempts
        /\ Go(t, [caller[t] EXCEPT !.attempt = tried])
     \/ /\ outcome = Retryable /\ tried >= MaxAttempts
        /\ Go(t, [caller[t] EXCEPT !.at = "publish", !.outcome = Exhausted])
     \/ /\ outcome \in {Result, Fatal}
        /\ Go(t, [caller[t] EXCEPT !.at = "publish", !.outcome = outcome])
  /\ UNCHANGED <<entries, returned, calls>>

\* Under the entry's condition: the outcome is set, the entry is done, and the owner returns.
Publish(t) ==
  LET k == caller[t].key IN
  /\ caller[t].at = "publish"
  /\ entries' = [entries EXCEPT ![k].done = TRUE, ![k].outcome = caller[t].outcome]
  /\ returned' = [returned EXCEPT ![k] = @ \cup {caller[t].outcome}]
  /\ Go(t, Idle)
  /\ UNCHANGED <<runs, calls>>

\* A waiter finds the entry done, woken by notify_all or at once.
Answer(t) ==
  LET k == caller[t].key IN
  /\ caller[t].at = "wait" /\ entries[k].done
  /\ returned' = [returned EXCEPT ![k] = @ \cup {entries[k].outcome}]
  /\ Go(t, Idle)
  /\ UNCHANGED <<entries, runs, calls>>

Next ==
  \E t \in Callers :
    \/ \E k \in Keys, fp \in Fingerprints : Execute(t, k, fp)
    \/ \E outcome \in {Result, Retryable, Fatal} : Attempt(t, outcome)
    \/ Publish(t) \/ Answer(t)

Spec == Init /\ [][Next]_vars

-----------------------------------------------------------------------------

\* A key executes at most once, that is within one retry budget, however many callers
\* come before, while and after it runs, and they are all told the same; and a caller
\* who waits has an owner to wait for, or its answer is there.
OneExecution ==
  \A k \in Keys :
    /\ runs[k] <= MaxAttempts
    /\ Cardinality(returned[k]) <= 1 /\ returned[k] \subseteq Outcomes
    /\ (\E t \in Callers : caller[t].at = "wait" /\ caller[t].key = k) =>
         entries[k].done \/ \E o \in Callers : caller[o].key = k /\ caller[o].at \in {"run", "publish"}
=============================================================================
