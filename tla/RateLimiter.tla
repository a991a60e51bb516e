---------------------------- MODULE RateLimiter ----------------------------
(***************************************************************************)
(* RateLimiter of src/security_hardening.py, which the API asks about each *)
(* client.  The clock is read before the lock is taken, and a new client   *)
(* takes the place of another when the limiter keeps MaxKeys of them.      *)
(***************************************************************************)
EXTENDS Naturals, Sequences, FiniteSets, Functions

CONSTANTS
  Callers, Clients,
  Limit, Window, MaxKeys,
  NotAsking,
  MaxTime                \* bound: the last instant

VARIABLES
  hits,                  \* _hits: the clients it keeps, and the times of their requests by number
  asking,                \* the client each thread asks about, and the clock it read
  clock,
  served,                \* history: when each client was let through, in fact, while it is not late
  late                   \* history: clients evicted, or served later than the clock was read

vars == <<hits, asking, clock, served, late>>

Never == [n \in {} |-> 0]

Init ==
  /\ hits = [c \in {} |-> Never]
  /\ asking = [t \in Callers |-> NotAsking]
  /\ clock = 0
  /\ served = [c \in Clients |-> <<>>]
  /\ late = {}

Ask(t, c) ==
  /\ asking[t] = NotAsking
  /\ asking' = [asking EXCEPT ![t] = [client |-> c, now |-> clock]]
  /\ UNCHANGED <<hits, clock, served, late>>

Noted(c) == IF c \in DOMAIN hits THEN hits[c] ELSE Never

\* The requests of a client that are still in the window.
Recent(c, now) == Restrict(Noted(c), {n \in DOMAIN Noted(c) : now < Noted(c)[n] + Window})

\* The number of the last request, and the one of the next.
Latest(f) == CHOOSE n \in DOMAIN f : \A m \in DOMAIN f : m <= n
Following(f) == IF DOMAIN f = {} THEN 1 ELSE Latest(f) + 1

\* The clients whose last request is the oldest; min takes the first of them.
LastHit(c) == hits[c][Latest(hits[c])]
Oldest == {c \in DOMAIN hits : \A d \in DOMAIN hits : LastHit(c) <= LastHit(d)}

\* Who makes room for a client: nobody, or one of those.
Evicted(c) == IF c \notin DOMAIN hits /\ Cardinality(DOMAIN hits) >= MaxKeys
                THEN {{o} : o \in Oldest} ELSE {{}}

\* allow, under the lock.
Decide(c, now) ==
  LET recent == Recent(c, now)
      next == Following(Noted(c))
      counted == [n \in DOMAIN recent \cup {next} |-> IF n = next THEN now ELSE recent[n]]
      Keep(gone, times) ==
        hits' = [d \in (DOMAIN hits \ gone) \cup {c} |-> IF d = c THEN times ELSE hits[d]]
      slow == IF now = clock THEN {} ELSE {c} IN
  \/ /\ Cardinality(DOMAIN recent) >= Limit
     /\ Keep({}, recent)
     /\ UNCHANGED <<served, late>>
  \/ /\ Cardinality(DOMAIN recent) < Limit
     /\ \E gone \in Evicted(c) : Keep(gone, counted) /\ late' = late \cup slow \cup gone
     /\ served' = [d \in Clients |-> IF d \in late' THEN <<>>
                                    ELSE IF d = c THEN Append(served[d], clock) ELSE served[d]]
Allow(t) ==
  /\ asking[t] # NotAsking
  /\ asking' = [asking EXCEPT ![t] = NotAsking]
  /\ Decide(asking[t].client, asking[t].now)
  /\ UNCHANGED clock

Tick == clock < MaxTime /\ clock' = clock + 1 /\ UNCHANGED <<hits, asking, served, late>>

Next == Tick \/ \E t \in Callers : Allow(t) \/ \E c \in Clients : Ask(t, c)

Spec == Init /\ [][Next]_vars

-----------------------------------------------------------------------------

\* A client is let through at most Limit times in any window, in fact and not only by
\* the times noted, unless it was evicted for others or a thread which served it was
\* overtaken by the clock before it had the lock.
WindowHolds ==
  \A c \in Clients \ late : \A now \in 0..MaxTime :
    Cardinality({i \in 1..Len(served[c]) : served[c][i] <= now /\ now < served[c][i] + Window}) <= Limit
=============================================================================
