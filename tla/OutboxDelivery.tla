---------------------------- MODULE OutboxDelivery ----------------------------
(***************************************************************************)
(* NotificationOutbox in two parts: `race` has the API processes and some  *)
(* stand-alone workers over few notifications, `daemons` leaves the        *)
(* delivery of all of them to the stand-alone workers, which may die.      *)
(***************************************************************************)
EXTENDS NotificationOutbox, TLC

CONSTANTS RaceDaemons, RaceNotifications

VARIABLE part

OwnKeys == [n \in Notifications |-> n]

\* Each thread is a process of its own, and goes by its name.
OwnProcess == [t \in Threads |-> t]
Symmetry == Permutations(Threads)

RaceNext ==
  /\ \/ \E t \in Threads : ThreadStep(t)
     \/ \E d \in RaceDaemons : DaemonStep(d)
     \/ \E n \in Notifications : NextAttemptIsDue(n)
  /\ restarts' = 0
  /\ \A n \in Notifications \ RaceNotifications : ~Present(db'[n])

\* One of the API processes queues all of them.
WorkersNext ==
  \/ \E t \in Threads, n \in Notifications :
       Queue(t, n) /\ \A s \in Servers \ {ServerOf[t]} : store[s] = NoRows
  \/ \E d \in Daemons : DaemonStep(d)
  \/ \E n \in Notifications : NextAttemptIsDue(n)

PartsInit == Init /\ part \in {"race", "daemons"}

PartsNext ==
  /\ UNCHANGED part
  /\ \/ part = "race" /\ RaceNext
     \/ part = "daemons" /\ WorkersNext

PartsSpec == PartsInit /\ [][PartsNext]_<<vars, part>>

-----------------------------------------------------------------------------
\* Stand-alone workers send one message, unless an outcome was lost
\* (AtMostOneMessage of NotificationOutbox.tla).
WorkersSendAtMostOne == part = "daemons" => AtMostOneMessage
=============================================================================
