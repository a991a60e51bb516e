------------------------ MODULE MCNotificationOutbox ------------------------
(* Small instances of NotificationOutbox. *)
EXTENDS NotificationOutbox, TLC

CONSTANTS s1, s2, t1, t2, d1, d2

OneProcess == [t \in Threads |-> s1]
TwoProcesses == t1 :> s1 @@ t2 :> s2
OwnKeys == [n \in Notifications |-> n]
OneKey == [n \in Notifications |-> 0]
=============================================================================
