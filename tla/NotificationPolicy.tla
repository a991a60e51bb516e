------------------------- MODULE NotificationPolicy -------------------------
(***************************************************************************)
(* Which notifications an organisation lets out (notification_policy.py),  *)
(* how its policy is set and read (notification_service.py and its         *)
(* routes), and what a delivery run goes by.  The policy is a row of a     *)
(* table; a process copies it once and never reads it again; and the one   *)
(* worker object of a process carries the policy of whoever started a run  *)
(* last.                                                                   *)
(***************************************************************************)
EXTENDS Integers, FiniteSets

CONSTANTS Orgs, Payloads,            \* organisations; what may be posted as a policy
          Servers, Requests,         \* processes; the requests under way at a time
          Hours, None,               \* of a day, from 0
          MaxSets, MaxFaults         \* bounds: policies set; restarts and failed writes

VARIABLES rows,       \* organization_notification_policies
          copies,     \* each process's store.notification_policies
          act,        \* what each request is doing, where, and the policy it goes by
          stale,      \* history: per organisation, the processes with a copy older than its row
          crossed,    \* history: organisations with two sets, or a set and a read, at once, or a lost set
          obeyed,     \* history: no notification was judged otherwise than by its row
          sets, faults
vars == <<rows, copies, act, stale, crossed, obeyed, sets, faults>>

Levels == {"DUE", "CRITICAL"}
Channels == {"IN_APP", "EMAIL", "WEBHOOK"}
Default == [enabled |-> TRUE, levels |-> Levels, channels |-> Channels,
            quiet_start |-> None, quiet_end |-> None, allow_external |-> TRUE]

\* validate_policy
Valid(p) == p.levels # {} /\ p.levels \subseteq Levels /\ p.channels # {} /\ p.channels \subseteq Channels

InQuietWindow_SameDay(h, start, end) ==
  start # None /\ end # None /\ start <= h /\ h < end
InQuietWindow(h, start, end) ==
  /\ start # None /\ end # None
  /\ IF start <= end THEN start <= h /\ h < end ELSE h >= start \/ h < end

\* evaluate
Allows(p, level, channel, h) ==
  /\ p.enabled
  /\ level \in p.levels /\ channel \in p.channels
  /\ channel \in {"EMAIL", "WEBHOOK"} => p.allow_external
  /\ ~InQuietWindow(h, p.quiet_start, p.quiet_end)

-----------------------------------------------------------------------------
Idle == [at |-> "idle", server |-> None, org |-> None, run |-> FALSE,
         policy |-> Default, excused |-> FALSE]

Init ==
  /\ rows = [o \in Orgs |-> None]
  /\ copies = [s \in Servers |-> [o \in Orgs |-> None]]
  /\ act = [t \in Requests |-> Idle]
  /\ stale = [o \in Orgs |-> {}] /\ crossed = {}
  /\ obeyed = TRUE /\ sets = 0 /\ faults = 0

At(t, step) == act[t].at = step
Go(t, a) == act' = [act EXCEPT ![t] = a]
Row(o) == IF rows[o] = None THEN Default ELSE rows[o]
Setting(o) == {t \in Requests : At(t, "setting") /\ act[t].org = o}
Excused(s, o) == s \in stale[o] \/ o \in crossed \/ Setting(o) # {}

\* Notifications judged by p, in the place of the row of the organisation: whatever
\* their level, channel and hour.
Judged(o, p, excused) ==
  obeyed' = (obeyed /\ (excused \/ \A level \in Levels, channel \in Channels, h \in 0..(Hours - 1) :
                                     Allows(p, level, channel, h) <=> Allows(Row(o), level, channel, h)))

\* queue and deliver judge their notification as soon as they have the policy.
\* run_worker hands it to the process's one worker: the runs under way there go on by it.
Begin(t, s, o, p, run) ==
  IF run
    THEN /\ act' = [u \in Requests |->
                      IF u = t THEN [at |-> "running", server |-> s, org |-> o, run |-> TRUE,
                                     policy |-> p, excused |-> Excused(s, o)]
                      ELSE IF act[u].server = s /\ At(u, "running")
                        THEN [act[u] EXCEPT !.policy = p, !.excused = TRUE]
                      ELSE act[u]]
         /\ UNCHANGED obeyed
    ELSE /\ Judged(o, p, Excused(s, o))
         /\ Go(t, Idle)

\* policy_for_organization: the process's copy, or else the row is asked for.
Ask(t, s, o, run) ==
  /\ At(t, "idle")
  /\ IF copies[s][o] # None
       THEN Begin(t, s, o, copies[s][o], run)
       ELSE /\ Go(t, [Idle EXCEPT !.at = "reading", !.server = s, !.org = o, !.run = run])
            /\ UNCHANGED obeyed
  /\ UNCHANGED <<rows, copies, stale, crossed, sets, faults>>

\* The row becomes the process's copy, if there is one; the default does not.
Read(t) ==
  LET o == act[t].org  s == act[t].server IN
  /\ At(t, "reading")
  /\ copies' = IF rows[o] = None THEN copies ELSE [copies EXCEPT ![s][o] = rows[o]]
  /\ crossed' = IF Setting(o) # {} THEN crossed \cup {o} ELSE crossed
  /\ stale' = [stale EXCEPT ![o] = @ \ {s}]
  /\ Begin(t, s, o, Row(o), act[t].run)
  /\ UNCHANGED <<rows, sets, faults>>

\* run_once judges the notifications of the run one by one: here the last of them.
Attempt(t) ==
  /\ At(t, "running")
  /\ Judged(act[t].org, act[t].policy, act[t].excused)
  /\ Go(t, Idle)
  /\ UNCHANGED <<rows, copies, stale, crossed, sets, faults>>

-----------------------------------------------------------------------------
\* set_policy: the process's copy first, the row in a transaction of its own.
Set(t, s, o, p) ==
  /\ sets < MaxSets /\ sets' = sets + 1
  /\ At(t, "idle") /\ Valid(p)
  /\ copies' = [copies EXCEPT ![s][o] = p]
  /\ crossed' = IF \E u \in Requests : act[u].org = o /\ act[u].at \in {"reading", "setting"}
                  THEN crossed \cup {o} ELSE crossed
  /\ Go(t, [Idle EXCEPT !.at = "setting", !.server = s, !.org = o, !.policy = p])
  /\ UNCHANGED <<rows, stale, obeyed, faults>>

\* Requests which took the policy of before may go by it.
Upsert(t) ==
  LET o == act[t].org IN
  /\ At(t, "setting")
  /\ \/ /\ rows' = [rows EXCEPT ![o] = act[t].policy]
        /\ stale' = [stale EXCEPT ![o] = {s \in Servers \ {act[t].server} : copies[s][o] # None}]
        /\ UNCHANGED <<crossed, faults>>
     \/ /\ faults < MaxFaults /\ faults' = faults + 1    \* the transaction fails: the copy stays
        /\ crossed' = crossed \cup {o} /\ UNCHANGED <<rows, stale>>
  /\ act' = [u \in Requests |-> IF u = t THEN Idle
                                ELSE IF act[u].org = o THEN [act[u] EXCEPT !.excused = TRUE]
                                ELSE act[u]]
  /\ UNCHANGED <<copies, obeyed, sets>>

Restart(s) ==
  /\ faults < MaxFaults /\ faults' = faults + 1
  /\ copies' = [copies EXCEPT ![s] = [o \in Orgs |-> None]]
  /\ act' = [t \in Requests |-> IF act[t].server = s THEN Idle ELSE act[t]]
  /\ stale' = [o \in Orgs |-> stale[o] \ {s}]
  /\ UNCHANGED <<rows, crossed, obeyed, sets>>

Next ==
  \/ \E s \in Servers : Restart(s)
  \/ \E t \in Requests :
       \/ Read(t) \/ Attempt(t) \/ Upsert(t)
       \/ \E s \in Servers, o \in Orgs :
            \/ \E run \in BOOLEAN : Ask(t, s, o, run)
            \/ \E p \in Payloads : Set(t, s, o, p)

Spec == Init /\ [][Next]_vars

-----------------------------------------------------------------------------
\* The quiet window is the stretch of hours from its start, round midnight if need
\* be, until its end; it is empty when they coincide.
Quiet(h, start, end) ==
  \E n \in 0..(Hours - 1) : /\ h = (start + n) % Hours
                            /\ \A m \in 0..n : (start + m) % Hours # end
WindowIsAStretch ==
  \A h, start, end \in 0..(Hours - 1) : InQuietWindow(h, start, end) <=> Quiet(h, start, end)

\* A notification goes out or is held as its organisation's row says, unless the
\* process copied the row before it was set elsewhere, two requests on the row crossed
\* (or one was lost), or another run has since begun in the process: that run's policy,
\* be it another organisation's, is then the one applied.
PolicyIsObeyed == obeyed
=============================================================================
