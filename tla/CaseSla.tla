------------------------------ MODULE CaseSla ------------------------------
(***************************************************************************)
(* The service-level clock of a case: business calendars                   *)
(* (src/business_calendar.py), the time a case has left                    *)
(* (src/review_sla.py), its priority (src/review_queue.py), and the pauses *)
(* of src/case_operations_service.py, as one process keeps them.           *)
(*                                                                         *)
(* The unit of time is four hours, which divides every SLA and the day.    *)
(***************************************************************************)
EXTENDS Integers, FiniteSets

LOCAL INSTANCE FiniteSetsExt

CONSTANTS
  Calendars,     \* [workdays, start, end, holidays] as calendar_from_dict accepts them
  Created,       \* when the case may have been created
  Points,        \* what signals, contradictions and gaps may add to its score
  Horizon        \* bound: the last instant

VARIABLES
  calendar, created, points,
  now,
  pausedAt,      \* since when the clock is paused; NotPaused when it runs
  paused,        \* sla_paused_seconds, in units
  worked,        \* history: the business time which passed while the clock ran
  revised        \* history: the calendar was changed after a pause

vars == <<calendar, created, points, now, pausedAt, paused, worked, revised>>

Day == 6
Week == 7
NotPaused == -1
IsPaused == pausedAt # NotPaused

-----------------------------------------------------------------------------
(* BusinessCalendar.                                                       *)

IsBusinessDay(c, d) == (d % Week) \in c.workdays /\ d \notin c.holidays
Opens(c, d) == d * Day + c.start
Closes(c, d) == d * Day + c.end

BusinessTimeBetween(c, start, end) ==
  LET Overlap(d) == Max({0, Min({end, Closes(c, d)}) - Max({start, Opens(c, d)})})
      days == {d \in (start \div Day)..(end \div Day) : IsBusinessDay(c, d)}
  IN IF end <= start THEN 0 ELSE MapThenSumSet(Overlap, days)

\* The walk of add_business_hours, from one day to the next until the time is used up.
AddBusinessTime(c, start, time) ==
  LET walk[cursor \in Nat, left \in Nat] ==
        LET d == cursor \div Day
            from == Max({cursor, Opens(c, d)})
            open == IsBusinessDay(c, d) /\ from < Closes(c, d)
            available == IF open THEN Closes(c, d) - from ELSE 0
        IN IF open /\ left <= available THEN from + left ELSE walk[(d + 1) * Day, left - available]
  IN IF time <= 0 THEN start ELSE walk[start, time]

-----------------------------------------------------------------------------
(* calculate_sla.                                                          *)

\* score_case: a case gains five points a day, up to twenty.
Score == points + Min({20, 5 * ((now - created) \div Day)})
Priority == LET s == Score IN
            CASE s >= 80 -> "CRITICAL" [] s >= 50 -> "HIGH" [] s >= 20 -> "NORMAL" [] OTHER -> "LOW"
SlaTime == LET p == Priority IN
           CASE p = "CRITICAL" -> 1 [] p = "HIGH" -> 3 [] p = "NORMAL" -> 6 [] OTHER -> 18

PausedTime_Closed == paused
PausedTime == paused + (IF IsPaused THEN BusinessTimeBetween(calendar, pausedAt, now) ELSE 0)
Active == Max({0, BusinessTimeBetween(calendar, created, now) - PausedTime})
Remaining == SlaTime - Active
Due == LET left == Remaining IN
       IF left <= 0 THEN now + left ELSE AddBusinessTime(calendar, now, left)

\* The signal of signal_from_sla: a paused case keeps the one it has.
Signal == LET left == Remaining IN
          CASE 4 * left < -SlaTime -> "CRITICAL" [] left < 0 -> "DUE" [] OTHER -> "NONE"

-----------------------------------------------------------------------------

Init ==
  /\ calendar \in Calendars /\ created \in Created /\ points \in Points
  /\ now = created
  /\ pausedAt = NotPaused /\ paused = 0
  /\ worked = 0 /\ revised = FALSE

Working(c, t) == IsBusinessDay(c, t \div Day) /\ Opens(c, t \div Day) <= t /\ t < Closes(c, t \div Day)

Tick ==
  /\ now < Horizon
  /\ now' = now + 1
  /\ worked' = worked + (IF Working(calendar, now) /\ ~IsPaused THEN 1 ELSE 0)
  /\ UNCHANGED <<calendar, created, points, pausedAt, paused, revised>>

Pause ==
  /\ ~IsPaused
  /\ pausedAt' = now
  /\ UNCHANGED <<calendar, created, points, now, paused, worked, revised>>

Resume ==
  /\ IsPaused
  /\ paused' = paused + BusinessTimeBetween(calendar, pausedAt, now)
  /\ pausedAt' = NotPaused
  /\ UNCHANGED <<calendar, created, points, now, worked, revised>>

\* The organization's calendar replaces the one before; what was counted by that one stays.
SetCalendar ==
  /\ ~revised
  /\ calendar' \in Calendars
  /\ revised' = TRUE
  /\ UNCHANGED <<created, points, now, pausedAt, paused, worked>>

\* Signals, contradictions, gaps or suggestions appear or go.
Rescore == points' \in Points /\ UNCHANGED <<calendar, created, now, pausedAt, paused, worked, revised>>

Next == Tick \/ Pause \/ Resume \/ SetCalendar \/ Rescore

Spec == Init /\ [][Next]_vars

-----------------------------------------------------------------------------

\* The time added is the time that passes: from any instant, the instant that
\* add_business_hours reaches is as many business hours later, and the sum of
\* business_seconds_between is the number of working instants between the two.  (Pauses
\* do not enter into it: it is looked at in the states before the first.)
CalendarAgrees ==
  (paused = 0 /\ ~IsPaused) => \A time \in 1..SlaTime :
    LET end == AddBusinessTime(calendar, now, time) IN
    /\ BusinessTimeBetween(calendar, now, end) = time
    /\ Cardinality({t \in now..(end - 1) : Working(calendar, t)}) = time

\* However often the clock was paused and resumed, in business hours or out of them,
\* the time counted against the case is the business time that passed while it ran.
ActiveIsWorked == ~revised => Active = worked

Level(s) == CASE s = "NONE" -> 0 [] s = "DUE" -> 1 [] OTHER -> 2
DeadlineKept ==
  (calendar' = calendar /\ points' = points) =>
    /\ Level(Signal') >= Level(Signal)
    /\ (~revised /\ ~IsPaused /\ ~IsPaused' /\ SlaTime' = SlaTime /\ Remaining' > 0) => Due' = Due

\* While nothing but time passes, the deadline shown for a running case does not move
\* until it is reached (unless the calendar was revised), and the signal raised for a case never goes back.
DeadlineStands == [][DeadlineKept]_vars
=============================================================================
