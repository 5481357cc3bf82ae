----------------------------- MODULE QuietHours -----------------------------
(***************************************************************************)
(* Quiet hours: NotifConsumer asks UserPreferenceService.isInQuietHours    *)
(* when it takes a job, and puts a job off by putting a copy of it on the  *)
(* queue, delayed until the quiet hours end.                               *)
(*                                                                         *)
(* Times are minutes; the clock of the server says which day it is.  The   *)
(* preference is the one that findById has found.                          *)
(***************************************************************************)
EXTENDS Integers

CONSTANTS
    Day,       \* minutes of a day
    Days,      \* days of the week
    MaxNow     \* bound on the clock

ASSUME DayAssumption == Day \in Nat \ {0} /\ Days \in Nat \ {0} /\ MaxNow \in Nat

VARIABLES
    preference,  \* of the user
    now,         \* minutes since the first day began
    job,         \* how the notification's job ended, or when it is due
    putOffs      \* how often it was put off today

quietVars == <<preference, now, job, putOffs>>

Minutes == 0..(Day - 1)

Preferences ==
    [muted : BOOLEAN, enabled : BOOLEAN, start : Minutes, end : Minutes,
     days : SUBSET (0..(Days - 1))]

Today == (now \div Day) % Days
Time == now % Day

\* isQuietHours, with both ends
IsQuietHours(t, s, e) == IF s <= e THEN s <= t /\ t <= e ELSE t >= s \/ t <= e

\* Mutant of DelayUntilQuietHoursEnd: without the minute after the end.
DelayToLastMinute(t, e) == e - t

\* getDelayUntilQuietHoursEnd: before midnight it is negative if the end is in
\* the morning.
DelayUntilQuietHoursEnd(t, e) == e + 1 - t

Jobs == [state : {"waiting", "delivered", "dropped"}, due : 0..(MaxNow + Day)]

QuietTypeOK ==
    /\ preference \in Preferences
    /\ now \in 0..MaxNow
    /\ job \in Jobs
    /\ putOffs \in 0..2

QuietInit ==
    /\ preference \in Preferences
    /\ now = 0
    /\ job = [state |-> "waiting", due |-> 0]
    /\ putOffs = 0

----------------------------------------------------------------------------
Tick ==
    /\ now < MaxNow
    /\ now' = now + 1
    /\ putOffs' = IF (now + 1) % Day = 0 THEN 0 ELSE putOffs
    /\ UNCHANGED <<preference, job>>

\* A worker takes the job, when it is due or later.
Due == job.state = "waiting" /\ job.due <= now

InQuietHours ==
    /\ preference.enabled
    /\ Today \in preference.days
    /\ IsQuietHours(Time, preference.start, preference.end)

Delay == DelayUntilQuietHoursEnd(Time, preference.end)

Deliver ==
    /\ Due
    /\ ~preference.muted /\ ~InQuietHours
    /\ job' = [job EXCEPT !.state = "delivered"]
    /\ UNCHANGED <<preference, now, putOffs>>

\* A muted category has no delay; a delay of 0 counts as none.
Drop ==
    /\ Due
    /\ preference.muted \/ (InQuietHours /\ Delay = 0)
    /\ job' = [job EXCEPT !.state = "dropped"]
    /\ UNCHANGED <<preference, now, putOffs>>

\* BullMQ takes a negative delay for none.  putOffs counts to 2.
PutOff ==
    /\ Due
    /\ ~preference.muted /\ InQuietHours /\ Delay # 0
    /\ job' = [job EXCEPT !.due = now + (IF Delay < 0 THEN 0 ELSE Delay)]
    /\ putOffs' = IF putOffs = 2 THEN 2 ELSE putOffs + 1
    /\ UNCHANGED <<preference, now>>

QuietNext == Tick \/ Deliver \/ Drop \/ PutOff

QuietSpec == QuietInit /\ [][QuietNext]_quietVars

----------------------------------------------------------------------------
(* Properties *)

\* Quiet hours that pass midnight: on their first evening the job goes round the
\* queue without a delay.
PassMidnight == preference.start > preference.end

\* One delay leads out of the quiet hours of a day, and loses nothing that is not
\* muted: at whatever minute the job is taken, the copy that is put off finds the
\* quiet hours over, unless they pass midnight.
OneDelayIsEnough ==
    ~PassMidnight =>
        /\ putOffs <= 1
        /\ job.state = "dropped" => preference.muted
=============================================================================
