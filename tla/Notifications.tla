--------------------------- MODULE Notifications ---------------------------
(***************************************************************************)
(* A COMMENT_LIKED event on its way to its recipient: EventService puts a   *)
(* job on the queue, NotifConsumer takes it, asks UserPreferenceService     *)
(* whether the recipient is to be left alone, and starts the handler of     *)
(* CommentNotificationService without awaiting it.  The handler creates the *)
(* notification, asks Redis whether the recipient is online (Presence),     *)
(* and sends it to the streams of its own process or counts it as unread.   *)
(*                                                                         *)
(* BullMQ tries a job again when the process that had it dies, and, up to   *)
(* its number of attempts, when it throws.                                 *)
(***************************************************************************)
EXTENDS Presence

CONSTANTS
    Events,        \* likes of comments
    Jobs,          \* jobs of the queue
    Notifications, \* notification documents
    MaxAttempts    \* attempts of a job

ASSUME AttemptsAssumption == MaxAttempts \in Nat \ {0}

VARIABLES
    recipient, \* recipient[e]: the owner of the comment
    job,       \* job[j]: event, step, process and failed attempts of job j
    note,      \* note[d]: the notification document d
    task,      \* task[d]: process and step of the handler that creates d
    unread,    \* unread[u]: Redis counter of u's unread notifications
    there,     \* there[d]: streams of the recipient on d's process when d was created
    received,  \* received[d]: streams that d was sent to
    reading    \* notifications that a PATCH has found, and is to update

vars == <<presenceVars, recipient, job, note, task, unread, there, received, reading>>

NoJob == [pc |-> "none"]
NoNote == [status |-> "none"]
NoTask == [pc |-> "none"]
JobStates == [pc : {"waiting", "check", "finish", "done", "muted", "failed"},
              event : Events, at : Servers, tries : 0..(MaxAttempts - 1)]
Notes == [status : {"pending", "sent", "read", "deleted"}, event : Events]
Tasks == [pc : {"create", "ask", "emit", "mark", "count", "over", "dead"},
          event : Events, at : Servers]

TypeOK ==
    /\ PresenceTypeOK
    /\ recipient \in [Events -> Users]
    /\ job \in [Jobs -> JobStates \cup {NoJob}]
    /\ note \in [Notifications -> Notes \cup {NoNote}]
    /\ task \in [Notifications -> Tasks \cup {NoTask}]
    /\ unread \in [Users -> Nat]
    /\ there \in [Notifications -> SUBSET Streams]
    /\ received \in [Notifications -> SUBSET Streams]
    /\ reading \subseteq Notifications

Init ==
    /\ PresenceInit
    /\ recipient \in [Events -> Users]
    /\ job = [j \in Jobs |-> NoJob]
    /\ note = [d \in Notifications |-> NoNote]
    /\ task = [d \in Notifications |-> NoTask]
    /\ unread = [u \in Users |-> 0]
    /\ there = [d \in Notifications |-> {}]
    /\ received = [d \in Notifications |-> {}]
    /\ reading = {}

----------------------------------------------------------------------------
(* The queue *)

JobsOf(e) == {j \in Jobs : job[j] # NoJob /\ job[j].event = e}
Announced(e) == JobsOf(e) # {}
NewJob(j, e, p) ==
    job[j] = NoJob /\ job' = [job EXCEPT ![j] = [pc |-> "waiting", event |-> e, at |-> p,
                                                tries |-> 0]]

\* handleCommentLikedEvent: queue.add, which nobody awaits.
Announce(e) ==
    /\ ~Announced(e)
    /\ \E j \in Jobs, p \in Servers : NewJob(j, e, p)
    /\ UNCHANGED <<presenceVars, recipient, note, task, unread, there, received, reading>>

Take(j) ==
    /\ job[j].pc = "waiting"
    /\ \E p \in Servers : job' = [job EXCEPT ![j].pc = "check", ![j].at = p]
    /\ UNCHANGED <<presenceVars, recipient, note, task, unread, there, received, reading>>

\* Mutant of CheckFails: the job is tried again whatever happens.
CheckFailsForever(j) ==
    /\ job[j].pc = "check"
    /\ job' = [job EXCEPT ![j].pc = "waiting", ![j].tries = @ + 1]
    /\ UNCHANGED <<presenceVars, recipient, note, task, unread, there, received, reading>>

\* The query for the preferences fails, and the job throws.
CheckFails(j) ==
    /\ job[j].pc = "check"
    /\ job' = IF job[j].tries + 1 < MaxAttempts
                THEN [job EXCEPT ![j].pc = "waiting", ![j].tries = @ + 1]
                ELSE [job EXCEPT ![j].pc = "failed"]
    /\ UNCHANGED <<presenceVars, recipient, note, task, unread, there, received, reading>>

\* isInQuietHours says so without a delay, the category being muted: the job ends.
\* Preferences are looked up by _id and the clock is not modelled: which answer
\* comes is left open.
Mute(j) ==
    /\ job[j].pc = "check"
    /\ job' = [job EXCEPT ![j].pc = "muted"]
    /\ UNCHANGED <<presenceVars, recipient, note, task, unread, there, received, reading>>

\* Mutant of Delay: processNotification does not return after queue.add.
DelayAndGoOn(j) ==
    /\ job[j].pc = "check"
    /\ \E k \in Jobs : job[k] = NoJob /\
         job' = [job EXCEPT ![k] = [pc |-> "waiting", event |-> job[j].event,
                                    at |-> job[j].at, tries |-> 0]]
    /\ UNCHANGED <<presenceVars, recipient, note, task, unread, there, received, reading>>

\* Quiet hours: another job is added, to run when they end.
Delay(j) ==
    /\ job[j].pc = "check"
    /\ \E k \in Jobs : job[k] = NoJob /\
         job' = [job EXCEPT ![j].pc = "finish",
                            ![k] = [pc |-> "waiting", event |-> job[j].event,
                                    at |-> job[j].at, tries |-> 0]]
    /\ UNCHANGED <<presenceVars, recipient, note, task, unread, there, received, reading>>

\* Mutant of Start: there is no handler for the job, and nobody notices.
StartUnhandled(j) ==
    /\ job[j].pc = "check"
    /\ job' = [job EXCEPT ![j].pc = "finish"]
    /\ UNCHANGED <<presenceVars, recipient, note, task, unread, there, received, reading>>

\* handler(notifData): its promise is dropped.
Start(j) ==
    /\ job[j].pc = "check"
    /\ \E d \in Notifications :
          /\ task[d] = NoTask
          /\ task' = [task EXCEPT ![d] = [pc |-> "create", event |-> job[j].event,
                                          at |-> job[j].at]]
    /\ job' = [job EXCEPT ![j].pc = "finish"]
    /\ UNCHANGED <<presenceVars, recipient, note, unread, there, received, reading>>

\* BullMQ moves the job to the completed ones.
Finish(j) ==
    /\ job[j].pc = "finish"
    /\ job' = [job EXCEPT ![j].pc = "done"]
    /\ UNCHANGED <<presenceVars, recipient, note, task, unread, there, received, reading>>

----------------------------------------------------------------------------
(* CommentNotificationService.sendCommentLikedNotification *)

HandlersOf(e) == {d \in Notifications : task[d] # NoTask /\ task[d].event = e}
To(d) == recipient[task[d].event]
Step(d, s) == task' = [task EXCEPT ![d].pc = s]
StreamsHere(d, states) == {c \in Of(To(d), states) : stream[c].server = task[d].at}

Create(d) ==
    /\ task[d].pc = "create"
    /\ note' = [note EXCEPT ![d] = [status |-> "pending", event |-> task[d].event]]
    /\ there' = [there EXCEPT ![d] = StreamsHere(d, {"open"})]
    /\ Step(d, "ask")
    /\ UNCHANGED <<presenceVars, recipient, job, unread, received, reading>>

\* Mutant of IsUserOnline: one stream is not enough.
IsUserOnlineTwice(u) == u \in key /\ count[u] > 1
IsUserOnline(u) == u \in key

Ask(d) ==
    /\ task[d].pc = "ask"
    /\ Step(d, IF IsUserOnline(To(d)) THEN "emit" ELSE "count")
    /\ UNCHANGED <<presenceVars, recipient, job, note, unread, there, received, reading>>

\* The Subject is that of the handler's process.
Emit(d) ==
    /\ task[d].pc = "emit"
    /\ received' = [received EXCEPT ![d] = StreamsHere(d, {"adding", "open"})]
    /\ Step(d, "mark")
    /\ UNCHANGED <<presenceVars, recipient, job, note, unread, there, reading>>

SetStatus(D, s) ==
    note' = [d \in Notifications |-> IF d \in D /\ note[d].status # "deleted"
                                       THEN [note[d] EXCEPT !.status = s] ELSE note[d]]

MarkSent(d) ==
    /\ task[d].pc = "mark"
    /\ SetStatus({d}, "sent")
    /\ Step(d, "over")
    /\ UNCHANGED <<presenceVars, recipient, job, unread, there, received, reading>>

CountUnread(d) ==
    /\ task[d].pc = "count"
    /\ unread' = [unread EXCEPT ![To(d)] = @ + 1]
    /\ Step(d, "over")
    /\ UNCHANGED <<presenceVars, recipient, job, note, there, received, reading>>

----------------------------------------------------------------------------
(* NotificationService *)

\* Mutant of FindNotification: the pipe finds PENDING notifications too.
FindAnyNotification(d) ==
    /\ note[d].status \in {"pending", "sent"}
    /\ reading' = reading \cup {d}
    /\ UNCHANGED <<presenceVars, recipient, job, note, task, unread, there, received>>

\* notificationByIdPipe finds the SENT ones of the current user.
FindNotification(d) ==
    /\ note[d].status = "sent"
    /\ reading' = reading \cup {d}
    /\ UNCHANGED <<presenceVars, recipient, job, note, task, unread, there, received>>

MarkNotificationAsRead(d) ==
    /\ d \in reading
    /\ SetStatus({d}, "read")
    /\ reading' = reading \ {d}
    /\ UNCHANGED <<presenceVars, recipient, job, task, unread, there, received>>

MarkAllNotificationsAsRead(u) ==
    LET sent == {d \in Notifications : note[d].status = "sent" /\ recipient[note[d].event] = u}
    IN
    /\ sent # {}
    /\ SetStatus(sent, "read")
    /\ UNCHANGED <<presenceVars, recipient, job, task, unread, there, received, reading>>

\* The two crons, a week or a month after d was created.
DeleteNotification(d) ==
    /\ note[d].status \in {"pending", "sent", "read"}
    /\ task[d].pc \in {"over", "dead"}
    /\ SetStatus({d}, "deleted")
    /\ UNCHANGED <<presenceVars, recipient, job, task, unread, there, received, reading>>

----------------------------------------------------------------------------
\* Process p dies, with its streams, jobs and handlers; BullMQ finds the jobs
\* stalled and lets another worker take them.
Crash(p) ==
    /\ CrashStreams(p)
    /\ job' = [j \in Jobs |-> IF job[j].pc \in {"check", "finish"} /\ job[j].at = p
                                THEN [job[j] EXCEPT !.pc = "waiting"] ELSE job[j]]
    /\ task' = [d \in Notifications |->
                  IF task[d].pc \notin {"none", "over"} /\ task[d].at = p
                    THEN [task[d] EXCEPT !.pc = "dead"] ELSE task[d]]
    /\ UNCHANGED <<recipient, note, unread, there, received, reading>>

JobStep(j) == \/ Take(j) \/ CheckFails(j) \/ Mute(j) \/ Delay(j) \/ Start(j) \/ Finish(j)
TaskStep(d) == \/ Create(d) \/ Ask(d) \/ Emit(d) \/ MarkSent(d) \/ CountUnread(d)

Next ==
    \/ \E c \in Streams :
          /\ StreamStep(c)
          /\ UNCHANGED <<recipient, job, note, task, unread, there, received, reading>>
    \/ \E e \in Events : Announce(e)
    \/ \E j \in Jobs : JobStep(j)
    \/ \E d \in Notifications : \/ TaskStep(d) \/ FindNotification(d)
                                \/ MarkNotificationAsRead(d) \/ DeleteNotification(d)
    \/ \E u \in Users : MarkAllNotificationsAsRead(u)
    \/ \E p \in Servers : Crash(p)

Spec == Init /\ [][Next]_vars

----------------------------------------------------------------------------
(* Properties *)

\* What was read never becomes unread: the handler's update to SENT, one PATCH,
\* read-all and the crons never undo READ, in whatever order they arrive.
ReadStaysRead ==
    [][\A d \in Notifications :
          note[d].status = "read" => note'[d].status \in {"read", "deleted"}]_vars

\* While no process dies, an event is notified once, however often quiet hours
\* put it off and its job is tried again.
NotifiedOnce ==
    crashes = 0 => \A e \in Events : \A c, d \in HandlersOf(e) : c = d

\* A stream that is open on the handler's process from the creation of the
\* notification until the handler is through receives it, if the streams of a
\* user come and go one after the other: presence does not lose those who stay.
StayersReceive ==
    ~Overlap =>
        \A d \in Notifications : task[d].pc = "over" =>
            \A c \in there[d] : stream[c].pc = "open" => c \in received[d]

\* The job completes before the handler does anything; all the same, once the
\* jobs of an event have ended and its handlers are through, it was sent or
\* counted as unread, unless its category is muted, its attempts are used up or a
\* process died.
NothingForgotten ==
    \A e \in Events :
        LET ended == \A j \in JobsOf(e) : job[j].pc \in {"done", "muted", "failed"}
            through == \A d \in HandlersOf(e) : task[d].pc \in {"over", "dead"}
        IN Announced(e) /\ ended /\ through =>
             \/ \E d \in HandlersOf(e) : task[d].pc = "over"
             \/ \E j \in JobsOf(e) : job[j].pc \in {"muted", "failed"}
             \/ crashes > 0
============================================================================
