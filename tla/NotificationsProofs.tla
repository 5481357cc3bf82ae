------------------------ MODULE NotificationsProofs ------------------------
(***************************************************************************)
(* Theorems about Presence and Notifications, for any number of streams,   *)
(* users, servers, events, jobs, handlers and crashes.                     *)
(***************************************************************************)
EXTENDS Notifications, FiniteSetTheorems, TLAPS

(* Presence: streams and the counters of users in Redis.                    *)

\* Without Overlap, one stream of a user moves at a time, so what its removal read
\* is still the counter when it acts on it.
OneMoves == \A u \in Users : \A c, d \in Moving(u) : c = d
ReadIsFresh ==
    \A c \in Streams : stream[c].pc = "removing" => stream[c].read = count[stream[c].user]
SerialInv == ~Overlap => OneMoves /\ ReadIsFresh

\* Crashes leave a counter too high, never too low.
Covered == ~Overlap => \A u \in Users :
    Cardinality(Counted(u)) <= count[u] /\ (u \in key <=> count[u] > 0)

PInv == PresenceTypeOK /\ SerialInv /\ Covered /\ PresenceExact

----------------------------------------------------------------------------
LEMMA CountedFinite ==
    ASSUME NEW u PROVE IsFiniteSet(Counted(u)) /\ Cardinality(Counted(u)) \in Nat
<1>1. Counted(u) \in SUBSET Streams
  BY DEF Counted, Of
<1> QED BY <1>1, StreamsAssumption, FS_Subset, FS_CardinalityType

LEMMA PresenceInitInv == PresenceInit => PInv
<1> SUFFICES ASSUME PresenceInit PROVE PInv
  OBVIOUS
<1>1. PresenceTypeOK
  BY PresenceAssumption DEF PresenceInit, PresenceTypeOK, StreamStates
<1>2. \A c \in Streams : stream[c].pc = "new"
  BY DEF PresenceInit
<1>3. \A u \in Users : Moving(u) = {} /\ Counted(u) = {}
  BY <1>2 DEF Moving, Counted, Of
<1>4. SerialInv
  BY <1>2, <1>3 DEF SerialInv, OneMoves, ReadIsFresh
<1>5. PresenceExact /\ Covered
  BY <1>3, FS_EmptySet DEF PresenceExact, Covered, PresenceInit
<1> QED BY <1>1, <1>4, <1>5 DEF PInv

LEMMA PresenceTypeStep == PresenceTypeOK /\ [PresenceNext]_presenceVars => PresenceTypeOK'
<1> SUFFICES ASSUME PresenceTypeOK, [PresenceNext]_presenceVars PROVE PresenceTypeOK'
  OBVIOUS
<1> USE DEF PresenceTypeOK, StreamStates
<1>1. ASSUME NEW c \in Streams, StreamStep(c) PROVE PresenceTypeOK'
  BY <1>1 DEF StreamStep, Connect, AddConnection, Disconnect, ReadCount, RemoveConnection,
              Goto
<1>2. ASSUME NEW p \in Servers, CrashStreams(p) PROVE PresenceTypeOK'
  BY <1>2, PresenceAssumption DEF CrashStreams
<1>3. CASE UNCHANGED presenceVars
  BY <1>3 DEF presenceVars
<1> QED BY <1>1, <1>2, <1>3 DEF PresenceNext

\* A step of stream c leaves the other streams, and the counters of other users,
\* as they are.
LEMMA OthersUntouched ==
    ASSUME PresenceTypeOK, NEW c \in Streams, StreamStep(c)
    PROVE  /\ crashes' = crashes
           /\ stream'[c].user = stream[c].user
           /\ \A d \in Streams \ {c} : stream'[d] = stream[d]
           /\ \A u \in Users \ {stream[c].user} :
                 /\ count'[u] = count[u] /\ (u \in key' <=> u \in key)
                 /\ Moving(u)' = Moving(u) /\ Counted(u)' = Counted(u)
<1> USE DEF PresenceTypeOK, StreamStates
<1>1. /\ crashes' = crashes
      /\ stream'[c].user = stream[c].user
      /\ \A d \in Streams \ {c} : stream'[d] = stream[d]
      /\ \A u \in Users \ {stream[c].user} : count'[u] = count[u] /\ (u \in key' <=> u \in key)
  BY DEF StreamStep, Connect, AddConnection, Disconnect, ReadCount, RemoveConnection, Goto
<1>2. ASSUME NEW u \in Users \ {stream[c].user}, NEW S PROVE Of(u, S)' = Of(u, S)
  BY <1>1 DEF Of
<1> QED BY <1>1, <1>2 DEF Moving, Counted

\* How a step of stream c changes the streams of its user.
LEMMA OwnStreams ==
    ASSUME PresenceTypeOK, NEW c \in Streams, StreamStep(c), NEW u \in Users, u = stream[c].user
    PROVE  /\ stream[c].pc = "new" => /\ Moving(u)' = Moving(u) \cup {c}
                                      /\ Counted(u)' = Counted(u)
           /\ stream[c].pc = "adding" => /\ Moving(u)' = Moving(u) \ {c}
                                         /\ Counted(u)' = Counted(u) \cup {c}
           /\ stream[c].pc = "open" => /\ Moving(u)' = Moving(u) \cup {c}
                                       /\ Counted(u)' = Counted(u)
           /\ stream[c].pc = "leaving" => /\ Moving(u)' = Moving(u)
                                          /\ Counted(u)' = Counted(u)
           /\ stream[c].pc = "removing" => /\ Moving(u)' = Moving(u) \ {c}
                                           /\ Counted(u)' = Counted(u) \ {c}
<1>1. /\ stream'[c].user = u
      /\ \A d \in Streams \ {c} : stream'[d] = stream[d]
  BY OthersUntouched
<1>2. /\ stream[c].pc = "new" => stream'[c].pc = "adding"
      /\ stream[c].pc = "adding" => stream'[c].pc = "open"
      /\ stream[c].pc = "open" => stream'[c].pc = "leaving"
      /\ stream[c].pc = "leaving" => stream'[c].pc = "removing"
      /\ stream[c].pc = "removing" => stream'[c].pc = "gone"
  BY DEF PresenceTypeOK, StreamStates, StreamStep, Connect, AddConnection, Disconnect,
         ReadCount, RemoveConnection, Goto
<1> QED BY <1>1, <1>2 DEF Moving, Counted, Of

LEMMA SerialStep ==
    ASSUME PInv, NEW c \in Streams, StreamStep(c), ~Overlap
    PROVE  OneMoves' /\ ReadIsFresh'
<1>0. PICK u \in Users : u = stream[c].user
  BY DEF PInv, PresenceTypeOK, StreamStates
<1>1. PresenceTypeOK /\ OneMoves /\ ReadIsFresh /\ ~Overlap
  BY DEF PInv, SerialInv
<1>2. stream[c].pc \in {"new", "open"} => Moving(u) = {}
  BY <1>0, <1>1 DEF StreamStep, Connect, AddConnection, Disconnect, ReadCount,
                    RemoveConnection, MayMove
<1>3. stream[c].pc \in {"new", "adding", "open", "leaving", "removing"}
  BY DEF StreamStep, Connect, AddConnection, Disconnect, ReadCount, RemoveConnection
<1>4. Moving(u)' \subseteq Moving(u) \/ Moving(u)' = {c}
  BY <1>0, <1>1, <1>2, <1>3, OwnStreams
<1>5. OneMoves'
  <2> SUFFICES ASSUME NEW v \in Users PROVE (\A a, b \in Moving(v) : a = b)'
    BY DEF OneMoves
  <2>1. CASE v = u
    BY <2>1, <1>1, <1>4 DEF OneMoves
  <2>2. CASE v # u
    BY <2>2, <1>0, <1>1, OthersUntouched DEF OneMoves
  <2> QED BY <2>1, <2>2
<1>6. ReadIsFresh'
  <2> SUFFICES ASSUME NEW d \in Streams, stream'[d].pc = "removing"
               PROVE  stream'[d].read = count'[stream'[d].user]
    BY DEF ReadIsFresh
  <2>1. CASE d = c
    BY <2>1, <1>1 DEF StreamStep, Connect, AddConnection, Disconnect, ReadCount,
                      RemoveConnection, Goto, PresenceTypeOK, StreamStates
  <2>2. CASE d # c
    <3>1. stream'[d] = stream[d] /\ stream[d].read = count[stream[d].user]
          /\ stream[d].user \in Users
      BY <2>2, <1>1, OthersUntouched DEF ReadIsFresh, PresenceTypeOK, StreamStates
    <3>2. CASE stream[d].user # u
      BY <3>1, <3>2, <1>0, <1>1, OthersUntouched
    <3>3. CASE stream[d].user = u
      <4>1. d \in Moving(u)
        BY <3>1, <3>3 DEF Moving, Of
      <4>2. c \notin Moving(u)
        BY <4>1, <2>2, <1>1 DEF OneMoves
      <4>3. stream[c].pc \in {"new", "open"}
        BY <4>2, <1>0, <1>3 DEF Moving, Of
      <4> QED BY <4>1, <4>3, <1>2
    <3> QED BY <3>2, <3>3
  <2> QED BY <2>1, <2>2
<1> QED BY <1>5, <1>6

LEMMA CountStep ==
    ASSUME PInv, NEW c \in Streams, StreamStep(c), ~Overlap
    PROVE  Covered' /\ PresenceExact'
<1>0. PICK u \in Users : u = stream[c].user
  BY DEF PInv, PresenceTypeOK, StreamStates
<1>1. /\ PresenceTypeOK /\ ReadIsFresh
      /\ \A v \in Users : /\ Cardinality(Counted(v)) <= count[v]
                          /\ v \in key <=> count[v] > 0
                          /\ crashes = 0 => count[v] = Cardinality(Counted(v))
  BY DEF PInv, SerialInv, Covered, PresenceExact
<1> SUFFICES ASSUME NEW v \in Users
             PROVE  /\ Cardinality(Counted(v)') <= count'[v]
                    /\ v \in key' <=> count'[v] > 0
                    /\ crashes = 0 => count'[v] = Cardinality(Counted(v)')
  BY <1>1, OthersUntouched DEF Covered, PresenceExact
<1>2. CASE v # u
  BY <1>0, <1>1, <1>2, OthersUntouched
<1>3. CASE v = u
  <2>0. PICK m \in Nat, n \in Nat : /\ m = Cardinality(Counted(u)) /\ IsFiniteSet(Counted(u))
                                    /\ count[u] = n /\ m <= n
    BY <1>1, CountedFinite DEF PresenceTypeOK
  <2>1. CASE stream[c].pc \in {"new", "open", "leaving"}
    <3>1. count' = count /\ key' = key
      BY <2>1 DEF StreamStep, Connect, AddConnection, Disconnect, ReadCount, RemoveConnection
    <3>2. Counted(u)' = Counted(u)
      BY <2>1, <1>0, <1>1, OwnStreams
    <3> QED BY <3>1, <3>2, <1>1, <1>3
  <2>2. CASE stream[c].pc = "adding"
    <3>1. count'[u] = n + 1 /\ u \in key'
      BY <2>0, <2>2, <1>0, <1>1 DEF PresenceTypeOK, StreamStep, Connect, AddConnection,
                                    Disconnect, ReadCount, RemoveConnection
    <3>2. Counted(u)' = Counted(u) \cup {c} /\ c \notin Counted(u)
      BY <2>2, <1>0, <1>1, OwnStreams DEF Counted, Of
    <3>3. Cardinality(Counted(u) \cup {c}) = m + 1
      BY <3>2, <2>0, FS_AddElement
    <3>4. Cardinality(Counted(v)') = m + 1 /\ count'[v] = n + 1 /\ v \in key'
      BY <3>1, <3>2, <3>3, <1>3
    <3>5. crashes = 0 => n = m
      BY <2>0, <1>1
    <3> QED BY <3>4, <3>5, <2>0
  <2>3. CASE stream[c].pc = "removing"
    <3>1. stream[c].read = n
      BY <2>0, <2>3, <1>0, <1>1 DEF ReadIsFresh
    <3>2. Counted(u)' = Counted(u) \ {c} /\ c \in Counted(u)
      BY <2>3, <1>0, <1>1, OwnStreams DEF Counted, Of
    <3>3. Cardinality(Counted(u)') = m - 1 /\ m # 0
      BY <3>2, <2>0, FS_RemoveElement, FS_EmptySet
    <3>4. RemoveConnection(c)
      BY <2>3 DEF StreamStep, Connect, AddConnection, Disconnect, ReadCount
    <3>5. CASE n <= 1
      <4>1. count'[u] = 0 /\ u \notin key'
        BY <3>1, <3>4, <3>5, <1>0, <1>1 DEF RemoveConnection, PresenceTypeOK
      <4> QED BY <4>1, <3>3, <3>5, <2>0, <1>3
    <3>6. CASE n > 1
      <4>1. count'[u] = n - 1 /\ u \in key'
        BY <3>1, <3>4, <3>6, <2>0, <1>0, <1>1 DEF RemoveConnection, PresenceTypeOK
      <4> QED BY <4>1, <3>3, <3>6, <2>0, <1>1, <1>3
    <3> QED BY <3>5, <3>6, <2>0
  <2> QED BY <2>1, <2>2, <2>3 DEF StreamStep, Connect, AddConnection, Disconnect, ReadCount,
                                  RemoveConnection
<1> QED BY <1>2, <1>3

LEMMA CrashStep ==
    ASSUME PInv, NEW p \in Servers, CrashStreams(p)
    PROVE  SerialInv' /\ Covered' /\ PresenceExact'
<1>1. crashes' # 0 /\ key' = key /\ count' = count
  BY DEF CrashStreams, PInv, PresenceTypeOK
<1>2. ASSUME NEW c \in Streams
      PROVE  stream'[c] = stream[c] \/ stream'[c].pc = "gone"
  <2>1. DOMAIN stream[c] = {"pc", "user", "server", "read"}
    BY DEF PInv, PresenceTypeOK, StreamStates
  <2> QED BY <2>1 DEF CrashStreams
<1>3. ASSUME NEW u \in Users
      PROVE  Moving(u)' \subseteq Moving(u) /\ Counted(u)' \subseteq Counted(u)
  BY <1>2 DEF Moving, Counted, Of
<1>4. SerialInv'
  BY <1>1, <1>2, <1>3 DEF PInv, SerialInv, OneMoves, ReadIsFresh
<1>5. ASSUME NEW u \in Users
      PROVE  /\ Cardinality(Counted(u)') \in Nat /\ Cardinality(Counted(u)) \in Nat
             /\ Cardinality(Counted(u)') <= Cardinality(Counted(u))
  BY <1>3, CountedFinite, FS_Subset, FS_CardinalityType
<1>6. Covered'
  BY <1>1, <1>5 DEF PInv, Covered, PresenceTypeOK
<1> QED BY <1>1, <1>4, <1>6 DEF PresenceExact

LEMMA PresenceStep == PInv /\ [PresenceNext]_presenceVars => PInv'
<1> SUFFICES ASSUME PInv, [PresenceNext]_presenceVars PROVE PInv'
  OBVIOUS
<1>1. PresenceTypeOK'
  BY PresenceTypeStep DEF PInv
<1>2. ASSUME NEW c \in Streams, StreamStep(c) PROVE SerialInv' /\ Covered' /\ PresenceExact'
  BY <1>2, SerialStep, CountStep DEF SerialInv, Covered, PresenceExact
<1>3. ASSUME NEW p \in Servers, CrashStreams(p) PROVE SerialInv' /\ Covered' /\ PresenceExact'
  BY <1>3, CrashStep
<1>4. CASE UNCHANGED presenceVars
  <2>1. stream' = stream /\ key' = key /\ count' = count /\ crashes' = crashes
    BY <1>4 DEF presenceVars
  <2>2. ASSUME NEW u \in Users PROVE Moving(u)' = Moving(u) /\ Counted(u)' = Counted(u)
    BY <2>1 DEF Moving, Counted, Of
  <2>3. SerialInv'
    BY <2>1, <2>2 DEF PInv, SerialInv, OneMoves, ReadIsFresh
  <2>4. Covered' /\ PresenceExact'
    BY <2>1, <2>2 DEF PInv, Covered, PresenceExact
  <2> QED BY <1>1, <2>3, <2>4 DEF PInv
<1> QED BY <1>1, <1>2, <1>3, <1>4 DEF PInv, PresenceNext

\* While nothing crashes and the streams of a user come and go one after the
\* other, Redis knows how many streams every user has, on whatever servers.
THEOREM PresenceExactThm == PresenceSpec => []PresenceExact
<1>1. PInv => PresenceExact
  BY DEF PInv
<1> QED BY PresenceInitInv, PresenceStep, <1>1, PTL DEF PresenceSpec

----------------------------------------------------------------------------
(* Notifications.                                                           *)

\* Only a handler that is through has left a notification that was sent, and only
\* such a notification is read.
Final == {"sent", "read", "deleted"}
NoteInv == \A d \in Notifications :
    /\ note[d].status \in Final => task[d].pc \in {"over", "dead"}
    /\ d \in reading => note[d].status \in Final
    /\ task[d].pc \in {"ask", "emit", "mark", "count", "over"} => note[d] # NoNote

\* An event has one carrier: a job that is to start its handler, or the handler.
LiveJobs(e) == {j \in JobsOf(e) : job[j].pc \in {"waiting", "check"}}
OneCarrier == crashes = 0 => \A e \in Events :
    /\ \A i, j \in LiveJobs(e) : i = j
    /\ \A c, d \in HandlersOf(e) : c = d
    /\ LiveJobs(e) = {} \/ HandlersOf(e) = {}
    /\ HandlersOf(e) # {} => Announced(e)

\* It is not lost before it is notified, unless it is muted or fails.
Carried == \A e \in Events : Announced(e) =>
    \/ \E j \in JobsOf(e) : job[j].pc \in {"waiting", "check", "muted", "failed"}
    \/ \E d \in HandlersOf(e) : task[d].pc # "dead"
    \/ crashes > 0

\* A stream that was there when d was created does not open again, and while it is
\* open it is not overlooked.
StayInv == ~Overlap => \A d \in Notifications :
    task[d].pc \in {"ask", "emit", "mark", "count", "over"} => \A c \in there[d] :
        /\ stream[c].pc \notin {"new", "adding"}
        /\ stream[c].pc = "open" =>
              /\ stream[c].user = To(d) /\ stream[c].server = task[d].at
              /\ task[d].pc # "count"
              /\ task[d].pc \in {"mark", "over"} => c \in received[d]

IInv == TypeOK /\ NoteInv /\ OneCarrier /\ Carried /\ PInv /\ StayInv

----------------------------------------------------------------------------
LEMMA InitInv == Init => IInv
<1> SUFFICES ASSUME Init PROVE IInv
  OBVIOUS
<1>1. TypeOK
  BY PresenceInitInv DEF Init, TypeOK, PInv, NoNote
<1>2. NoteInv
  BY DEF Init, NoteInv, Final, NoNote, NoTask
<1>3. \A e \in Events : JobsOf(e) = {} /\ HandlersOf(e) = {}
  BY DEF Init, JobsOf, HandlersOf
<1>4. OneCarrier /\ Carried
  BY <1>3 DEF OneCarrier, Carried, LiveJobs, Announced
<1>5. PInv /\ StayInv
  BY PresenceInitInv DEF Init, StayInv, NoTask
<1> QED BY <1>1, <1>2, <1>4, <1>5 DEF IInv

\* Every step is a step of Presence, or leaves it alone.
LEMMA IsPresenceStep == [Next]_vars => [PresenceNext]_presenceVars
BY DEF Next, vars, JobStep, TaskStep, Announce, Take, CheckFails, Mute, Delay, Start, Finish,
       Create, Ask, Emit, MarkSent, CountUnread, FindNotification, MarkNotificationAsRead,
       MarkAllNotificationsAsRead, DeleteNotification, Crash, PresenceNext

LEMMA JobType ==
    ASSUME TypeOK, NEW j \in Jobs, job[j] # NoJob
    PROVE  /\ job[j] \in JobStates /\ job[j].event \in Events /\ job[j].at \in Servers
           /\ job[j].tries \in 0..(MaxAttempts - 1)
<1>1. job[j] \in JobStates
  BY DEF TypeOK
<1> QED BY <1>1 DEF JobStates

LEMMA TaskType ==
    ASSUME TypeOK, NEW d \in Notifications, task[d] # NoTask
    PROVE  task[d] \in Tasks /\ task[d].event \in Events /\ task[d].at \in Servers
<1>1. task[d] \in Tasks
  BY DEF TypeOK
<1> QED BY <1>1 DEF Tasks

LEMMA SetStatusType ==
    ASSUME TypeOK, NEW D, NEW st \in {"sent", "read", "deleted"}, SetStatus(D, st),
           \A d \in Notifications : d \in D => note[d] # NoNote
    PROVE  note' \in [Notifications -> Notes \cup {NoNote}]
<1> SUFFICES ASSUME NEW d \in Notifications
             PROVE  (IF d \in D /\ note[d].status # "deleted"
                       THEN [note[d] EXCEPT !.status = st] ELSE note[d]) \in Notes \cup {NoNote}
  BY DEF SetStatus
<1>1. note[d] \in Notes \cup {NoNote}
  BY DEF TypeOK
<1> QED BY <1>1 DEF Notes

LEMMA JobStepType ==
    ASSUME TypeOK, NEW j \in Jobs, JobStep(j) \/ \E e \in Events : Announce(e)
    PROVE  /\ job' \in [Jobs -> JobStates \cup {NoJob}]
           /\ task' \in [Notifications -> Tasks \cup {NoTask}]
<1> USE AttemptsAssumption
<1>1. ASSUME NEW k \in Jobs, job[k].pc \in {"waiting", "check", "finish"}
      PROVE  job[k] \in JobStates /\ job[k].event \in Events /\ job[k].at \in Servers
             /\ job[k].tries \in 0..(MaxAttempts - 1)
  BY <1>1, JobType DEF NoJob
<1>2. CASE \E e \in Events : Announce(e)
  BY <1>2 DEF Announce, NewJob, TypeOK, JobStates
<1>3. CASE Take(j)
  <2>1. PICK p \in Servers : job' = [job EXCEPT ![j].pc = "check", ![j].at = p]
    BY <1>3 DEF Take
  <2>2. [job[j] EXCEPT !.pc = "check", !.at = p] \in JobStates
    BY <1>3, <1>1 DEF Take, JobStates
  <2>3. job' = [job EXCEPT ![j] = [job[j] EXCEPT !.pc = "check", !.at = p]]
    BY <2>1 DEF TypeOK
  <2> QED BY <1>3, <2>2, <2>3 DEF Take, TypeOK
<1>4. CASE CheckFails(j)
  BY <1>4, <1>1 DEF CheckFails, TypeOK, JobStates
<1>5. CASE Mute(j) \/ Finish(j)
  BY <1>5, <1>1 DEF Mute, Finish, TypeOK, JobStates
<1>6. CASE Delay(j)
  BY <1>6, <1>1 DEF Delay, TypeOK, JobStates
<1>7. CASE Start(j)
  BY <1>7, <1>1 DEF Start, TypeOK, JobStates, Tasks
<1> QED BY <1>2, <1>3, <1>4, <1>5, <1>6, <1>7 DEF JobStep

LEMMA TaskStepType ==
    ASSUME TypeOK, NoteInv, NEW d \in Notifications, TaskStep(d)
    PROVE  TypeOK'
<1>1. task[d] \in Tasks /\ task[d].event \in Events /\ task[d].at \in Servers
  BY TaskType DEF TaskStep, Create, Ask, Emit, MarkSent, CountUnread, NoTask
<1>2. To(d) \in Users
  BY <1>1 DEF To, TypeOK
<1>3. PresenceTypeOK' /\ recipient' \in [Events -> Users]
  BY DEF TaskStep, Create, Ask, Emit, MarkSent, CountUnread, TypeOK, PresenceTypeOK,
         presenceVars
<1>4. task' \in [Notifications -> Tasks \cup {NoTask}]
  BY <1>1 DEF TaskStep, Create, Ask, Emit, MarkSent, CountUnread, Step, Tasks, TypeOK
<1>5. \A S : StreamsHere(d, S) \in SUBSET Streams
  BY DEF StreamsHere, Of
<1>6. CASE Create(d)
  BY <1>1, <1>3, <1>4, <1>5, <1>6 DEF Create, TypeOK, Notes
<1>7. CASE Ask(d)
  BY <1>3, <1>4, <1>7 DEF Ask, TypeOK
<1>8. CASE Emit(d)
  BY <1>3, <1>4, <1>5, <1>8 DEF Emit, TypeOK
<1>9. CASE MarkSent(d)
  <2>1. note' \in [Notifications -> Notes \cup {NoNote}]
    BY <1>9, SetStatusType DEF MarkSent, NoteInv
  <2> QED BY <1>3, <1>4, <1>9, <2>1 DEF MarkSent, TypeOK
<1>10. CASE CountUnread(d)
  BY <1>2, <1>3, <1>4, <1>10 DEF CountUnread, TypeOK
<1> QED BY <1>6, <1>7, <1>8, <1>9, <1>10 DEF TaskStep

LEMMA CrashType == ASSUME TypeOK, NEW p \in Servers, Crash(p), PresenceTypeOK' PROVE TypeOK'
<1>1. job' \in [Jobs -> JobStates \cup {NoJob}]
  <2> SUFFICES ASSUME NEW j \in Jobs
               PROVE  (IF job[j].pc \in {"check", "finish"} /\ job[j].at = p
                         THEN [job[j] EXCEPT !.pc = "waiting"] ELSE job[j])
                      \in JobStates \cup {NoJob}
    BY DEF Crash
  <2>1. job[j] \in JobStates \/ job[j] = NoJob
    BY DEF TypeOK
  <2> QED BY <2>1 DEF JobStates, NoJob
<1>2. task' \in [Notifications -> Tasks \cup {NoTask}]
  <2> SUFFICES ASSUME NEW d \in Notifications
               PROVE  (IF task[d].pc \notin {"none", "over"} /\ task[d].at = p
                         THEN [task[d] EXCEPT !.pc = "dead"] ELSE task[d])
                      \in Tasks \cup {NoTask}
    BY DEF Crash
  <2>1. task[d] \in Tasks \/ task[d] = NoTask
    BY DEF TypeOK
  <2> QED BY <2>1 DEF Tasks, NoTask
<1> QED BY <1>1, <1>2 DEF Crash, TypeOK

LEMMA TypeStep == TypeOK /\ NoteInv /\ [Next]_vars => TypeOK'
<1> SUFFICES ASSUME TypeOK, NoteInv, [Next]_vars PROVE TypeOK'
  OBVIOUS
<1>1. PresenceTypeOK'
  BY IsPresenceStep, PresenceTypeStep DEF TypeOK
<1>2. ASSUME NEW c \in Streams, StreamStep(c),
             UNCHANGED <<recipient, job, note, task, unread, there, received, reading>>
      PROVE  TypeOK'
  BY <1>1, <1>2 DEF TypeOK
<1>3. ASSUME NEW e \in Events, Announce(e) PROVE TypeOK'
  <2>1. PICK j \in Jobs : TRUE
    BY <1>3 DEF Announce
  <2> QED BY <1>1, <1>3, <2>1, JobStepType DEF Announce, TypeOK
<1>4. ASSUME NEW j \in Jobs, JobStep(j) PROVE TypeOK'
  <2>1. UNCHANGED <<recipient, note, unread, there, received, reading>>
    BY <1>4 DEF JobStep, Take, CheckFails, Mute, Delay, Start, Finish
  <2> QED BY <1>1, <1>4, <2>1, JobStepType DEF TypeOK
<1>5. ASSUME NEW d \in Notifications, TaskStep(d) PROVE TypeOK'
  BY <1>5, TaskStepType
<1>6. ASSUME NEW d \in Notifications, FindNotification(d) PROVE TypeOK'
  BY <1>1, <1>6 DEF FindNotification, TypeOK
<1>7. ASSUME NEW d \in Notifications, MarkNotificationAsRead(d) PROVE TypeOK'
  <2>1. note' \in [Notifications -> Notes \cup {NoNote}]
    BY <1>7, SetStatusType DEF MarkNotificationAsRead, NoteInv, Final, NoNote
  <2> QED BY <1>1, <1>7, <2>1 DEF MarkNotificationAsRead, TypeOK
<1>8. ASSUME NEW d \in Notifications, DeleteNotification(d) PROVE TypeOK'
  <2>1. note' \in [Notifications -> Notes \cup {NoNote}]
    BY <1>8, SetStatusType DEF DeleteNotification, NoNote
  <2> QED BY <1>1, <1>8, <2>1 DEF DeleteNotification, TypeOK
<1>9. ASSUME NEW u \in Users, MarkAllNotificationsAsRead(u) PROVE TypeOK'
  <2>1. PICK D : SetStatus(D, "read") /\ \A d \in D : note[d].status = "sent"
    BY <1>9 DEF MarkAllNotificationsAsRead
  <2>2. note' \in [Notifications -> Notes \cup {NoNote}]
    BY <2>1, SetStatusType DEF NoNote
  <2> QED BY <1>1, <1>9, <2>2 DEF MarkAllNotificationsAsRead, TypeOK
<1>10. ASSUME NEW p \in Servers, Crash(p) PROVE TypeOK'
  BY <1>1, <1>10, CrashType
<1>11. CASE UNCHANGED vars
  BY <1>1, <1>11 DEF vars, TypeOK
<1> QED BY <1>2, <1>3, <1>4, <1>5, <1>6, <1>7, <1>8, <1>9, <1>10, <1>11 DEF Next

----------------------------------------------------------------------------
\* What an update does to a notification.
LEMMA SetStatusEffect ==
    ASSUME TypeOK, NEW D, NEW st \in {"sent", "read", "deleted"}, SetStatus(D, st),
           NEW d \in Notifications
    PROVE  \/ note'[d] = note[d]
           \/ d \in D /\ note'[d].status = st /\ note'[d] # NoNote
<1>1. note[d] \in Notes \cup {NoNote}
  BY DEF TypeOK
<1> QED BY <1>1 DEF SetStatus, Notes, NoNote

\* The handler of a notification that was sent, read or deleted does nothing more.
LEMMA NoteStep ==
    ASSUME TypeOK, NoteInv, [Next]_vars, NEW d \in Notifications
    PROVE  /\ note'[d].status \in Final => task'[d].pc \in {"over", "dead"}
           /\ d \in reading' => note'[d].status \in Final
           /\ task'[d].pc \in {"ask", "emit", "mark", "count", "over"} => note'[d] # NoNote
           /\ note[d].status = "read" => note'[d].status \in {"read", "deleted"}
<1> USE DEF NoteInv, Final
<1>0. /\ task[d] \in Tasks \cup {NoTask} /\ note[d] \in Notes \cup {NoNote}
      /\ DOMAIN task = Notifications /\ DOMAIN note = Notifications
  BY DEF TypeOK
<1>1. CASE UNCHANGED <<note, task, reading>>
  BY <1>1
<1>2. ASSUME NEW j \in Jobs, Start(j)
      PROVE  /\ note' = note /\ reading' = reading
             /\ \/ task'[d] = task[d]
                \/ task[d].pc = "none" /\ task'[d].pc = "create"
  <2>1. PICK c \in Notifications, t \in {"create"} :
           /\ task[c] = NoTask
           /\ task' = [task EXCEPT ![c] = [pc |-> t, event |-> job[j].event, at |-> job[j].at]]
    BY <1>2 DEF Start
  <2> QED BY <1>2, <2>1, <1>0 DEF Start, NoTask
<1>3. ASSUME NEW c \in Notifications, TaskStep(c)
      PROVE  /\ reading' = reading
             /\ d # c => (note'[d] = note[d] /\ task'[d] = task[d])
  BY <1>3, <1>0, SetStatusEffect DEF TaskStep, Create, Ask, Emit, MarkSent, CountUnread, Step
<1>4. CASE TaskStep(d)
  <2>1. task[d] \in Tasks
    BY <1>0, <1>4 DEF TaskStep, Create, Ask, Emit, MarkSent, CountUnread, NoTask
  <2>2. CASE Create(d)
    BY <1>0, <2>1, <2>2 DEF Create, Step, Tasks, NoNote
  <2>3. CASE Ask(d) \/ Emit(d) \/ CountUnread(d)
    BY <1>0, <2>1, <2>3 DEF Ask, Emit, CountUnread, Step, Tasks
  <2>4. CASE MarkSent(d)
    BY <1>0, <2>1, <2>4, SetStatusEffect DEF MarkSent, Step, Tasks
  <2> QED BY <1>4, <2>2, <2>3, <2>4 DEF TaskStep
<1>5. ASSUME NEW c \in Notifications, FindNotification(c)
      PROVE  /\ note' = note /\ task' = task
             /\ d \in reading' => d \in reading \/ note[d].status = "sent"
  BY <1>5 DEF FindNotification
<1>6. ASSUME NEW c \in Notifications, MarkNotificationAsRead(c)
      PROVE  /\ task' = task /\ reading' \subseteq reading
             /\ \/ note'[d] = note[d]
                \/ /\ note'[d].status = "read" /\ note'[d] # NoNote
                   /\ note[d].status \in Final
  BY <1>6, SetStatusEffect DEF MarkNotificationAsRead
<1>7. ASSUME NEW c \in Notifications, DeleteNotification(c)
      PROVE  /\ task' = task /\ reading' = reading
             /\ \/ note'[d] = note[d]
                \/ /\ note'[d].status = "deleted" /\ note'[d] # NoNote
                   /\ task[d].pc \in {"over", "dead"}
  BY <1>7, SetStatusEffect DEF DeleteNotification
<1>8. ASSUME NEW u \in Users, MarkAllNotificationsAsRead(u)
      PROVE  /\ task' = task /\ reading' = reading
             /\ \/ note'[d] = note[d]
                \/ /\ note'[d].status = "read" /\ note'[d] # NoNote
                   /\ note[d].status \in Final
  <2>1. PICK D : SetStatus(D, "read") /\ \A c \in D : note[c].status = "sent"
    BY <1>8 DEF MarkAllNotificationsAsRead
  <2> QED BY <1>8, <2>1, SetStatusEffect DEF MarkAllNotificationsAsRead
<1>9. ASSUME NEW p \in Servers, Crash(p)
      PROVE  /\ note' = note /\ reading' = reading
             /\ \/ task'[d] = task[d]
                \/ task[d].pc \notin {"none", "over"} /\ task'[d].pc = "dead"
  BY <1>9, <1>0 DEF Crash, Tasks, NoTask
<1>10. UNCHANGED <<note, task, reading>>
       \/ (\E j \in Jobs : Start(j))
       \/ (\E c \in Notifications : \/ TaskStep(c) \/ FindNotification(c)
                                      \/ MarkNotificationAsRead(c) \/ DeleteNotification(c))
       \/ (\E u \in Users : MarkAllNotificationsAsRead(u))
       \/ (\E p \in Servers : Crash(p))
  BY DEF Next, vars, JobStep, Announce, Take, CheckFails, Mute, Delay, Finish
<1>11. ASSUME NEW c \in Notifications, TaskStep(c), c # d
       PROVE  note'[d] = note[d] /\ task'[d] = task[d] /\ reading' = reading
  BY <1>3, <1>11
<1> QED BY <1>1, <1>2, <1>4, <1>5, <1>6, <1>7, <1>8, <1>9, <1>10, <1>11

----------------------------------------------------------------------------
\* Job j of event e became another one: it stays a job of e, if it was one.
LEMMA SameJobs ==
    ASSUME TypeOK, NEW j \in Jobs, Take(j) \/ CheckFails(j) \/ Mute(j) \/ Finish(j)
    PROVE  /\ task' = task /\ crashes' = crashes
           /\ \A e : JobsOf(e)' = JobsOf(e)
           /\ \A e : LiveJobs(e)' \subseteq LiveJobs(e)
           /\ \A k \in Jobs \ {j} : job'[k] = job[k]
           /\ job[j].pc \in {"waiting", "check"} =>
                job'[j].pc \in {"waiting", "check", "muted", "failed"}
           /\ job[j].pc \notin {"muted", "failed"}
<1>1. job[j] \in JobStates /\ job[j] # NoJob
  BY JobType DEF Take, CheckFails, Mute, Finish, NoJob
<1>2. /\ DOMAIN job = Jobs
      /\ DOMAIN job[j] = {"pc", "event", "at", "tries"}
  BY <1>1 DEF TypeOK, JobStates
<1>3. /\ task' = task /\ crashes' = crashes
      /\ \A k \in Jobs \ {j} : job'[k] = job[k]
  BY <1>2 DEF Take, CheckFails, Mute, Finish, presenceVars
<1>4. /\ job'[j].event = job[j].event /\ job'[j] # NoJob
      /\ \/ job[j].pc \in {"waiting", "check"}
            /\ job'[j].pc \in {"waiting", "check", "muted", "failed"}
         \/ job[j].pc = "finish" /\ job'[j].pc = "done"
  <2>1. CASE Take(j)
    BY <1>1, <1>2, <2>1 DEF Take, NoJob
  <2>2. CASE CheckFails(j)
    BY <1>1, <1>2, <2>2 DEF CheckFails, NoJob
  <2>3. CASE Mute(j) \/ Finish(j)
    BY <1>1, <1>2, <2>3 DEF Mute, Finish, NoJob
  <2> QED BY <2>1, <2>2, <2>3
<1>5. \A e : JobsOf(e)' = JobsOf(e)
  BY <1>1, <1>3, <1>4 DEF JobsOf
<1>6. \A e : LiveJobs(e)' \subseteq LiveJobs(e)
  BY <1>3, <1>4, <1>5 DEF LiveJobs, JobsOf
<1> QED BY <1>3, <1>4, <1>5, <1>6

\* A new job is the only change of Announce; Delay and Start replace a live job.
LEMMA AnnounceEffect ==
    ASSUME TypeOK, NEW a \in Events, Announce(a)
    PROVE  /\ task' = task /\ crashes' = crashes
           /\ \A e : e # a => JobsOf(e)' = JobsOf(e) /\ LiveJobs(e)' = LiveJobs(e)
           /\ \A i \in Jobs : job[i].pc \in {"muted", "failed"} => job'[i] = job[i]
           /\ \E j \in Jobs : JobsOf(a)' = {j} /\ LiveJobs(a)' = {j}
<1>1. PICK j \in Jobs, p \in Servers : NewJob(j, a, p)
  BY DEF Announce
<1>2. /\ job[j] = NoJob /\ DOMAIN job = Jobs
      /\ \A k \in Jobs \ {j} : job'[k] = job[k]
      /\ job'[j].pc = "waiting" /\ job'[j].event = a /\ job'[j] # NoJob
  BY <1>1 DEF NewJob, TypeOK, NoJob
<1>3. \A e : JobsOf(e)' = JobsOf(e) \cup (IF e = a THEN {j} ELSE {})
  BY <1>2 DEF JobsOf
<1>4. \A e : LiveJobs(e)' = LiveJobs(e) \cup (IF e = a THEN {j} ELSE {})
  BY <1>2, <1>3 DEF LiveJobs, JobsOf
<1>5. JobsOf(a) = {} /\ LiveJobs(a) = {}
  BY DEF Announce, Announced, LiveJobs
<1>6. \A i \in Jobs : job[i].pc \in {"muted", "failed"} => job'[i] = job[i]
  BY <1>2 DEF NoJob
<1> QED BY <1>3, <1>4, <1>5, <1>6 DEF Announce, presenceVars

LEMMA DelayEffect ==
    ASSUME TypeOK, NEW j \in Jobs, Delay(j), NEW a, a = job[j].event
    PROVE  /\ task' = task /\ crashes' = crashes
           /\ j \in LiveJobs(a)
           /\ \A e : e # a => JobsOf(e)' = JobsOf(e) /\ LiveJobs(e)' = LiveJobs(e)
           /\ \A e : JobsOf(e) \subseteq JobsOf(e)'
           /\ \A i \in Jobs : job[i].pc \in {"muted", "failed"} => job'[i] = job[i]
           /\ \E k \in Jobs : LiveJobs(a)' = (LiveJobs(a) \ {j}) \cup {k}
<1>1. job[j] \in JobStates /\ job[j] # NoJob
  BY JobType DEF Delay, NoJob
<1>2. /\ DOMAIN job = Jobs
      /\ DOMAIN job[j] = {"pc", "event", "at", "tries"}
  BY <1>1 DEF TypeOK, JobStates
<1>3. PICK k \in Jobs :
         /\ job[k] = NoJob
         /\ job' = [job EXCEPT ![j].pc = "finish",
                               ![k] = [pc |-> "waiting", event |-> job[j].event,
                                       at |-> job[j].at, tries |-> 0]]
  BY DEF Delay
<1>4. /\ k # j
      /\ \A i \in Jobs \ {j, k} : job'[i] = job[i]
      /\ job'[j].pc = "finish" /\ job'[j].event = job[j].event /\ job'[j] # NoJob
      /\ job'[k].pc = "waiting" /\ job'[k].event = job[j].event /\ job'[k] # NoJob
  BY <1>1, <1>2, <1>3 DEF NoJob
<1>5. j \in LiveJobs(a)
  BY <1>1 DEF LiveJobs, JobsOf, Delay
<1>6. \A e : JobsOf(e)' = JobsOf(e) \cup (IF e = a THEN {k} ELSE {})
  BY <1>1, <1>3, <1>4 DEF JobsOf
<1>7. LiveJobs(a)' = (LiveJobs(a) \ {j}) \cup {k}
  BY <1>1, <1>3, <1>4, <1>6 DEF LiveJobs, JobsOf
<1>8. ASSUME NEW e, e # a PROVE LiveJobs(e)' = LiveJobs(e)
  <2>1. JobsOf(e)' = JobsOf(e) /\ j \notin JobsOf(e) /\ k \notin JobsOf(e)
    BY <1>3, <1>6, <1>8 DEF JobsOf
  <2>2. \A i \in JobsOf(e) : job'[i] = job[i]
    BY <1>4, <2>1 DEF JobsOf
  <2> QED BY <2>1, <2>2 DEF LiveJobs
<1>9. \A i \in Jobs : job[i].pc \in {"muted", "failed"} => job'[i] = job[i]
  <2>1. job[j].pc = "check" /\ job[k].pc = "none"
    BY <1>3 DEF NoJob, Delay
  <2> QED BY <1>4, <2>1
<1> QED BY <1>5, <1>6, <1>7, <1>8, <1>9 DEF Delay, presenceVars

LEMMA StartEffect ==
    ASSUME TypeOK, NEW j \in Jobs, Start(j), NEW a, a = job[j].event
    PROVE  /\ crashes' = crashes
           /\ j \in LiveJobs(a)
           /\ \A e : JobsOf(e)' = JobsOf(e)
           /\ \A e : e # a =>
                 LiveJobs(e)' = LiveJobs(e) /\ HandlersOf(e)' = HandlersOf(e)
           /\ LiveJobs(a)' = LiveJobs(a) \ {j}
           /\ \A d \in Notifications : task[d] # NoTask => task'[d] = task[d]
           /\ \A i \in Jobs : job[i].pc \in {"muted", "failed"} => job'[i] = job[i]
           /\ \E d \in Notifications :
                 /\ HandlersOf(a)' = HandlersOf(a) \cup {d}
                 /\ task'[d].pc # "dead"
<1>1. job[j] \in JobStates /\ job[j] # NoJob
  BY JobType DEF Start, NoJob
<1>2. /\ DOMAIN job = Jobs /\ DOMAIN task = Notifications
      /\ DOMAIN job[j] = {"pc", "event", "at", "tries"}
  BY <1>1 DEF TypeOK, JobStates
<1>3. PICK d \in Notifications :
         /\ task[d] = NoTask
         /\ task' = [task EXCEPT ![d] = [pc |-> "create", event |-> job[j].event,
                                         at |-> job[j].at]]
  BY DEF Start
<1>4. /\ \A i \in Jobs \ {j} : job'[i] = job[i]
      /\ job'[j].pc = "finish" /\ job'[j].event = job[j].event /\ job'[j] # NoJob
  BY <1>2 DEF Start, NoJob
<1>5. /\ \A c \in Notifications \ {d} : task'[c] = task[c]
      /\ task'[d].pc = "create" /\ task'[d].event = job[j].event /\ task'[d] # NoTask
  BY <1>2, <1>3 DEF NoTask
<1>6. j \in LiveJobs(a)
  BY <1>1 DEF LiveJobs, JobsOf, Start
<1>7. \A e : JobsOf(e)' = JobsOf(e)
  BY <1>1, <1>4 DEF JobsOf
<1>8. \A e : LiveJobs(e)' = IF e = a THEN LiveJobs(e) \ {j} ELSE LiveJobs(e)
  BY <1>1, <1>4, <1>7 DEF LiveJobs, JobsOf
<1>9. HandlersOf(a)' = HandlersOf(a) \cup {d}
  BY <1>3, <1>5 DEF HandlersOf
<1>10. \A e : e # a => HandlersOf(e)' = HandlersOf(e)
  BY <1>3, <1>5 DEF HandlersOf
<1>11. \A i \in Jobs : job[i].pc \in {"muted", "failed"} => job'[i] = job[i]
  BY <1>4 DEF Start
<1> QED BY <1>3, <1>5, <1>6, <1>7, <1>8, <1>9, <1>10, <1>11 DEF Start, presenceVars

\* The other steps leave the jobs alone, and no handler begins or changes its event.
LEMMA OtherEffect ==
    ASSUME TypeOK, crashes' = crashes, NEW e,
           \/ UNCHANGED <<job, task>>
           \/ \E d \in Notifications : TaskStep(d)
    PROVE  /\ JobsOf(e)' = JobsOf(e) /\ LiveJobs(e)' = LiveJobs(e)
           /\ HandlersOf(e)' = HandlersOf(e) /\ job' = job
           /\ \A c \in Notifications : task[c].pc # "dead" => task'[c].pc # "dead"
<1>1. CASE UNCHANGED <<job, task>>
  BY <1>1 DEF JobsOf, LiveJobs, HandlersOf
<1>2. CASE \E d \in Notifications : TaskStep(d)
  <2>1. PICK d \in Notifications : TaskStep(d)
    BY <1>2
  <2>2. task[d] \in Tasks /\ task[d] # NoTask /\ DOMAIN task = Notifications
    BY <2>1, TaskType DEF TaskStep, Create, Ask, Emit, MarkSent, CountUnread, NoTask, TypeOK
  <2>3. job' = job /\ \E t \in {"ask", "emit", "mark", "count", "over"} : Step(d, t)
    BY <2>1 DEF TaskStep, Create, Ask, Emit, MarkSent, CountUnread
  <2>4. /\ \A c \in Notifications \ {d} : task'[c] = task[c]
        /\ task'[d].event = task[d].event /\ task'[d].pc # "dead" /\ task'[d] # NoTask
    BY <2>2, <2>3 DEF Step, Tasks, NoTask
  <2>5. HandlersOf(e)' = HandlersOf(e)
    BY <2>2, <2>4 DEF HandlersOf
  <2> QED BY <2>3, <2>4, <2>5 DEF JobsOf, LiveJobs
<1> QED BY <1>1, <1>2

\* The kinds of steps, as far as jobs and handlers are concerned.
LEMMA StepKinds ==
    ASSUME [Next]_vars
    PROVE  \/ (UNCHANGED <<job, task>> \/ \E d \in Notifications : TaskStep(d))
                /\ (PresenceTypeOK => crashes' = crashes)
           \/ \E e \in Events : Announce(e)
           \/ \E j \in Jobs : Take(j) \/ CheckFails(j) \/ Mute(j) \/ Finish(j)
           \/ \E j \in Jobs : Delay(j)
           \/ \E j \in Jobs : Start(j)
           \/ \E p \in Servers : Crash(p)
<1>1. ASSUME NEW c \in Streams, StreamStep(c) PROVE crashes' = crashes
  BY <1>1 DEF StreamStep, Connect, AddConnection, Disconnect, ReadCount, RemoveConnection
<1>2. ASSUME NEW d \in Notifications,
             \/ TaskStep(d) \/ FindNotification(d)
             \/ MarkNotificationAsRead(d) \/ DeleteNotification(d)
      PROVE  crashes' = crashes
  BY <1>2 DEF TaskStep, Create, Ask, Emit, MarkSent, CountUnread, FindNotification,
              MarkNotificationAsRead, DeleteNotification, presenceVars
<1>3. ASSUME NEW d \in Notifications,
             FindNotification(d) \/ MarkNotificationAsRead(d) \/ DeleteNotification(d)
      PROVE  UNCHANGED <<job, task>>
  BY <1>3 DEF FindNotification, MarkNotificationAsRead, DeleteNotification
<1>4. ASSUME NEW u \in Users, MarkAllNotificationsAsRead(u)
      PROVE  UNCHANGED <<job, task>> /\ crashes' = crashes
  BY <1>4 DEF MarkAllNotificationsAsRead, presenceVars
<1>5. CASE UNCHANGED vars
  BY <1>5 DEF vars, presenceVars
<1> QED BY <1>1, <1>2, <1>3, <1>4, <1>5 DEF Next, JobStep

LEMMA OneCarrierStep ==
    ASSUME TypeOK, OneCarrier, [Next]_vars PROVE OneCarrier'
<1> SUFFICES ASSUME crashes' = 0, NEW e \in Events
             PROVE  /\ \A i, j \in LiveJobs(e)' : i = j
                    /\ \A c, d \in HandlersOf(e)' : c = d
                    /\ LiveJobs(e)' = {} \/ HandlersOf(e)' = {}
                    /\ HandlersOf(e)' # {} => JobsOf(e)' # {}
  BY DEF OneCarrier, Announced
<1>1. \A p \in Servers : ~Crash(p)
  BY DEF Crash, CrashStreams, TypeOK, PresenceTypeOK
<1>2. crashes = 0 => /\ \A i, j \in LiveJobs(e) : i = j
                     /\ \A c, d \in HandlersOf(e) : c = d
                     /\ LiveJobs(e) = {} \/ HandlersOf(e) = {}
                     /\ HandlersOf(e) # {} => JobsOf(e) # {}
  BY DEF OneCarrier, Announced
<1>3. CASE (UNCHANGED <<job, task>> \/ \E d \in Notifications : TaskStep(d))
             /\ crashes' = crashes
  BY <1>2, <1>3, OtherEffect
<1>4. ASSUME NEW a \in Events, Announce(a)
      PROVE  /\ \A i, j \in LiveJobs(e)' : i = j
             /\ HandlersOf(e)' = HandlersOf(e) /\ crashes' = crashes
             /\ LiveJobs(e)' = {} \/ HandlersOf(e)' = {}
             /\ HandlersOf(e)' # {} => JobsOf(e)' # {}
  <2>1. HandlersOf(e)' = HandlersOf(e) /\ crashes = 0
    BY <1>4, AnnounceEffect DEF HandlersOf
  <2>2. CASE e = a
    BY <1>2, <1>4, <2>1, <2>2, AnnounceEffect DEF Announce, Announced
  <2>3. CASE e # a
    BY <1>2, <1>4, <2>1, <2>3, AnnounceEffect
  <2> QED BY <2>1, <2>2, <2>3, <1>4, AnnounceEffect
<1>5. ASSUME NEW j \in Jobs, Take(j) \/ CheckFails(j) \/ Mute(j) \/ Finish(j)
      PROVE  /\ HandlersOf(e)' = HandlersOf(e) /\ crashes' = crashes
             /\ JobsOf(e)' = JobsOf(e) /\ LiveJobs(e)' \subseteq LiveJobs(e)
  BY <1>5, SameJobs DEF HandlersOf
<1>6. CASE \E j \in Jobs : Delay(j)
  <2>1. PICK j \in Jobs : Delay(j)
    BY <1>6
  <2>2. PICK a : a = job[j].event
    OBVIOUS
  <2>3. HandlersOf(e)' = HandlersOf(e) /\ crashes = 0
    BY <2>1, <2>2, DelayEffect DEF HandlersOf
  <2>4. CASE e = a
    BY <1>2, <2>1, <2>2, <2>3, <2>4, DelayEffect
  <2>5. CASE e # a
    BY <1>2, <2>1, <2>2, <2>3, <2>5, DelayEffect
  <2> QED BY <2>4, <2>5
<1>7. CASE \E j \in Jobs : Start(j)
  <2>1. PICK j \in Jobs : Start(j)
    BY <1>7
  <2>2. PICK a : a = job[j].event
    OBVIOUS
  <2>3. crashes = 0
    BY <2>1, <2>2, StartEffect
  <2>4. CASE e = a
    BY <1>2, <2>1, <2>2, <2>3, <2>4, StartEffect DEF LiveJobs
  <2>5. CASE e # a
    BY <1>2, <2>1, <2>2, <2>3, <2>5, StartEffect
  <2> QED BY <2>4, <2>5
<1> QED BY <1>1, <1>2, <1>3, <1>4, <1>5, <1>6, <1>7, StepKinds DEF TypeOK
LEMMA CarriedStep ==
    ASSUME TypeOK, Carried, [Next]_vars PROVE Carried'
<1> DEFINE Ends == {"muted", "failed"}
           Kept(e) == \/ LiveJobs(e) # {}
                      \/ \E j \in JobsOf(e) : job[j].pc \in Ends
                      \/ \E d \in HandlersOf(e) : task[d].pc # "dead"
<1>1. \A e : Kept(e) <=>
        \/ \E j \in JobsOf(e) : job[j].pc \in {"waiting", "check", "muted", "failed"}
        \/ \E d \in HandlersOf(e) : task[d].pc # "dead"
  BY DEF LiveJobs
<1>2. (\A e : Kept(e) <=>
         \/ \E j \in JobsOf(e) : job[j].pc \in {"waiting", "check", "muted", "failed"}
         \/ \E d \in HandlersOf(e) : task[d].pc # "dead")'
  BY DEF LiveJobs
<1> SUFFICES ASSUME NEW e \in Events, JobsOf(e)' # {}, crashes' = 0 PROVE Kept(e)'
  BY <1>2, PresenceTypeStep, IsPresenceStep DEF Carried, Announced, TypeOK, PresenceTypeOK
<1>3. \A p \in Servers : ~Crash(p)
  BY DEF Crash, CrashStreams, TypeOK, PresenceTypeOK
<1>4. JobsOf(e) # {} /\ crashes = 0 => Kept(e)
  BY <1>1 DEF Carried, Announced
<1> HIDE DEF Kept
<1>5. CASE (UNCHANGED <<job, task>> \/ \E d \in Notifications : TaskStep(d))
             /\ crashes' = crashes
  <2>1. Kept(e)
    BY <1>4, <1>5, OtherEffect
  <2> QED BY <1>5, <2>1, OtherEffect DEF Kept, HandlersOf
<1>6. ASSUME NEW a \in Events, Announce(a) PROVE Kept(e)'
  <2>1. CASE e = a
    BY <1>6, <2>1, AnnounceEffect DEF Kept
  <2>2. CASE e # a
    <3>1. Kept(e)
      BY <1>4, <1>6, <2>2, AnnounceEffect
    <3> QED BY <1>6, <2>2, <3>1, AnnounceEffect DEF Kept, HandlersOf, JobsOf
  <2> QED BY <2>1, <2>2
<1>7. ASSUME NEW j \in Jobs, Take(j) \/ CheckFails(j) \/ Mute(j) \/ Finish(j) PROVE Kept(e)'
  <2>1. Kept(e)
    BY <1>4, <1>7, SameJobs
  <2>2. CASE \E d \in HandlersOf(e) : task[d].pc # "dead"
    BY <1>7, <2>2, SameJobs DEF Kept, HandlersOf
  <2>3. CASE \E i \in JobsOf(e) : job[i].pc \in {"waiting", "check", "muted", "failed"}
    <3>1. PICK i \in JobsOf(e) : job[i].pc \in {"waiting", "check", "muted", "failed"}
      BY <2>3
    <3>2. i \in JobsOf(e)' /\ job'[i].pc \in {"waiting", "check", "muted", "failed"}
      BY <1>7, <3>1, SameJobs DEF JobsOf
    <3> QED BY <3>2, <1>2
  <2> QED BY <1>1, <2>1, <2>2, <2>3
<1>8. ASSUME NEW j \in Jobs, Delay(j) PROVE Kept(e)'
  <2>1. PICK a : a = job[j].event
    OBVIOUS
  <2>2. CASE e = a
    BY <1>8, <2>1, <2>2, DelayEffect DEF Kept
  <2>3. CASE e # a
    <3>1. Kept(e)
      BY <1>4, <1>8, <2>1, <2>3, DelayEffect
    <3> QED BY <1>8, <2>1, <2>3, <3>1, DelayEffect DEF Kept, HandlersOf, JobsOf
  <2> QED BY <2>2, <2>3
<1>9. ASSUME NEW j \in Jobs, Start(j) PROVE Kept(e)'
  <2>1. PICK a : a = job[j].event
    OBVIOUS
  <2>2. CASE e = a
    BY <1>9, <2>1, <2>2, StartEffect DEF Kept
  <2>3. CASE e # a
    <3>1. Kept(e)
      BY <1>4, <1>9, <2>1, <2>3, StartEffect
    <3> QED BY <1>9, <2>1, <2>3, <3>1, StartEffect DEF Kept, HandlersOf, JobsOf
  <2> QED BY <2>2, <2>3
<1> QED BY <1>3, <1>5, <1>6, <1>7, <1>8, <1>9, StepKinds DEF TypeOK

----------------------------------------------------------------------------
LEMMA OpenMeansOnline ==
    ASSUME PInv, ~Overlap, NEW c \in Streams, stream[c].pc = "open"
    PROVE  stream[c].user \in key
<1>1. PICK u \in Users : u = stream[c].user
  BY DEF PInv, PresenceTypeOK, StreamStates
<1>2. Counted(u) # {}
  BY <1>1 DEF Counted, Of
<1>3. Cardinality(Counted(u)) \in Nat /\ Cardinality(Counted(u)) # 0
  BY <1>2, CountedFinite, FS_EmptySet
<1>4. count[u] \in Int /\ Cardinality(Counted(u)) <= count[u] /\ (u \in key <=> count[u] > 0)
  BY DEF PInv, Covered, PresenceTypeOK
<1> QED BY <1>1, <1>3, <1>4

\* Streams keep their users and processes, and those that have left do not come back.
LEMMA StreamsStep ==
    ASSUME PresenceTypeOK, [Next]_vars, NEW c \in Streams
    PROVE  /\ stream'[c].user = stream[c].user /\ stream'[c].server = stream[c].server
           /\ stream'[c].pc \in {"new", "adding"} => stream[c].pc \in {"new", "adding"}
           /\ stream'[c].pc = "open" => stream[c].pc \in {"open", "adding"}
<1>0. DOMAIN stream = Streams /\ DOMAIN stream[c] = {"pc", "user", "server", "read"}
  BY DEF PresenceTypeOK, StreamStates
<1>1. ASSUME NEW a \in Streams, StreamStep(a)
      PROVE  stream'[c] = stream[c] \/ a = c
  BY <1>0, <1>1 DEF StreamStep, Connect, AddConnection, Disconnect, ReadCount,
                    RemoveConnection, Goto
<1>2. CASE StreamStep(c)
  BY <1>0, <1>2 DEF StreamStep, Connect, AddConnection, Disconnect, ReadCount,
                    RemoveConnection, Goto
<1>3. ASSUME NEW p \in Servers, CrashStreams(p)
      PROVE  stream'[c] = stream[c] \/ stream'[c] = [stream[c] EXCEPT !.pc = "gone"]
  BY <1>3 DEF CrashStreams
<1>4. CASE UNCHANGED presenceVars
  BY <1>4 DEF presenceVars
<1> QED BY <1>0, <1>1, <1>2, <1>3, <1>4, IsPresenceStep DEF PresenceNext

\* What happens to the handler of d.
LEMMA HandlerStep ==
    ASSUME TypeOK, [Next]_vars, NEW d \in Notifications, ~TaskStep(d)
    PROVE  /\ recipient' = recipient
           /\ \/ task'[d] = task[d] /\ there'[d] = there[d] /\ received'[d] = received[d]
              \/ task'[d].pc \in {"create", "dead"}
<1>0. /\ DOMAIN task = Notifications /\ DOMAIN there = Notifications
      /\ DOMAIN received = Notifications /\ task[d] \in Tasks \cup {NoTask}
  BY DEF TypeOK
<1>1. CASE UNCHANGED <<recipient, task, there, received>>
  BY <1>1
<1>2. ASSUME NEW j \in Jobs, Start(j)
      PROVE  /\ UNCHANGED <<recipient, there, received>>
             /\ task'[d] = task[d] \/ task'[d].pc = "create"
  BY <1>0, <1>2 DEF Start
<1>3. ASSUME NEW c \in Notifications, TaskStep(c)
      PROVE  /\ recipient' = recipient
             /\ task'[d] = task[d] /\ there'[d] = there[d] /\ received'[d] = received[d]
  BY <1>0, <1>3 DEF TaskStep, Create, Ask, Emit, MarkSent, CountUnread, Step
<1>4. ASSUME NEW p \in Servers, Crash(p)
      PROVE  /\ UNCHANGED <<recipient, there, received>>
             /\ task'[d] = task[d] \/ task'[d].pc = "dead"
  BY <1>0, <1>4 DEF Crash, Tasks, NoTask
<1>5. \/ UNCHANGED <<recipient, task, there, received>>
      \/ \E j \in Jobs : Start(j)
      \/ \E c \in Notifications : TaskStep(c)
      \/ \E p \in Servers : Crash(p)
  BY DEF Next, vars, JobStep, Announce, Take, CheckFails, Mute, Delay, Finish,
         FindNotification, MarkNotificationAsRead, DeleteNotification,
         MarkAllNotificationsAsRead
<1> QED BY <1>1, <1>2, <1>3, <1>4, <1>5

LEMMA StayStep ==
    ASSUME TypeOK, NoteInv, PInv, StayInv, [Next]_vars PROVE StayInv'
<1> DEFINE After == {"ask", "emit", "mark", "count", "over"}
<1> SUFFICES ASSUME ~Overlap, NEW d \in Notifications, task'[d].pc \in After,
                    NEW c \in there'[d]
             PROVE  /\ stream'[c].pc \notin {"new", "adding"}
                    /\ stream'[c].pc = "open" =>
                          /\ stream'[c].user = recipient'[task'[d].event]
                          /\ stream'[c].server = task'[d].at
                          /\ task'[d].pc # "count"
                          /\ task'[d].pc \in {"mark", "over"} => c \in received'[d]
  BY DEF StayInv, To
<1>0. c \in Streams
  BY TypeStep DEF TypeOK
<1>1. PresenceTypeOK
  BY DEF PInv
<1>2. ASSUME task[d].pc \in After, c \in there[d]
      PROVE  /\ stream[c].pc \notin {"new", "adding"}
             /\ stream[c].pc = "open" =>
                   /\ stream[c].user = recipient[task[d].event]
                   /\ stream[c].server = task[d].at
                   /\ task[d].pc # "count"
                   /\ task[d].pc \in {"mark", "over"} => c \in received[d]
  BY <1>2 DEF StayInv, To
<1>3. CASE ~TaskStep(d)
  <2>1. /\ recipient' = recipient /\ task'[d] = task[d]
        /\ there'[d] = there[d] /\ received'[d] = received[d]
    BY <1>3, HandlerStep
  <2> QED BY <2>1, <1>0, <1>1, <1>2, StreamsStep
<1>4. CASE TaskStep(d)
  <2>0. /\ task[d] \in Tasks /\ DOMAIN task = Notifications
        /\ DOMAIN there = Notifications /\ DOMAIN received = Notifications
    BY <1>4, TaskType DEF TaskStep, Create, Ask, Emit, MarkSent, CountUnread, NoTask, TypeOK
  <2>1. stream' = stream /\ recipient' = recipient
    BY <1>4 DEF TaskStep, Create, Ask, Emit, MarkSent, CountUnread, presenceVars
  <2>2. ASSUME NEW t, Step(d, t)
        PROVE  /\ task'[d].pc = t /\ task'[d].event = task[d].event
               /\ task'[d].at = task[d].at
    BY <2>0, <2>2 DEF Step, Tasks
  <2>3. CASE Create(d)
    <3>1. task'[d].pc = "ask" /\ there'[d] = StreamsHere(d, {"open"})
      BY <2>0, <2>2, <2>3 DEF Create
    <3>2. /\ stream[c].pc = "open" /\ stream[c].user = recipient[task[d].event]
          /\ stream[c].server = task[d].at
      BY <3>1 DEF StreamsHere, Of, To
    <3> QED BY <2>1, <2>2, <2>3, <3>1, <3>2 DEF Create
  <2>4. CASE Ask(d)
    <3>1. c \in there[d] /\ task[d].pc = "ask"
      BY <2>4 DEF Ask
    <3>2. ASSUME stream[c].pc = "open" PROVE Step(d, "emit")
      BY <1>0, <1>2, <2>4, <3>1, <3>2, OpenMeansOnline DEF Ask, IsUserOnline, To
    <3>3. Step(d, "emit") \/ Step(d, "count")
      BY <2>4 DEF Ask
    <3>4. \/ Step(d, "emit")
          \/ Step(d, "count") /\ stream[c].pc # "open"
      BY <3>2, <3>3
    <3> QED BY <1>2, <2>1, <2>2, <3>1, <3>4
  <2>5. CASE Emit(d)
    <3>1. /\ c \in there[d] /\ task[d].pc = "emit"
          /\ received'[d] = StreamsHere(d, {"adding", "open"})
      BY <2>0, <2>5 DEF Emit
    <3>2. stream[c].pc = "open" => c \in received'[d]
      BY <1>0, <1>2, <3>1 DEF StreamsHere, Of, To
    <3> QED BY <1>2, <2>1, <2>2, <2>5, <3>1, <3>2 DEF Emit
  <2>6. CASE MarkSent(d)
    <3>1. /\ c \in there[d] /\ received' = received /\ task[d].pc = "mark"
      BY <2>6 DEF MarkSent
    <3> QED BY <1>2, <2>1, <2>2, <2>6, <3>1 DEF MarkSent
  <2>7. CASE CountUnread(d)
    <3>1. /\ c \in there[d] /\ received' = received /\ task[d].pc = "count"
      BY <2>7 DEF CountUnread
    <3> QED BY <1>2, <2>1, <2>2, <2>7, <3>1 DEF CountUnread
  <2> QED BY <1>4, <2>3, <2>4, <2>5, <2>6, <2>7 DEF TaskStep
<1> QED BY <1>3, <1>4

LEMMA InvStep == IInv /\ [Next]_vars => IInv'
<1> SUFFICES ASSUME IInv, [Next]_vars PROVE IInv'
  OBVIOUS
<1>1. TypeOK' /\ OneCarrier' /\ Carried' /\ PInv' /\ StayInv'
  BY TypeStep, OneCarrierStep, CarriedStep, StayStep, IsPresenceStep, PresenceStep DEF IInv
<1>2. NoteInv'
  BY NoteStep DEF IInv, NoteInv
<1> QED BY <1>1, <1>2 DEF IInv

----------------------------------------------------------------------------
\* Every variable keeps its type, however jobs, handlers, readers and crashes
\* interleave: no process or event is invented, no job is tried more than its attempts.
THEOREM TypeCorrect == Spec => []TypeOK
<1>1. IInv => TypeOK
  BY DEF IInv
<1> QED BY InitInv, InvStep, <1>1, PTL DEF Spec

\* The update to SENT that the handler makes last cannot undo a PATCH or a
\* read-all: those find only what is SENT, and by then the handler is through.
THEOREM ReadStaysReadThm == Spec => ReadStaysRead
<1>1. IInv /\ [Next]_vars =>
        [\A d \in Notifications :
            note[d].status = "read" => note'[d].status \in {"read", "deleted"}]_vars
  BY NoteStep DEF IInv
<1> QED BY InitInv, InvStep, <1>1, PTL DEF Spec, ReadStaysRead

\* As long as no process dies, retries and quiet hours do not start the handler of an
\* event twice.
THEOREM NotifiedOnceThm == Spec => []NotifiedOnce
<1>1. IInv => NotifiedOnce
  BY DEF IInv, OneCarrier, NotifiedOnce
<1> QED BY InitInv, InvStep, <1>1, PTL DEF Spec

\* An event whose jobs have ended and whose handlers are through was notified, muted or
\* given up, unless a process died, although jobs complete before their handlers run.
THEOREM NothingForgottenThm == Spec => []NothingForgotten
<1>1. IInv => NothingForgotten
  BY DEF IInv, Carried, NothingForgotten, JobsOf, HandlersOf
<1> QED BY InitInv, InvStep, <1>1, PTL DEF Spec

\* While the streams of a user come and go one after the other, a stream that stays
\* from the creation of a notification until its handler is through receives it: a
\* counter in Redis that other processes maintain does not hide it, crashes included.
THEOREM StayersReceiveThm == Spec => []StayersReceive
<1>1. IInv => StayersReceive
  BY DEF IInv, StayInv, StayersReceive
<1> QED BY InitInv, InvStep, <1>1, PTL DEF Spec

\* What Presence promises holds of the streams that notifications are sent to.
THEOREM PresenceKept == Spec => []PresenceExact
<1>1. IInv => PresenceExact
  BY DEF IInv, PInv
<1> QED BY InitInv, InvStep, <1>1, PTL DEF Spec
============================================================================
