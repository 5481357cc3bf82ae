------------------------------ MODULE Presence ------------------------------
(***************************************************************************)
(* SseService: the event streams that clients hold open, and the Redis      *)
(* counter per user by which every server knows whether the user is online. *)
(*                                                                         *)
(* A stream subscribes to its process's Subject at once, and its INCR is    *)
(* not awaited; the GET that its removal starts with follows the INCR on    *)
(* the same Redis connection.                                              *)
(***************************************************************************)
EXTENDS Integers, FiniteSets

CONSTANTS
    Streams,     \* SSE requests of clients
    Users,
    Servers,     \* processes of the API
    Overlap,     \* the streams of a user come and go while others do
    MaxCrashes   \* bound on server crashes

ASSUME PresenceAssumption == Overlap \in BOOLEAN /\ MaxCrashes \in Nat
ASSUME StreamsAssumption == IsFiniteSet(Streams)

VARIABLES
    stream,   \* stream[c]: its user and server, and how far it got
    key,      \* Redis: the users whose counter exists
    count,    \* Redis: their counters, 0 for those that do not exist
    crashes   \* crashes so far

presenceVars == <<stream, key, count, crashes>>

StreamStates ==
    [pc : {"new", "adding", "open", "leaving", "removing", "gone"},
     user : Users, server : Servers, read : Int]

PresenceTypeOK ==
    /\ stream \in [Streams -> StreamStates]
    /\ key \subseteq Users
    /\ count \in [Users -> Int]
    /\ crashes \in 0..MaxCrashes

PresenceInit ==
    /\ stream \in [Streams -> [pc : {"new"}, user : Users, server : Servers, read : {0}]]
    /\ key = {}
    /\ count = [u \in Users |-> 0]
    /\ crashes = 0

Of(u, states) == {c \in Streams : stream[c].user = u /\ stream[c].pc \in states}
Goto(c, s) == stream' = [stream EXCEPT ![c].pc = s]

Moving(u) == Of(u, {"adding", "leaving", "removing"})
Counted(u) == Of(u, {"open", "leaving", "removing"})

\* Without Overlap a stream is added or removed while no other one of its user is.
MayMove(c) == Overlap \/ Moving(stream[c].user) = {}

----------------------------------------------------------------------------
\* userEvents$: the stream subscribes, and addConnection sends INCR.
Connect(c) ==
    /\ stream[c].pc = "new"
    /\ MayMove(c)
    /\ Goto(c, "adding")
    /\ UNCHANGED <<key, count, crashes>>

AddConnection(c) ==
    LET u == stream[c].user IN
    /\ stream[c].pc = "adding"
    /\ count' = [count EXCEPT ![u] = @ + 1]
    /\ key' = key \cup {u}
    /\ Goto(c, "open")
    /\ UNCHANGED crashes

\* The client goes away: the stream unsubscribes, and removeConnection starts.
Disconnect(c) ==
    /\ stream[c].pc = "open"
    /\ MayMove(c)
    /\ Goto(c, "leaving")
    /\ UNCHANGED <<key, count, crashes>>

\* GET of the counter; a missing one reads as 0.
ReadCount(c) ==
    /\ stream[c].pc = "leaving"
    /\ stream' = [stream EXCEPT ![c].pc = "removing", ![c].read = count[stream[c].user]]
    /\ UNCHANGED <<key, count, crashes>>

\* Mutant of RemoveConnection: the counter of the last stream is decremented.
RemoveConnectionLate(c) ==
    LET u == stream[c].user IN
    /\ stream[c].pc = "removing"
    /\ IF stream[c].read < 1
         THEN key' = key \ {u} /\ count' = [count EXCEPT ![u] = 0]
         ELSE key' = key \cup {u} /\ count' = [count EXCEPT ![u] = @ - 1]
    /\ Goto(c, "gone")
    /\ UNCHANGED crashes

\* DEL if the counter that was read is at most 1, else DECR.
RemoveConnection(c) ==
    LET u == stream[c].user IN
    /\ stream[c].pc = "removing"
    /\ IF stream[c].read <= 1
         THEN key' = key \ {u} /\ count' = [count EXCEPT ![u] = 0]
         ELSE key' = key \cup {u} /\ count' = [count EXCEPT ![u] = @ - 1]
    /\ Goto(c, "gone")
    /\ UNCHANGED crashes

\* Process p dies with its streams; nobody removes them from the counters.
CrashStreams(p) ==
    /\ crashes < MaxCrashes
    /\ crashes' = crashes + 1
    /\ stream' = [c \in Streams |-> IF stream[c].server = p /\ stream[c].pc # "new"
                                      THEN [stream[c] EXCEPT !.pc = "gone"] ELSE stream[c]]
    /\ UNCHANGED <<key, count>>

StreamStep(c) == \/ Connect(c) \/ AddConnection(c) \/ Disconnect(c)
                 \/ ReadCount(c) \/ RemoveConnection(c)

PresenceNext == (\E c \in Streams : StreamStep(c)) \/ (\E p \in Servers : CrashStreams(p))

PresenceSpec == PresenceInit /\ [][PresenceNext]_presenceVars

----------------------------------------------------------------------------
(* Properties *)

\* As long as nothing crashes and the streams of a user come and go one after
\* the other, on whatever servers, the counter is the number of streams that it
\* counts, and exists exactly when there are any.
PresenceExact ==
    ~Overlap /\ crashes = 0 =>
        \A u \in Users :
            /\ count[u] = Cardinality(Counted(u))
            /\ u \in key <=> count[u] > 0

\* 'Cleanup when client disconnects': a user without any stream is not online.
LeftMeansOffline ==
    \A u \in Users : Moving(u) \cup Counted(u) = {} => u \notin key
============================================================================
