---------------------------- MODULE Matchmaking ----------------------------
(***************************************************************************)
(* The live queue of pvp.gateway.ts: one process, one list of waiting      *)
(* connections per track, every handler a single step. A player may have   *)
(* several connections; a connection remembers the last track it joined.   *)
(***************************************************************************)
EXTENDS Integers, Sequences, Functions

CONSTANTS
  Racers, Clients,
  UserOf,    \* whose token each connection shows
  Tracks,
  MaxWait    \* bound: length of a queue

ASSUME MatchmakingAssumption == UserOf \in [Clients -> Racers] /\ MaxWait \in Nat

VARIABLES
  hops,      \* whether a connection may join one track after another
  status,    \* of a connection: "new", "open", "closed"
  track,     \* client.trackKey
  queue,     \* queues: connections waiting on each track
  room       \* rooms under way: the two connections

queueVars == <<hops, status, track, queue, room>>

\* None joined, or one with an empty name, which the code takes for none.
NoTrack == ""

QueueTypeOK ==
  /\ hops \in BOOLEAN /\ status \in [Clients -> {"new", "open", "closed"}]
  /\ track \in [Clients -> Tracks \cup {NoTrack}]
  /\ queue \in [Tracks -> Seq(Clients)] /\ room \subseteq Clients \X Clients

QueueInit ==
  /\ hops \in BOOLEAN
  /\ status = [c \in Clients |-> "new"] /\ track = [c \in Clients |-> NoTrack]
  /\ queue = [t \in Tracks |-> <<>>] /\ room = {}

-----------------------------------------------------------------------------
\* handleConnection: a bad token is closed at once and never gets here.
Connect(c) ==
  /\ status[c] = "new" /\ status' = [status EXCEPT ![c] = "open"]
  /\ UNCHANGED <<hops, track, queue, room>>

\* filter, entry by entry.
Without(q, u) ==
  LET kept[n \in 0 .. Len(q)] ==
        IF n = 0 THEN <<>>
        ELSE IF UserOf[q[n]] # u THEN Append(kept[n - 1], q[n]) ELSE kept[n - 1]
  IN  kept[Len(q)]

Others(q, u)  == {n \in DOMAIN q : UserOf[q[n]] # u}
First(S)      == CHOOSE n \in S : \A m \in S : n <= m

\* startMatch: both connections are in the room for the nine seconds of the race.
startMatch(a, b) == room' = room \cup {<<a, b>>}

\* Every entry of the opponent's leaves the queue; the one who joins never enters it.
onJoin(c, t) ==
  /\ status[c] = "open"
  /\ track[c] \in {NoTrack, t} \/ hops
  /\ track' = [track EXCEPT ![c] = t]
  /\ LET q == queue[t]  o == Others(q, UserOf[c])
     IN IF o # {}
        THEN /\ queue' = [queue EXCEPT ![t] = Without(q, UserOf[q[First(o)]])]
             /\ startMatch(q[First(o)], c)
        ELSE /\ Len(q) < MaxWait
             /\ queue' = [queue EXCEPT ![t] = Append(q, c)] /\ UNCHANGED room
  /\ UNCHANGED <<hops, status>>

\* Every entry of the player's on the connection's last track.
Dropped(c) == IF track[c] = NoTrack THEN queue ELSE [queue EXCEPT ![track[c]] = Without(@, UserOf[c])]

onCancel(c) ==
  /\ status[c] = "open" /\ queue' = Dropped(c)
  /\ UNCHANGED <<hops, status, track, room>>

\* Faulty: a closed connection is left where it is.
LeftWaiting(c) == queue

Cleared(c) == Dropped(c)

handleDisconnect(c) ==
  /\ status[c] = "open" /\ status' = [status EXCEPT ![c] = "closed"]
  /\ queue' = Cleared(c)
  /\ UNCHANGED <<hops, track, room>>

\* race:finish; a frame to a connection that closed meanwhile is dropped.
RaceOver(m) ==
  /\ m \in room /\ room' = room \ {m}
  /\ UNCHANGED <<hops, status, track, queue>>

QueueNext ==
  \/ \E c \in Clients : Connect(c) \/ onCancel(c) \/ handleDisconnect(c)
  \/ \E c \in Clients, t \in Tracks : onJoin(c, t)
  \/ \E m \in room : RaceOver(m)

QueueSpec == QueueInit /\ [][QueueNext]_queueVars

-----------------------------------------------------------------------------
(* Two players never wait on one track, one of them unmatched; and who     *)
(* waits there has a connection that is open and joined it last, so that   *)
(* no match is started with nobody (pvp.gateway.ts:61-71, 79-106). But a   *)
(* connection that hops from one track to another leaves an entry behind   *)
(* that nothing but a match removes, and so does one that joins the track  *)
(* with the empty name.                                                    *)
NobodyWaitsInVain ==
  \A t \in Tracks :
    /\ \A i, j \in DOMAIN queue[t] : UserOf[queue[t][i]] = UserOf[queue[t][j]]
    /\ ~hops /\ t # NoTrack =>
         \A c \in Range(queue[t]) : status[c] = "open" /\ track[c] = t
=============================================================================
