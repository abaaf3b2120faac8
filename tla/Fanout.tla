------------------------------ MODULE Fanout ------------------------------
(***************************************************************************)
(* The data plane of one channel of the origin or of a cache: a publisher  *)
(* hands packets to the channel task through an unbounded queue, the task  *)
(* caches each packet and broadcasts it on a bounded tokio broadcast ring, *)
(* and every player copies to its socket first the cached packets and then *)
(* what it reads from the ring.                                            *)
(*                                                                         *)
(* A player subscribes to the ring (in the manager) before it asks the     *)
(* channel for the cache, and the answer is taken from the cache at a      *)
(* still later time.  The properties are about what that order of events   *)
(* means for the packets a player gets.                                    *)
(***************************************************************************)
EXTENDS MediaCache, FiniteSets

CONSTANTS
  Players,     \* connections that play the channel
  Capacity,    \* slots of the broadcast ring (64 in the code)
  MaxPackets,  \* bound: packets the publisher sends
  Shapes       \* the [kind, is_seq_header, is_key_frame] the publisher sends

ASSUME CapacityAssumption == Capacity \in Nat \ {0}
ASSUME MaxPacketsAssumption == MaxPackets \in Nat
ASSUME ShapesAssumption ==
  Shapes \subseteq
    [kind : MediaKind, is_seq_header : BOOLEAN, is_key_frame : BOOLEAN]

VARIABLES
  sent,      \* packets the publisher has handed to the channel
  incoming,  \* the channel's queue of messages
  channel,   \* "running" until the channel task has ended, then "closed"
  listed,    \* whether the manager's map still holds the channel
  cache,     \* the channel task's cache
  history,   \* every packet the channel task has handled, in order
  state,     \* where each player is
  cursor,    \* position in history up to which a player has read the ring
  reply,     \* a player's pending InitData answer
  out,       \* the packets written to a player's socket
  sub,       \* position in history at which the player subscribed
  snap,      \* position in history at which its InitData was answered
  lost       \* position up to which the ring overran the player, 0 if never

vars == <<sent, incoming, channel, listed, cache, history, state, cursor,
          reply, out, sub, snap, lost>>

playerVars  == <<state, cursor, reply, out, sub, snap, lost>>
channelVars == <<channel, cache, history>>

PlayerState == {"idle", "joined", "waiting", "live", "ended"}

\* The messages of the channel's queue (core's enum Message).
PacketMsg(p)   == [type |-> "Packet", packet |-> p]
InitDataMsg(q) == [type |-> "InitData", player |-> q]
DisconnectMsg  == [type |-> "Disconnect"]

Message ==
  [type : {"Packet"}, packet : MediaPacket] \cup
  [type : {"InitData"}, player : Players] \cup
  [type : {"Disconnect"}]

Reply ==
  [status : {"none", "dropped"}] \cup
  [status : {"ready"}, packets : Seq(MediaPacket)]

NoReply      == [status |-> "none"]
DroppedReply == [status |-> "dropped"]
Ready(ps)    == [status |-> "ready", packets |-> ps]

TypeOK ==
  /\ sent \in 0 .. MaxPackets
  /\ incoming \in Seq(Message)
  /\ channel \in {"running", "closed"}
  /\ listed \in BOOLEAN
  /\ cache \in Cache
  /\ history \in Seq(MediaPacket)
  /\ state \in [Players -> PlayerState]
  /\ cursor \in [Players -> Nat]
  /\ reply \in [Players -> Reply]
  /\ out \in [Players -> Seq(MediaPacket)]
  /\ sub \in [Players -> Nat]
  /\ snap \in [Players -> Nat]
  /\ lost \in [Players -> Nat]

Init ==
  /\ sent = 0
  /\ incoming = <<>>
  /\ channel = "running"
  /\ listed = TRUE
  /\ cache = EmptyCache
  /\ history = <<>>
  /\ state = [q \in Players |-> "idle"]
  /\ cursor = [q \in Players |-> 0]
  /\ reply = [q \in Players |-> NoReply]
  /\ out = [q \in Players |-> <<>>]
  /\ sub = [q \in Players |-> 0]
  /\ snap = [q \in Players |-> 0]
  /\ lost = [q \in Players |-> 0]

Disconnecting == \E i \in 1 .. Len(incoming) : incoming[i] = DisconnectMsg

Stopped == channel = "closed" \/ Disconnecting

---------------------------------------------------------------------------
(***************************************************************************)
(* The publisher's connection.  The timestamp is the packet's number.      *)
(***************************************************************************)
Publish ==
  /\ ~Stopped
  /\ sent < MaxPackets
  /\ sent' = sent + 1
  /\ \E s \in Shapes :
       incoming' = Append(incoming, PacketMsg(
         [kind |-> s.kind, is_seq_header |-> s.is_seq_header,
          is_key_frame |-> s.is_key_frame, timestamp |-> sent + 1]))
  /\ UNCHANGED <<listed, channelVars, playerVars>>

\* The end of the publisher's link: Disconnect is sent to the channel ...
Disconnect ==
  /\ ~Stopped
  /\ incoming' = Append(incoming, DisconnectMsg)
  /\ UNCHANGED <<sent, listed, channelVars, playerVars>>

\* MUTANT of Release: skipped when the channel has already ended.
ReleaseIfAlive ==
  /\ Disconnecting
  /\ listed
  /\ listed' = FALSE
  /\ UNCHANGED <<sent, incoming, channelVars, playerVars>>

\* ... and Release to the manager, which drops its handle and its sender.
Release ==
  /\ Stopped
  /\ listed
  /\ listed' = FALSE
  /\ UNCHANGED <<sent, incoming, channelVars, playerVars>>

---------------------------------------------------------------------------
(***************************************************************************)
(* The channel task handles one message at a time.                         *)
(***************************************************************************)
HandlePacket ==
  /\ channel = "running"
  /\ incoming # <<>>
  /\ Head(incoming).type = "Packet"
  /\ incoming' = Tail(incoming)
  /\ cache' = SetCache(cache, Head(incoming).packet)
  /\ history' = Append(history, Head(incoming).packet)
  /\ UNCHANGED <<sent, channel, listed, playerVars>>

HandleInitData ==
  /\ channel = "running"
  /\ incoming # <<>>
  /\ Head(incoming).type = "InitData"
  /\ incoming' = Tail(incoming)
  /\ LET q == Head(incoming).player
     IN  /\ reply' = [reply EXCEPT ![q] = Ready(InitPackets(cache))]
         /\ snap' = [snap EXCEPT ![q] = Len(history)]
  /\ UNCHANGED <<sent, listed, channelVars, state, cursor, out, sub, lost>>

\* MUTANT of HandleDisconnect: the responders in the queue stay alive.
HandleDisconnectKeepingQueue ==
  /\ channel = "running"
  /\ incoming # <<>>
  /\ Head(incoming).type = "Disconnect"
  /\ channel' = "closed"
  /\ incoming' = <<>>
  /\ UNCHANGED <<sent, listed, cache, history, playerVars>>

\* The task ends: its queue is dropped, and with it the responder of every
\* InitData still in it.
HandleDisconnect ==
  /\ channel = "running"
  /\ incoming # <<>>
  /\ Head(incoming).type = "Disconnect"
  /\ channel' = "closed"
  /\ incoming' = <<>>
  /\ reply' = [q \in Players |->
       IF \E i \in 1 .. Len(incoming) : incoming[i] = InitDataMsg(q)
       THEN DroppedReply ELSE reply[q]]
  /\ UNCHANGED <<sent, listed, cache, history, state, cursor, out, sub, snap,
                 lost>>

---------------------------------------------------------------------------
(***************************************************************************)
(* A player.  Join is the manager's answer: a handle on the channel and a  *)
(* subscription that sees the packets broadcast from now on.               *)
(***************************************************************************)
Join(q) ==
  /\ state[q] = "idle"
  /\ listed
  /\ state' = [state EXCEPT ![q] = "joined"]
  /\ cursor' = [cursor EXCEPT ![q] = Len(history)]
  /\ sub' = [sub EXCEPT ![q] = Len(history)]
  /\ UNCHANGED <<sent, incoming, listed, channelVars, reply, out, snap, lost>>

\* The send fails when the task has ended: the player is told and is done.
RequestInit(q) ==
  /\ state[q] = "joined"
  /\ \/ /\ channel = "running"
        /\ incoming' = Append(incoming, InitDataMsg(q))
        /\ state' = [state EXCEPT ![q] = "waiting"]
     \/ /\ channel = "closed"
        /\ state' = [state EXCEPT ![q] = "ended"]
        /\ UNCHANGED incoming
  /\ UNCHANGED <<sent, listed, channelVars, cursor, reply, out, sub, snap,
                 lost>>

\* MUTANT of ReceiveInit: the player subscribes when it goes live.
ReceiveInitThenSubscribe(q) ==
  /\ state[q] = "waiting"
  /\ reply[q].status # "none"
  /\ state' = [state EXCEPT ![q] = "live"]
  /\ out' = [out EXCEPT ![q] =
       IF reply[q].status = "ready" THEN reply[q].packets ELSE <<>>]
  /\ cursor' = [cursor EXCEPT ![q] = Len(history)]
  /\ UNCHANGED <<sent, incoming, listed, channelVars, reply, sub, snap, lost>>

\* An answer that was dropped is skipped: the player goes on with the ring.
ReceiveInit(q) ==
  /\ state[q] = "waiting"
  /\ reply[q].status # "none"
  /\ state' = [state EXCEPT ![q] = "live"]
  /\ out' = [out EXCEPT ![q] =
       IF reply[q].status = "ready" THEN reply[q].packets ELSE <<>>]
  /\ UNCHANGED <<sent, incoming, listed, channelVars, cursor, reply, sub, snap,
                 lost>>

Unread(q) == Len(history) - cursor[q]

\* The next packet of the ring goes to the socket.
Receive(q) ==
  /\ state[q] = "live"
  /\ Unread(q) \in 1 .. Capacity
  /\ cursor' = [cursor EXCEPT ![q] = @ + 1]
  /\ out' = [out EXCEPT ![q] = Append(@, history[cursor[q] + 1])]
  /\ UNCHANGED <<sent, incoming, listed, channelVars, state, reply, sub, snap,
                 lost>>

\* RecvError::Lagged: the receiver moves to the oldest packet still in the
\* ring, and the connection ignores the error.
Lag(q) ==
  /\ state[q] = "live"
  /\ Unread(q) > Capacity
  /\ cursor' = [cursor EXCEPT ![q] = Len(history) - Capacity]
  /\ lost' = [lost EXCEPT ![q] = Len(history) - Capacity]
  /\ UNCHANGED <<sent, incoming, listed, channelVars, state, reply, out, sub,
                 snap>>

\* RecvError::Closed: every sender is gone and the ring has been read.
Closed(q) ==
  /\ state[q] = "live"
  /\ channel = "closed" /\ ~listed
  /\ Unread(q) = 0
  /\ state' = [state EXCEPT ![q] = "ended"]
  /\ UNCHANGED <<sent, incoming, listed, channelVars, cursor, reply, out, sub,
                 snap, lost>>

\* The player's socket is gone: the next write to it fails and the connection
\* ends, while it sends the cached packets or a packet of the ring.
Leave(q) ==
  /\ \/ state[q] = "waiting" /\ reply[q].status = "ready"
                            /\ reply[q].packets # <<>>
     \/ state[q] = "live" /\ Unread(q) \in 1 .. Capacity
  /\ state' = [state EXCEPT ![q] = "ended"]
  /\ UNCHANGED <<sent, incoming, listed, channelVars, cursor, reply, out, sub,
                 snap, lost>>

Channel == HandlePacket \/ HandleInitData \/ HandleDisconnect

Player(q) ==
  RequestInit(q) \/ ReceiveInit(q) \/ Receive(q) \/ Lag(q) \/ Closed(q)

Next ==
  \/ Publish \/ Disconnect \/ Release
  \/ Channel
  \/ \E q \in Players : Join(q) \/ Player(q) \/ Leave(q)

Spec == Init /\ [][Next]_vars

\* Every task that can run is eventually polled; publishers and players may
\* do nothing for ever, but a publisher that has sent Disconnect sends Release.
FairSpec ==
  Spec /\ WF_vars(Release) /\ WF_vars(Channel)
       /\ \A q \in Players : WF_vars(Player(q))

---------------------------------------------------------------------------
(***************************************************************************)
(* Properties.                                                             *)
(***************************************************************************)

\* The cache is at all times what the packets handled so far make it: each
\* header slot is the latest of its kind, and the GOP holds exactly the frames
\* from the last key frame on, in the order in which they came (set_cache).
CacheFollowsHistory == IsCacheOf(cache, history)

\* The player was given a snapshot of the cache and has begun to copy it.
Served(q) == state[q] = "live" /\ reply[q].status = "ready"

Received(q, p) == \E m \in 1 .. Len(out[q]) : out[q][m] = p

\* The snapshot and the subscription leave no hole between them: a player has
\* got the whole GOP that was open when its snapshot was taken and every packet
\* after the snapshot, up to where it has read, save what the ring overran.
NoGap ==
  \A q \in Players : Served(q) =>
    \A i \in 1 .. Len(history) :
      \/ i <= snap[q] /\ InLastGop(history, i, snap[q])
      \/ i \in snap[q] + 1 .. cursor[q] /\ i > lost[q]
      => Received(q, history[i])

\* What a decoder must have seen before the i-th packet, a video frame: the
\* video header in force and, for an inter frame, the GOP up to it.
Needed(i) ==
  {j \in 1 .. i - 1 :
     \/ /\ IsVideoHeader(history[j])
        /\ \A k \in j + 1 .. i - 1 : ~IsVideoHeader(history[k])
     \/ /\ IsInterFrame(history[i])
        /\ InLastGop(history, j, i)}

\* Frames that follow the snapshot can be decoded: what each needs was written
\* to the socket before it.  A player the ring overran can decode again from
\* the next key frame, as long as no header was among the packets it lost.
Decodable ==
  \A q \in Players : Served(q) =>
    \A m \in 1 .. Len(out[q]) :
      LET p == out[q][m]
          i == p.timestamp   \* its position in history
      IN  /\ i > snap[q] /\ i > lost[q]
          /\ IsKeyFrame(p) \/ IsInterFrame(p)
          => \A j \in Needed(i) :
               lost[q] = 0 \/ j > lost[q]
               => \E n \in 1 .. m - 1 : out[q][n] = history[j]

\* Nobody waits for a cache that will not come: an InitData that was sent is
\* answered, or its responder is dropped with the channel's queue.
InitAnswered ==
  \A q \in Players : state[q] = "waiting" ~> state[q] \in {"live", "ended"}

\* When the publisher is gone every player is told so, whatever it still had
\* to read and wherever it was in joining.
PlayersReleased ==
  channel = "closed" ~> \A q \in Players : state[q] \in {"idle", "ended"}

\* What the two above rest on, at every moment.  A player whose cached packets
\* have not come has its InitData in the queue of a channel that runs.
NobodyForgotten ==
  \A q \in Players :
    state[q] = "waiting" /\ reply[q].status = "none" =>
      /\ channel = "running"
      /\ \E i \in 1 .. Len(incoming) : incoming[i] = InitDataMsg(q)

\* No task has anything to do: the guards of the fair actions, refused.
AtRest ==
  /\ ~(Stopped /\ listed)
  /\ ~(channel = "running" /\ incoming # <<>>)
  /\ \A q \in Players :
       /\ state[q] # "joined"
       /\ ~(state[q] = "waiting" /\ reply[q].status # "none")
       /\ ~(state[q] = "live" /\ Unread(q) > 0)
       /\ ~(state[q] = "live" /\ channel = "closed" /\ ~listed)

\* Where everything comes to rest nobody is left halfway: after the end of the
\* channel every player has been told, and before it every player that was let
\* in has all that was broadcast.
RestIsReleased ==
  AtRest => \A q \in Players :
    \/ state[q] \in {"idle", "ended"}
    \/ channel = "running" /\ state[q] = "live" /\ cursor[q] = Len(history)
===========================================================================
