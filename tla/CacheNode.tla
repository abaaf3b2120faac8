------------------------------ MODULE CacheNode ------------------------------
(***************************************************************************)
(* The control plane of xlive-cache: connections, all of players, the      *)
(* manager that pulls a stream from upstream when a first player joins it, *)
(* one channel task per pulled stream and one reader task per upstream     *)
(* connection.  The upstream is an origin or another cache.                *)
(*                                                                         *)
(* A channel, and its reader, are named after the connection whose Join    *)
(* pulled the stream.  Packets are only counted: Fanout is about their     *)
(* contents.                                                               *)
(***************************************************************************)
EXTENDS Naturals, Sequences, FiniteSets

CONSTANTS
  Conns,       \* TCP connections of players
  Names,       \* app names
  None,        \* no channel, or no name
  Upstream,    \* "register" or "addr": how the upstream is found
  Faults,      \* what goes wrong: how upstream connections end without an
               \* Errors frame, and whether the manager may panic
  Capacity,    \* slots of the broadcast ring (64 in the code)
  MaxPackets   \* bound: packets an upstream connection carries

ASSUME NoneAssumption == None \notin Conns /\ None \notin Names
ASSUME UpstreamAssumption == Upstream \in {"register", "addr"}
ASSUME FaultsAssumption == Faults \subseteq {"eof", "error", "garbled", "panic"}
ASSUME BoundsAssumption == Capacity \in Nat \ {0} /\ MaxPackets \in Nat

VARIABLES
  conn,       \* where each connection task is
  app,        \* the name in a connection's Init message
  answer,     \* the one-shot reply to a connection's Join
  initReply,  \* the one-shot reply to its InitData
  unread,     \* packets its subscription has not read
  step,       \* what the manager waits for while it handles a Join, if it is there
  requests,   \* the manager's queue; a Join it is handling is the first
  channels,   \* the manager's map from names to channels
  chan,       \* what each channel task is doing
  inbox,      \* a channel's queue
  reader,     \* what the reader of each upstream connection is doing
  carried     \* packets an upstream connection has carried

connVars    == <<conn, app, answer, initReply, unread>>
managerVars == <<step, requests, channels>>
channelVars == <<chan, inbox, reader, carried>>
vars        == <<connVars, managerVars, channelVars>>

ConnState == {"new", "joining", "requesting", "waiting", "playing", "ended"}

\* A reader reads, owes a Release or has sent it; or it ended after a Disconnect
\* alone (broken), ended and told nobody (failed), or reads a closed connection.
ReaderState ==
  {"absent", "reading", "releasing", "ended", "broken", "failed", "spinning"}

\* A reply is pending, was dropped, or carries a handle: to a channel that was
\* there (Local) or that was made for the player (Origin).
Pending   == [status |-> "pending", channel |-> None]
Dropped   == [status |-> "dropped", channel |-> None]
Local(d)  == [status |-> "local", channel |-> d]
Origin(d) == [status |-> "origin", channel |-> d]

Reply == {Pending, Dropped} \cup {Local(d) : d \in Conns} \cup {Origin(d) : d \in Conns}

JoinReq(c, n)    == [type |-> "Join", by |-> c, name |-> n]
ReleaseReq(d, n) == [type |-> "Release", by |-> d, name |-> n]

Request == [type : {"Join", "Release"}, by : Conns, name : Names]

PacketMsg      == [type |-> "PacketFromOrigin", by |-> None]
InitDataMsg(c) == [type |-> "InitData", by |-> c]
DisconnectMsg  == [type |-> "Disconnect", by |-> None]

Message == {PacketMsg, DisconnectMsg} \cup {InitDataMsg(c) : c \in Conns}

TypeOK ==
  /\ conn \in [Conns -> ConnState]
  /\ app \in [Conns -> Names \cup {None}]
  /\ answer \in [Conns -> Reply]
  /\ initReply \in [Conns -> {"pending", "dropped", "ready"}]
  /\ unread \in [Conns -> 0 .. Capacity]
  /\ step \in {"idle", "asking", "connecting", "confirming", "panicked"}
  /\ requests \in Seq(Request)
  /\ channels \in [Names -> Conns \cup {None}]
  /\ chan \in [Conns -> {"absent", "running", "closing", "dead"}]
  /\ inbox \in [Conns -> Seq(Message)]
  /\ reader \in [Conns -> ReaderState]
  /\ carried \in [Conns -> 0 .. MaxPackets]

Init ==
  /\ conn = [c \in Conns |-> "new"]
  /\ app = [c \in Conns |-> None]
  /\ answer = [c \in Conns |-> Pending]
  /\ initReply = [c \in Conns |-> "pending"]
  /\ unread = [c \in Conns |-> 0]
  /\ step = "idle"
  /\ requests = <<>>
  /\ channels = [n \in Names |-> None]
  /\ chan = [d \in Conns |-> "absent"]
  /\ inbox = [d \in Conns |-> <<>>]
  /\ reader = [d \in Conns |-> "absent"]
  /\ carried = [d \in Conns |-> 0]

\* A channel's queue takes messages until its task is gone.
Alive(d) == chan[d] \in {"running", "closing"}

Subscribed(c, d) ==
  /\ answer[c] \in {Local(d), Origin(d)}
  /\ conn[c] \in {"joining", "requesting", "waiting", "playing"}

Become(c, s) == conn' = [conn EXCEPT ![c] = s]

Tell(d, message) == inbox' = [inbox EXCEPT ![d] = Append(@, message)]

---------------------------------------------------------------------------
(***************************************************************************)
(* A connection.                                                           *)
(***************************************************************************)

\* Cache connections do not publish: an Init message of a publisher is
\* refused.
RefusePublisher(c) ==
  /\ conn[c] = "new"
  /\ Become(c, "ended")
  /\ UNCHANGED <<app, answer, initReply, unread, managerVars, channelVars>>

Connect(c, n) ==
  /\ conn[c] = "new"
  /\ step # "panicked"
  /\ app' = [app EXCEPT ![c] = n]
  /\ requests' = Append(requests, JoinReq(c, n))
  /\ Become(c, "joining")
  /\ UNCHANGED <<answer, initReply, unread, step, channels, channelVars>>

\* There is no manager to take the Join.
ConnectFails(c) ==
  /\ conn[c] = "new"
  /\ step = "panicked"
  /\ Become(c, "ended")
  /\ UNCHANGED <<app, answer, initReply, unread, managerVars, channelVars>>

\* The peer is gone: the Ok frame, a cached packet or a packet of the ring
\* cannot be written.
PlayerGone(c) ==
  /\ \/ conn[c] = "joining"
     \/ conn[c] = "waiting" /\ initReply[c] = "ready"
     \/ conn[c] = "playing" /\ unread[c] > 0
  /\ Become(c, "ended")
  /\ UNCHANGED <<app, answer, initReply, unread, managerVars, channelVars>>

\* The player that made the channel has missed nothing, and asks for nothing.
JoinAnswered(c) ==
  /\ conn[c] = "joining"
  /\ answer[c] # Pending
  /\ Become(c, CASE answer[c].status = "dropped" -> "ended"
                 [] answer[c].status = "local" -> "requesting"
                 [] answer[c].status = "origin" -> "playing")
  /\ UNCHANGED <<app, answer, initReply, unread, managerVars, channelVars>>

RequestInit(c) ==
  /\ conn[c] = "requesting"
  /\ \E d \in Conns :
       /\ answer[c] = Local(d)
       /\ \/ /\ Alive(d)
             /\ Tell(d, InitDataMsg(c))
             /\ Become(c, "waiting")
          \/ /\ ~Alive(d)
             /\ Become(c, "ended")
             /\ UNCHANGED inbox
  /\ UNCHANGED <<app, answer, initReply, unread, managerVars, chan, reader, carried>>

InitAnswered(c) ==
  /\ conn[c] = "waiting"
  /\ initReply[c] # "pending"
  /\ Become(c, "playing")
  /\ UNCHANGED <<app, answer, initReply, unread, managerVars, channelVars>>

\* MUTANT of Receive: the ring is read without waiting for a packet.
ReceiveAtOnce(c) ==
  /\ conn[c] = "playing"
  /\ unread' = [unread EXCEPT ![c] = @ - 1]
  /\ UNCHANGED <<conn, app, answer, initReply, managerVars, channelVars>>

Receive(c) ==
  /\ conn[c] = "playing"
  /\ unread[c] > 0
  /\ unread' = [unread EXCEPT ![c] = @ - 1]
  /\ UNCHANGED <<conn, app, answer, initReply, managerVars, channelVars>>

\* A ring closes when its senders are gone: the channel task's and the map's.
RingClosed(d) == ~Alive(d) /\ \A n \in Names : channels[n] # d

\* Errors frames are sent and the connection ends.
Closed(c) ==
  /\ conn[c] = "playing"
  /\ unread[c] = 0
  /\ \E d \in Conns : answer[c] \in {Local(d), Origin(d)} /\ RingClosed(d)
  /\ Become(c, "ended")
  /\ UNCHANGED <<app, answer, initReply, unread, managerVars, channelVars>>

---------------------------------------------------------------------------
(***************************************************************************)
(* The manager.  It handles one message at a time, and a Join that pulls   *)
(* the stream keeps it until the upstream has answered.                    *)
(***************************************************************************)
Take(type) == step = "idle" /\ requests # <<>> /\ Head(requests).type = type

Respond(c, reply) ==
  /\ answer' = [answer EXCEPT ![c] = reply]
  /\ requests' = Tail(requests)
  /\ step' = "idle"

HandleLocalJoin ==
  /\ Take("Join")
  /\ channels[Head(requests).name] # None
  /\ Respond(Head(requests).by, Local(channels[Head(requests).name]))
  /\ UNCHANGED <<conn, app, initReply, unread, channels, channelVars>>

\* Nobody here has the stream: its upstream is asked of the register, or known.
StartPull ==
  /\ Take("Join")
  /\ channels[Head(requests).name] = None
  /\ step' = IF Upstream = "register" THEN "asking" ELSE "connecting"
  /\ UNCHANGED <<connVars, requests, channels, channelVars>>

\* The next answer of the register or of the upstream is the one hoped for.
PullGoesOn ==
  /\ \/ step = "asking" /\ step' = "connecting"
     \/ step = "connecting" /\ step' = "confirming"
  /\ UNCHANGED <<connVars, requests, channels, channelVars>>

\* MUTANT of PullFails: the reply is kept.
PullFailsSilently ==
  /\ step \in {"asking", "connecting", "confirming"}
  /\ requests' = Tail(requests)
  /\ step' = "idle"
  /\ UNCHANGED <<connVars, channels, channelVars>>

\* NOFOUND, no connection, or an Errors frame, or an end, where Ok was due: the
\* reply is dropped.
PullFails ==
  /\ step \in {"asking", "connecting", "confirming"}
  /\ Respond(Head(requests).by, Dropped)
  /\ UNCHANGED <<conn, app, initReply, unread, channels, channelVars>>

\* MUTANT of Confirmed: the channel is not entered in the map.
ConfirmedUnmapped ==
  /\ step = "confirming"
  /\ LET c == Head(requests).by
     IN  /\ chan' = [chan EXCEPT ![c] = "running"]
         /\ reader' = [reader EXCEPT ![c] = "reading"]
         /\ Respond(c, Origin(c))
  /\ UNCHANGED <<conn, app, initReply, unread, channels, inbox, carried>>

\* The Ok frame: the channel, its entry and its reader are made, and the player
\* is subscribed before either task starts.  They stay, were the player gone.
Confirmed ==
  /\ step = "confirming"
  /\ LET c == Head(requests).by
     IN  /\ channels' = [channels EXCEPT ![Head(requests).name] = c]
         /\ chan' = [chan EXCEPT ![c] = "running"]
         /\ reader' = [reader EXCEPT ![c] = "reading"]
         /\ Respond(c, Origin(c))
  /\ UNCHANGED <<conn, app, initReply, unread, inbox, carried>>

\* An unwrap of the socket that asks the register, or unreachable! at a frame of
\* the upstream that is neither Ok nor Errors, ends the manager's task: its queue
\* is dropped with the replies in it, and so is its map.
ManagerPanics ==
  /\ "panic" \in Faults
  /\ \/ Take("Join") /\ channels[Head(requests).name] = None /\ Upstream = "register"
     \/ step = "confirming"
  /\ step' = "panicked"
  /\ answer' = [c \in Conns |->
       IF \E i \in 1 .. Len(requests) : requests[i] = JoinReq(c, app[c])
       THEN Dropped ELSE answer[c]]
  /\ requests' = <<>>
  /\ channels' = [n \in Names |-> None]
  /\ UNCHANGED <<conn, app, initReply, unread, channelVars>>

HandleRelease ==
  /\ Take("Release")
  /\ channels' = [channels EXCEPT ![Head(requests).name] = None]
  /\ requests' = Tail(requests)
  /\ UNCHANGED <<connVars, step, channelVars>>

---------------------------------------------------------------------------
(***************************************************************************)
(* The reader of an upstream connection.                                   *)
(***************************************************************************)

\* A packet: the channel is there, as only its reader ends it.
UpstreamPacket(d) ==
  /\ reader[d] = "reading"
  /\ carried[d] < MaxPackets
  /\ carried' = [carried EXCEPT ![d] = @ + 1]
  /\ Tell(d, PacketMsg)
  /\ UNCHANGED <<connVars, managerVars, chan, reader>>

\* MUTANT of UpstreamErrors: the channel is not told.
UpstreamErrorsSilently(d) ==
  /\ reader[d] = "reading"
  /\ reader' = [reader EXCEPT ![d] = "releasing"]
  /\ UNCHANGED <<connVars, managerVars, chan, inbox, carried>>

\* An Errors frame: Disconnect to the channel ...
UpstreamErrors(d) ==
  /\ reader[d] = "reading"
  /\ reader' = [reader EXCEPT ![d] = "releasing"]
  /\ Tell(d, DisconnectMsg)
  /\ UNCHANGED <<connVars, managerVars, chan, carried>>

\* MUTANT of ReaderReleases: the entry is forgotten.
ReaderReleasesNothing(d) ==
  /\ reader[d] = "releasing"
  /\ reader' = [reader EXCEPT ![d] = "ended"]
  /\ UNCHANGED <<connVars, managerVars, chan, inbox, carried>>

\* ... and Release to the manager, if it is there.
ReaderReleases(d) ==
  /\ reader[d] = "releasing"
  /\ reader' = [reader EXCEPT ![d] = "ended"]
  /\ requests' = IF step = "panicked" THEN requests
                 ELSE Append(requests, ReleaseReq(d, app[d]))
  /\ UNCHANGED <<connVars, step, channels, chan, inbox, carried>>

\* A frame that cannot be read: Disconnect, but no Release.
UpstreamBreaks(d) ==
  /\ "error" \in Faults
  /\ reader[d] = "reading"
  /\ reader' = [reader EXCEPT ![d] = "broken"]
  /\ Tell(d, DisconnectMsg)
  /\ UNCHANGED <<connVars, managerVars, chan, carried>>

\* A frame that is no message or no packet, by ?, or that only a client sends, by
\* unreachable!: the task ends and tells neither the channel nor the manager.
UpstreamGarbles(d) ==
  /\ "garbled" \in Faults
  /\ reader[d] = "reading"
  /\ reader' = [reader EXCEPT ![d] = "failed"]
  /\ UNCHANGED <<connVars, managerVars, chan, inbox, carried>>

\* The end of the stream: the loop reads it again and again.
UpstreamEof(d) ==
  /\ "eof" \in Faults
  /\ reader[d] = "reading"
  /\ reader' = [reader EXCEPT ![d] = "spinning"]
  /\ UNCHANGED <<connVars, managerVars, chan, inbox, carried>>

---------------------------------------------------------------------------
(***************************************************************************)
(* A channel task.                                                         *)
(***************************************************************************)

\* handle_message.
Effect(d, message) ==
  /\ initReply' = IF message.type = "InitData"
                  THEN [initReply EXCEPT ![message.by] = "ready"] ELSE initReply
  /\ unread' = [c \in Conns |->
       IF message.type = "PacketFromOrigin" /\ Subscribed(c, d) /\ unread[c] < Capacity
       THEN unread[c] + 1 ELSE unread[c]]
  /\ chan' = [chan EXCEPT ![d] = IF message.type = "Disconnect" THEN "closing" ELSE @]

ChannelHandle(d) ==
  /\ chan[d] = "running"
  /\ inbox[d] # <<>>
  /\ Effect(d, Head(inbox[d]))
  /\ inbox' = [inbox EXCEPT ![d] = Tail(@)]
  /\ UNCHANGED <<conn, app, answer, managerVars, reader, carried>>

\* The task ends: its queue is dropped, with the replies it owes.
ChannelExit(d) ==
  /\ chan[d] = "closing"
  /\ chan' = [chan EXCEPT ![d] = "dead"]
  /\ inbox' = [inbox EXCEPT ![d] = <<>>]
  /\ initReply' = [c \in Conns |->
       IF \E i \in 1 .. Len(inbox[d]) : inbox[d][i] = InitDataMsg(c)
       THEN "dropped" ELSE initReply[c]]
  /\ UNCHANGED <<conn, app, answer, unread, managerVars, reader, carried>>

---------------------------------------------------------------------------
Manager == HandleLocalJoin \/ StartPull \/ Confirmed \/ HandleRelease

\* The answers the manager waits for.
Answers == PullGoesOn \/ PullFails

Channel(d) == ChannelHandle(d) \/ ChannelExit(d) \/ ReaderReleases(d)

Connection(c) ==
  JoinAnswered(c) \/ RequestInit(c) \/ InitAnswered(c) \/ Receive(c) \/ Closed(c)

Environment ==
  \/ \E c \in Conns :
       \/ RefusePublisher(c) \/ ConnectFails(c) \/ PlayerGone(c)
       \/ \E n \in Names : Connect(c, n)
  \/ ManagerPanics
  \/ \E d \in Conns :
       \/ UpstreamPacket(d) \/ UpstreamErrors(d) \/ UpstreamBreaks(d)
       \/ UpstreamGarbles(d) \/ UpstreamEof(d)

Next ==
  \/ Environment
  \/ Answers
  \/ Manager
  \/ \E c \in Conns : Connection(c) \/ Channel(c)

Spec == Init /\ [][Next]_vars

\* Tasks that can run are polled, and the register and the upstream answer:
\* the code waits for them with no timeout.
FairSpec ==
  /\ Spec
  /\ WF_vars(Manager) /\ WF_vars(Answers \/ Confirmed)
  /\ \A c \in Conns : WF_vars(Connection(c)) /\ WF_vars(Channel(c))

---------------------------------------------------------------------------
(***************************************************************************)
(* Properties.                                                             *)
(***************************************************************************)

\* Readers that may still read a packet, and readers that will not and that left
\* an entry, a channel or players behind.
Pulling(d)  == reader[d] = "reading"
Forsaken(d) == reader[d] \in {"broken", "failed", "spinning"}

\* A stream is pulled once, however many players join it and whenever its
\* upstream ends: that is how a cache protects the origin.
PulledOnce ==
  \A d, e \in Conns : Pulling(d) /\ Pulling(e) /\ app[d] = app[e] => d = e

\* An entry whose channel is dead is about to be released, unless it was a
\* broken frame that ended it.
NoPoisonedEntry ==
  \A n \in Names, d \in Conns :
    channels[n] = d /\ chan[d] \in {"closing", "dead"} =>
      \/ reader[d] \in {"releasing", "broken"}
      \/ \E i \in 1 .. Len(requests) : requests[i] = ReleaseReq(d, n)

\* Nobody who waits is forgotten: a Join without a reply is in the manager's queue, and
\* an InitData without one in that of a channel that lives.
NobodyForgotten ==
  \A c \in Conns :
    /\ conn[c] = "joining" /\ answer[c] = Pending =>
         \E i \in 1 .. Len(requests) : requests[i] = JoinReq(c, app[c])
    /\ conn[c] = "waiting" /\ initReply[c] = "pending" =>
         \E d \in Conns : /\ answer[c] = Local(d) /\ Alive(d)
                          /\ \E i \in 1 .. Len(inbox[d]) : inbox[d][i] = InitDataMsg(c)

\* The tasks of the node have done what they can, and no answer from upstream is awaited.
AtRest ==
  /\ step \in {"idle", "panicked"} /\ requests = <<>>
  /\ \A d \in Conns :
       /\ chan[d] \in {"absent", "dead"} \/ (chan[d] = "running" /\ inbox[d] = <<>>)
       /\ reader[d] # "releasing"
  /\ \A c \in Conns :
       /\ conn[c] # "requesting"
       /\ conn[c] = "joining" => answer[c] = Pending
       /\ conn[c] = "waiting" => initReply[c] = "pending"
       /\ conn[c] = "playing" =>
            /\ unread[c] = 0
            /\ \A d \in Conns : answer[c] \in {Local(d), Origin(d)} => ~RingClosed(d)

\* Then nobody waits for it, and the map and the players lead to streams that are
\* pulled. Only upstreams that ended without an Errors frame leave more behind:
\* after a broken frame the entry, and after a garbled one or a plain end the
\* channel as well, with the players of it.
RestIsClean ==
  AtRest =>
    /\ \A c \in Conns : conn[c] \in {"new", "playing", "ended"}
    /\ \A d \in Conns :
         chan[d] = "running" <=> Pulling(d) \/ (Forsaken(d) /\ reader[d] # "broken")
    /\ \A n \in Names, d \in Conns : channels[n] = d => Pulling(d) \/ Forsaken(d)
    /\ \A c \in Conns : conn[c] = "playing" =>
         \E d \in Conns : /\ answer[c] \in {Local(d), Origin(d)}
                          /\ Pulling(d) \/ Forsaken(d)

\* No player waits for ever: its Join is answered, were it by dropping the reply;
\* and when an upstream says that the stream is over, every player is let go.
Waits(c) ==
  \/ conn[c] = "joining"
  \/ \E d \in Conns : /\ conn[c] = "playing" /\ answer[c] \in {Local(d), Origin(d)}
                     /\ reader[d] = "ended"

NobodyWaits == \A c \in Conns : Waits(c) ~> ~Waits(c)
=============================================================================
