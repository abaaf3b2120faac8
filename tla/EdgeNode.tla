------------------------------ MODULE EdgeNode ------------------------------
(***************************************************************************)
(* The control plane of xlive-edge: RTMP connections of publishers and     *)
(* players, HTTP-FLV players, the manager, one channel task per stream and *)
(* one reader task per pulled stream.  A published stream is forwarded to  *)
(* the origin by its channel; a stream that nobody publishes here is       *)
(* pulled from upstream when a first player joins it.                      *)
(*                                                                         *)
(* A channel is named after the connection it was made for.  Unlike in the *)
(* other nodes, a channel task may fail: run returns the first error that  *)
(* handle_message meets.  Packets are only counted.                        *)
(***************************************************************************)
EXTENDS Naturals, Sequences, FiniteSets

CONSTANTS
  Conns,       \* connections, each of a publisher or of a player of one name
  Names,       \* app names
  None,        \* no channel, or no name
  Kinds,       \* which kinds of connection there are
  Faults,      \* what goes wrong outside the edge
  Capacity,    \* slots of the broadcast ring (64 in the code)
  MaxPackets   \* bound: packets of one stream

ASSUME NoneAssumption == None \notin Conns /\ None \notin Names
ASSUME KindsAssumption == Kinds \subseteq {"publisher", "rtmp", "http"}
ASSUME FaultsAssumption == Faults \subseteq {"vanish", "origin", "eof"}
ASSUME BoundsAssumption == Capacity \in Nat \ {0} /\ MaxPackets \in Nat

VARIABLES
  conn,       \* where each connection task is
  kind,       \* what a connection turned out to be
  app,        \* the name it publishes or plays
  answer,     \* the one-shot reply to its Create or Join
  initReply,  \* the one-shot reply to its InitData
  unread,     \* packets its subscription has not read; Capacity + 1: it lags
  headed,     \* HTTP players that were sent the FLV header
  step,       \* how far the manager is with the request it handles
  requests,   \* the manager's queue; the request it is handling is the first
  channels,   \* the manager's map from names to channels
  chan,       \* what each channel task is doing
  inbox,      \* a channel's queue
  reader,     \* what the reader of each upstream connection is doing
  carried     \* packets a stream's publisher or upstream has sent

connVars    == <<conn, kind, app, answer, initReply, unread, headed>>
managerVars == <<step, requests, channels>>
channelVars == <<chan, inbox, reader, carried>>
vars        == <<connVars, managerVars, channelVars>>

\* A publisher's connection has "vanished" when its task ended without
\* telling the channel and the manager.
ConnState == {"new", "creating", "publishing", "releasing", "vanished",
              "joining", "requesting", "waiting", "playing", "ended"}

ChanState == {"absent", "starting", "running", "sending", "closing", "dead", "failed"}

\* A reply is pending, was dropped, or carries a handle: to a channel that was
\* there (Local) or that was made for the connection (Origin).
Pending   == [status |-> "pending", channel |-> None]
Dropped   == [status |-> "dropped", channel |-> None]
Local(d)  == [status |-> "local", channel |-> d]
Origin(d) == [status |-> "origin", channel |-> d]

Reply == {Pending, Dropped} \cup {Local(d) : d \in Conns} \cup {Origin(d) : d \in Conns}

CreateReq(c, n)  == [type |-> "Create", by |-> c, name |-> n]
JoinReq(c, n)    == [type |-> "Join", by |-> c, name |-> n]
ReleaseReq(c, n) == [type |-> "Release", by |-> c, name |-> n]

Request == [type : {"Create", "Join", "Release"}, by : Conns, name : Names]

PacketMsg      == [type |-> "Packet", by |-> None]
OriginMsg      == [type |-> "PacketFromOrigin", by |-> None]
InitDataMsg(c) == [type |-> "InitData", by |-> c]
DisconnectMsg  == [type |-> "Disconnect", by |-> None]

Message == {PacketMsg, OriginMsg, DisconnectMsg} \cup {InitDataMsg(c) : c \in Conns}

TypeOK ==
  /\ conn \in [Conns -> ConnState]
  /\ kind \in [Conns -> Kinds \cup {"unknown"}]
  /\ app \in [Conns -> Names \cup {None}]
  /\ answer \in [Conns -> Reply]
  /\ initReply \in [Conns -> {"pending", "dropped", "ready"}]
  /\ unread \in [Conns -> 0 .. Capacity + 1]
  /\ headed \subseteq Conns
  /\ step \in {"idle", "pulling", "returning"}
  /\ requests \in Seq(Request)
  /\ channels \in [Names -> Conns \cup {None}]
  /\ chan \in [Conns -> ChanState]
  /\ inbox \in [Conns -> Seq(Message)]
  /\ reader \in [Conns -> {"absent", "reading", "releasing", "ended", "lost"}]
  /\ carried \in [Conns -> 0 .. MaxPackets]

Init ==
  /\ conn = [c \in Conns |-> "new"]
  /\ kind = [c \in Conns |-> "unknown"]
  /\ app = [c \in Conns |-> None]
  /\ answer = [c \in Conns |-> Pending]
  /\ initReply = [c \in Conns |-> "pending"]
  /\ unread = [c \in Conns |-> 0]
  /\ headed = {}
  /\ step = "idle"
  /\ requests = <<>>
  /\ channels = [n \in Names |-> None]
  /\ chan = [d \in Conns |-> "absent"]
  /\ inbox = [d \in Conns |-> <<>>]
  /\ reader = [d \in Conns |-> "absent"]
  /\ carried = [d \in Conns |-> 0]

\* A channel's queue takes messages until its task is gone.
Alive(d) == chan[d] \in {"starting", "running", "sending", "closing"}

Subscribed(c, d) ==
  /\ answer[c] \in {Local(d), Origin(d)}
  /\ conn[c] \in {"joining", "requesting", "waiting", "playing"}

\* The receivers of a ring.  The handler that makes one holds a receiver of its
\* own, _watcher, until it returns.
Watched(d) ==
  \/ \E c \in Conns : Subscribed(c, d)
  \/ step = "returning" /\ Head(requests).by = d

Become(c, s) == conn' = [conn EXCEPT ![c] = s]

Ask(request) == requests' = Append(requests, request)

Tell(d, message) == inbox' = [inbox EXCEPT ![d] = Append(@, message)]

---------------------------------------------------------------------------
(***************************************************************************)
(* An RTMP publisher's connection.                                         *)
(***************************************************************************)
Publish(c, n) ==
  /\ "publisher" \in Kinds
  /\ conn[c] = "new"
  /\ kind' = [kind EXCEPT ![c] = "publisher"]
  /\ app' = [app EXCEPT ![c] = n]
  /\ Ask(CreateReq(c, n))
  /\ Become(c, "creating")
  /\ UNCHANGED <<answer, initReply, unread, headed, step, channels, channelVars>>

CreateAnswered(c) ==
  /\ conn[c] = "creating"
  /\ answer[c] # Pending
  /\ Become(c, "publishing")
  /\ UNCHANGED <<kind, app, answer, initReply, unread, headed, managerVars, channelVars>>

\* A packet that the channel cannot be sent ends the task.
PublishPacket(c) ==
  /\ conn[c] = "publishing"
  /\ carried[c] < MaxPackets
  /\ carried' = [carried EXCEPT ![c] = @ + 1]
  /\ \/ Alive(c) /\ Tell(c, PacketMsg) /\ UNCHANGED conn
     \/ ~Alive(c) /\ Become(c, "vanished") /\ UNCHANGED inbox
  /\ UNCHANGED <<kind, app, answer, initReply, unread, headed, managerVars, chan, reader>>

\* MUTANT of PublisherGone: the channel is not told.
PublisherGoneSilently(c) ==
  /\ conn[c] = "publishing"
  /\ Become(c, "releasing")
  /\ UNCHANGED <<kind, app, answer, initReply, unread, headed, managerVars, channelVars>>

\* The stream is finished or its socket closed.  disconnect(): Disconnect to
\* the channel, and when the channel is gone that is the end of it ...
PublisherGone(c) ==
  /\ conn[c] = "publishing"
  /\ \/ Alive(c) /\ Tell(c, DisconnectMsg) /\ Become(c, "releasing")
     \/ ~Alive(c) /\ Become(c, "vanished") /\ UNCHANGED inbox
  /\ UNCHANGED <<kind, app, answer, initReply, unread, headed, managerVars, chan,
                 reader, carried>>

\* MUTANT of SendRelease: the manager is not told.
SendNothing(c) ==
  /\ conn[c] = "releasing"
  /\ Become(c, "ended")
  /\ UNCHANGED <<kind, app, answer, initReply, unread, headed, managerVars, channelVars>>

\* ... otherwise Release to the manager.
SendRelease(c) ==
  /\ conn[c] = "releasing"
  /\ Ask(ReleaseReq(c, app[c]))
  /\ Become(c, "ended")
  /\ UNCHANGED <<kind, app, answer, initReply, unread, headed, step, channels,
                 channelVars>>

\* Nothing is read for five seconds, the bytes are not RTMP, or a response
\* cannot be written: the task ends and disconnect() is not called.
Vanish(c) ==
  /\ "vanish" \in Faults
  /\ conn[c] = "publishing"
  /\ Become(c, "vanished")
  /\ UNCHANGED <<kind, app, answer, initReply, unread, headed, managerVars, channelVars>>

---------------------------------------------------------------------------
(***************************************************************************)
(* A player's connection.                                                  *)
(***************************************************************************)
Watch(c, n, k) ==
  /\ k \in Kinds \ {"publisher"}
  /\ conn[c] = "new"
  /\ kind' = [kind EXCEPT ![c] = k]
  /\ app' = [app EXCEPT ![c] = n]
  /\ Ask(JoinReq(c, n))
  /\ Become(c, "joining")
  /\ UNCHANGED <<answer, initReply, unread, headed, step, channels, channelVars>>

\* The player whose Join pulled the stream has missed nothing, and asks for
\* nothing.
JoinAnswered(c) ==
  /\ conn[c] = "joining"
  /\ answer[c] # Pending
  /\ Become(c, CASE answer[c].status = "dropped" -> "ended"
                 [] answer[c].status = "local" -> "requesting"
                 [] answer[c].status = "origin" -> "playing")
  /\ UNCHANGED <<kind, app, answer, initReply, unread, headed, managerVars, channelVars>>

RequestInit(c) ==
  /\ conn[c] = "requesting"
  /\ \E d \in Conns :
       /\ answer[c] = Local(d)
       /\ \/ Alive(d) /\ Tell(d, InitDataMsg(c)) /\ Become(c, "waiting")
          \/ ~Alive(d) /\ Become(c, "ended") /\ UNCHANGED inbox
  /\ UNCHANGED <<kind, app, answer, initReply, unread, headed, managerVars, chan,
                 reader, carried>>

\* An HTTP player is sent the FLV header before the reply is awaited.
InitAnswered(c) ==
  /\ conn[c] = "waiting"
  /\ initReply[c] # "pending"
  /\ headed' = IF kind[c] = "http" THEN headed \cup {c} ELSE headed
  /\ Become(c, "playing")
  /\ UNCHANGED <<kind, app, answer, initReply, unread, managerVars, channelVars>>

\* MUTANT of PlayerGone: an RTMP player, too, gives up while it waits for the
\* cached packets.
AnyPlayerGone(c) ==
  /\ conn[c] \in {"waiting", "playing"}
  /\ Become(c, "ended")
  /\ UNCHANGED <<kind, app, answer, initReply, unread, headed, managerVars, channelVars>>

\* The peer is gone: a write fails, and the receiver is dropped with what it had
\* not read.  An HTTP request is also abandoned while its Join is answered, and
\* the header may fail to be written before InitData is answered.
PlayerGone(c) ==
  /\ \/ conn[c] = "waiting" /\ initReply[c] = "ready"
     \/ conn[c] = "playing" /\ unread[c] > 0
     \/ conn[c] \in {"joining", "waiting"} /\ kind[c] = "http"
  /\ Become(c, "ended")
  /\ unread' = [unread EXCEPT ![c] = 0]
  /\ UNCHANGED <<kind, app, answer, initReply, headed, managerVars, channelVars>>

\* MUTANT of Receive: the ring is read without waiting for a packet.
ReceiveAtOnce(c) ==
  /\ conn[c] = "playing"
  /\ unread' = [unread EXCEPT ![c] = @ - 1]
  /\ UNCHANGED <<conn, kind, app, answer, initReply, headed, managerVars, channelVars>>

\* An RTMP player that lags goes on with the oldest packet there is; the
\* response to an HTTP player ends.
Receive(c) ==
  /\ conn[c] = "playing"
  /\ unread[c] > 0
  /\ unread' = [unread EXCEPT ![c] = @ - 1]
  /\ IF unread[c] > Capacity /\ kind[c] = "http"
     THEN Become(c, "ended") ELSE UNCHANGED conn
  /\ UNCHANGED <<kind, app, answer, initReply, headed, managerVars, channelVars>>

\* A ring closes when its senders are gone: the channel task's and the map's.
RingClosed(d) == ~Alive(d) /\ \A n \in Names : channels[n] # d

Closed(c) ==
  /\ conn[c] = "playing"
  /\ unread[c] = 0
  /\ \E d \in Conns : answer[c] \in {Local(d), Origin(d)} /\ RingClosed(d)
  /\ Become(c, "ended")
  /\ UNCHANGED <<kind, app, answer, initReply, unread, headed, managerVars, channelVars>>

---------------------------------------------------------------------------
(***************************************************************************)
(* The manager.                                                            *)
(***************************************************************************)
Take(type) == step = "idle" /\ requests # <<>> /\ Head(requests).type = type

Respond(c, reply) ==
  /\ answer' = [answer EXCEPT ![c] = reply]
  /\ requests' = Tail(requests)
  /\ step' = "idle"

\* A new channel is answered with before the handler returns.
RespondNew(c) ==
  /\ answer' = [answer EXCEPT ![c] = Origin(c)]
  /\ step' = "returning"
  /\ UNCHANGED requests

Return ==
  /\ step = "returning"
  /\ requests' = Tail(requests)
  /\ step' = "idle"
  /\ UNCHANGED <<connVars, channels, channelVars>>

\* The entry of the name is replaced and the channel task is spawned.
HandleCreate ==
  /\ Take("Create")
  /\ LET c == Head(requests).by
     IN  /\ channels' = [channels EXCEPT ![Head(requests).name] = c]
         /\ chan' = [chan EXCEPT ![c] = "starting"]
         /\ RespondNew(c)
  /\ UNCHANGED <<conn, kind, app, initReply, unread, headed, inbox, reader, carried>>

HandleLocalJoin ==
  /\ Take("Join")
  /\ channels[Head(requests).name] # None
  /\ Respond(Head(requests).by, Local(channels[Head(requests).name]))
  /\ UNCHANGED <<conn, kind, app, initReply, unread, headed, channels, channelVars>>

\* The manager waits for the register and the upstream.  Its sockets are made
\* with unwrap: a panic there ends the process, since main waits for the
\* manager first, and with it the behaviour.
StartPull ==
  /\ Take("Join")
  /\ channels[Head(requests).name] = None
  /\ step' = "pulling"
  /\ UNCHANGED <<connVars, requests, channels, channelVars>>

\* MUTANT of PullFails: the reply is kept.
PullFailsSilently ==
  /\ step = "pulling"
  /\ requests' = Tail(requests)
  /\ step' = "idle"
  /\ UNCHANGED <<connVars, channels, channelVars>>

\* NOFOUND from the register, no connection, an Errors frame or an end where
\* the Ok frame was due: the reply is dropped.
PullFails ==
  /\ step = "pulling"
  /\ Respond(Head(requests).by, Dropped)
  /\ UNCHANGED <<conn, kind, app, initReply, unread, headed, channels, channelVars>>

\* The Ok frame: channel, entry and reader are made, the player is subscribed.
Confirmed ==
  /\ step = "pulling"
  /\ LET c == Head(requests).by
     IN  /\ channels' = [channels EXCEPT ![Head(requests).name] = c]
         /\ chan' = [chan EXCEPT ![c] = "running"]
         /\ reader' = [reader EXCEPT ![c] = "reading"]
         /\ RespondNew(c)
  /\ UNCHANGED <<conn, kind, app, initReply, unread, headed, inbox, carried>>

\* Release removes the entry of a name, whoever made it.
HandleRelease ==
  /\ Take("Release")
  /\ channels' = [channels EXCEPT ![Head(requests).name] = None]
  /\ requests' = Tail(requests)
  /\ UNCHANGED <<connVars, step, channelVars>>

---------------------------------------------------------------------------
(***************************************************************************)
(* The reader of an upstream connection.                                   *)
(***************************************************************************)

\* A packet; the reader ends when its channel is gone.
UpstreamPacket(d) ==
  /\ reader[d] = "reading"
  /\ carried[d] < MaxPackets
  /\ carried' = [carried EXCEPT ![d] = @ + 1]
  /\ \/ Alive(d) /\ Tell(d, OriginMsg) /\ UNCHANGED reader
     \/ ~Alive(d) /\ reader' = [reader EXCEPT ![d] = "lost"] /\ UNCHANGED inbox
  /\ UNCHANGED <<connVars, managerVars, chan>>

\* An Errors frame: Disconnect to the channel ...
UpstreamErrors(d) ==
  /\ reader[d] = "reading"
  /\ reader' = [reader EXCEPT ![d] = "releasing"]
  /\ IF Alive(d) THEN Tell(d, DisconnectMsg) ELSE UNCHANGED inbox
  /\ UNCHANGED <<connVars, managerVars, chan, carried>>

\* ... and Release to the manager.
ReaderReleases(d) ==
  /\ reader[d] = "releasing"
  /\ reader' = [reader EXCEPT ![d] = "ended"]
  /\ Ask(ReleaseReq(d, app[d]))
  /\ UNCHANGED <<connVars, step, channels, chan, inbox, carried>>

\* The end of the stream, a frame or packet that cannot be read, or a message that
\* only clients send: the task ends, by break, ? or panic, and nobody is told.
UpstreamEof(d) ==
  /\ "eof" \in Faults
  /\ reader[d] = "reading"
  /\ reader' = [reader EXCEPT ![d] = "lost"]
  /\ UNCHANGED <<connVars, managerVars, chan, inbox, carried>>

---------------------------------------------------------------------------
(***************************************************************************)
(* A channel task.                                                         *)
(***************************************************************************)
Turn(d, s) == chan' = [chan EXCEPT ![d] = s]

Handles(d, type) ==
  /\ chan[d] = "running"
  /\ inbox[d] # <<>>
  /\ Head(inbox[d]).type = type

DropHead(d) == inbox' = [inbox EXCEPT ![d] = Tail(@)]

\* The task is gone: its queue is dropped, with the replies it owes.
Drops(d) ==
  /\ inbox' = [inbox EXCEPT ![d] = <<>>]
  /\ initReply' = [c \in Conns |->
       IF conn[c] = "waiting" /\ \E i \in 1 .. Len(inbox[d]) : inbox[d][i] = InitDataMsg(c)
       THEN "dropped" ELSE initReply[c]]

\* A published stream's channel first connects to the origin.
OriginConnects(d) ==
  /\ chan[d] = "starting"
  /\ Turn(d, "running")
  /\ UNCHANGED <<connVars, managerVars, inbox, reader, carried>>

\* The origin cannot be reached, or a packet cannot be sent to it.
OriginFails(d) ==
  /\ "origin" \in Faults
  /\ chan[d] = "starting" \/ Handles(d, "Packet")
  /\ Turn(d, "failed")
  /\ Drops(d)
  /\ UNCHANGED <<conn, kind, app, answer, unread, headed, managerVars, reader, carried>>

\* A packet is cached and forwarded; when there are receivers to count it is
\* then broadcast.
HandlePacket(d) ==
  /\ Handles(d, "Packet") \/ Handles(d, "PacketFromOrigin")
  /\ Turn(d, IF Watched(d) THEN "sending" ELSE "running")
  /\ DropHead(d)
  /\ UNCHANGED <<connVars, managerVars, reader, carried>>

\* Sending fails when the receivers that were counted are gone.
BroadcastPacket(d) ==
  /\ chan[d] = "sending"
  /\ \/ /\ Watched(d)
        /\ unread' = [c \in Conns |->
             IF Subscribed(c, d) /\ unread[c] <= Capacity THEN unread[c] + 1 ELSE unread[c]]
        /\ Turn(d, "running")
        /\ UNCHANGED <<inbox, initReply>>
     \/ /\ ~Watched(d)
        /\ Turn(d, "failed")
        /\ Drops(d)
        /\ UNCHANGED unread
  /\ UNCHANGED <<conn, kind, app, answer, headed, managerVars, reader, carried>>

\* A reply that nobody waits for any more is an error, and ends the channel.
HandleInitData(d) ==
  /\ Handles(d, "InitData")
  /\ LET c == Head(inbox[d]).by
     IN  \/ /\ conn[c] = "waiting"
            /\ initReply' = [initReply EXCEPT ![c] = "ready"]
            /\ DropHead(d)
            /\ UNCHANGED chan
         \/ /\ conn[c] # "waiting"
            /\ Turn(d, "failed")
            /\ Drops(d)
  /\ UNCHANGED <<conn, kind, app, answer, unread, headed, managerVars, reader, carried>>

HandleDisconnect(d) ==
  /\ Handles(d, "Disconnect")
  /\ Turn(d, "closing")
  /\ DropHead(d)
  /\ UNCHANGED <<connVars, managerVars, reader, carried>>

ChannelExit(d) ==
  /\ chan[d] = "closing"
  /\ Turn(d, "dead")
  /\ Drops(d)
  /\ UNCHANGED <<conn, kind, app, answer, unread, headed, managerVars, reader, carried>>

---------------------------------------------------------------------------
Manager == HandleCreate \/ HandleLocalJoin \/ StartPull \/ HandleRelease \/ Return

Answers == PullFails \/ Confirmed

Channel(d) ==
  \/ OriginConnects(d) \/ OriginFails(d) \/ HandlePacket(d) \/ BroadcastPacket(d)
  \/ HandleInitData(d) \/ HandleDisconnect(d) \/ ChannelExit(d) \/ ReaderReleases(d)

Connection(c) ==
  \/ CreateAnswered(c) \/ SendRelease(c)
  \/ JoinAnswered(c) \/ RequestInit(c) \/ InitAnswered(c) \/ Receive(c) \/ Closed(c)

Environment ==
  \/ \E c \in Conns, n \in Names : Publish(c, n) \/ \E k \in Kinds : Watch(c, n, k)
  \/ \E c \in Conns : PublishPacket(c) \/ PublisherGone(c) \/ Vanish(c) \/ PlayerGone(c)
  \/ \E d \in Conns : UpstreamPacket(d) \/ UpstreamErrors(d) \/ UpstreamEof(d)

Next ==
  \/ Environment
  \/ Manager
  \/ Answers
  \/ \E c \in Conns : Connection(c) \/ Channel(c)

Spec == Init /\ [][Next]_vars

\* Tasks that can run are polled; the register, the upstream and the origin
\* answer, as nothing limits the time the edge waits for them.
FairSpec ==
  /\ Spec
  /\ WF_vars(Manager) /\ WF_vars(Answers)
  /\ \A c \in Conns : WF_vars(Connection(c)) /\ WF_vars(Channel(c))

---------------------------------------------------------------------------
(***************************************************************************)
(* Properties.                                                             *)
(***************************************************************************)

Told(d) == \E i \in 1 .. Len(inbox[d]) : inbox[d][i] = DisconnectMsg

\* The channel of a published stream, with its connection to the origin, does
\* not outlive its publisher but by the messages before Disconnect, unless the
\* publisher vanished.
NoOrphanChannel ==
  \A d \in Conns :
    chan[d] \in {"starting", "running", "sending"} /\ kind[d] = "publisher" =>
      conn[d] \in {"creating", "publishing", "vanished"} \/ Told(d)

\* An entry whose channel was closed, and did not fail, is about to be
\* released.
NoPoisonedEntry ==
  \A n \in Names, d \in Conns :
    channels[n] = d /\ chan[d] \in {"closing", "dead"} =>
      \/ conn[d] = "releasing" \/ reader[d] = "releasing"
      \/ \E i \in 1 .. Len(requests) : requests[i] = ReleaseReq(d, n)

\* Nobody who waits is forgotten: a Create or Join without a reply is in the manager's
\* queue, and an InitData without one in that of a channel that lives.
NobodyForgotten ==
  \A c \in Conns :
    /\ conn[c] \in {"creating", "joining"} /\ answer[c] = Pending =>
         \E i \in 1 .. Len(requests) : requests[i] \in {CreateReq(c, app[c]), JoinReq(c, app[c])}
    /\ conn[c] = "waiting" /\ initReply[c] = "pending" =>
         \E d \in Conns : /\ answer[c] = Local(d) /\ Alive(d)
                          /\ \E i \in 1 .. Len(inbox[d]) : inbox[d][i] = InitDataMsg(c)

\* The tasks of the node have done what they can, and no answer from upstream is awaited.
AtRest ==
  /\ step = "idle" /\ requests = <<>>
  /\ \A d \in Conns :
       /\ chan[d] \in {"absent", "dead", "failed"} \/ (chan[d] = "running" /\ inbox[d] = <<>>)
       /\ reader[d] # "releasing"
  /\ \A c \in Conns :
       /\ conn[c] \notin {"releasing", "requesting"}
       /\ conn[c] \in {"creating", "joining"} => answer[c] = Pending
       /\ conn[c] = "waiting" => initReply[c] = "pending"
       /\ conn[c] = "playing" =>
            /\ unread[c] = 0
            /\ \A d \in Conns : answer[c] \in {Local(d), Origin(d)} => ~RingClosed(d)

\* A stream that is published or pulled, or whose publisher or reader ended without a word.
Fed(d) == conn[d] \in {"publishing", "vanished"} \/ reader[d] \in {"reading", "lost"}

\* Then nobody waits for it, and only such streams have a channel, an entry of the map or
\* a player.
RestIsClean ==
  AtRest =>
    /\ \A c \in Conns : conn[c] \in {"new", "publishing", "vanished", "playing", "ended"}
    /\ \A d \in Conns : chan[d] = "running" => Fed(d)
    /\ \A n \in Names, d \in Conns : channels[n] = d => Fed(d)
    /\ \A c \in Conns : conn[c] = "playing" =>
         \E d \in Conns : answer[c] \in {Local(d), Origin(d)} /\ Fed(d)

\* RTMP players cannot harm each other: a channel fails under a player only by
\* its origin, or when an HTTP player left before its InitData was handled;
\* whichever RTMP player leaves, and when, the others stay.
FailsAlone ==
  [][\A d \in Conns :
       chan[d] # "failed" /\ chan'[d] = "failed" /\ (\E c \in Conns : Subscribed(c, d)) =>
         \/ chan[d] = "starting" \/ Head(inbox[d]) = PacketMsg
         \/ \E c \in Conns : kind[c] = "http" /\ Head(inbox[d]) = InitDataMsg(c)]_vars

\* An HTTP player that is sent packets was sent the FLV header before.
FlvHeaded ==
  \A c \in Conns : conn[c] = "playing" /\ kind[c] = "http" => c \in headed

\* Every Create and every Join is answered, were it by dropping the reply.
Answered ==
  \A c \in Conns : conn[c] \in {"creating", "joining"} ~> conn[c] \notin {"creating", "joining"}

\* After a publisher that leaves, or an upstream that says the stream is over, the
\* channel ends, with its connection to the origin, and every player is let go.
StreamEnds ==
  \A d \in Conns :
    conn[d] = "releasing" \/ reader[d] = "releasing" ~>
      /\ chan[d] \in {"dead", "failed"}
      /\ \A c \in Conns : ~(conn[c] = "playing" /\ answer[c] \in {Local(d), Origin(d)})
=============================================================================
