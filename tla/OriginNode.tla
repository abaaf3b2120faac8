----------------------------- MODULE OriginNode -----------------------------
(***************************************************************************)
(* The control plane of xlive-origin: the connection tasks, the manager    *)
(* task that owns the map from names to channels, and one channel task per *)
(* publisher.  They talk through unbounded queues and one-shot replies, so *)
(* every step below reads or writes one queue at most and the orders in    *)
(* which the tasks run are all there.                                      *)
(*                                                                         *)
(* A channel is named after the connection whose Create made it.  Packets  *)
(* are only counted here: Fanout is about their contents.                  *)
(***************************************************************************)
EXTENDS Naturals, Sequences, FiniteSets

CONSTANTS
  Conns,         \* TCP connections, each a publisher or a player of one name
  Names,         \* app names
  None,          \* no channel, or no name
  WithRegister,  \* whether the origin was given the address of a register
  Faults,        \* "connect": that address may not resolve
  Capacity,      \* slots of the broadcast ring (64 in the code)
  MaxPackets     \* bound: packets a publisher sends

ASSUME NoneAssumption == None \notin Conns /\ None \notin Names
ASSUME WithRegisterAssumption == WithRegister \in BOOLEAN
ASSUME FaultsAssumption == Faults \subseteq {"connect"}
ASSUME BoundsAssumption == Capacity \in Nat \ {0} /\ MaxPackets \in Nat

VARIABLES
  conn,        \* where each connection task is
  app,         \* the name in a connection's Init message
  answer,      \* the one-shot reply to a connection's Create or Join
  initReply,   \* the one-shot reply to a player's InitData
  unread,      \* packets a player's subscription has not read
  sent,        \* packets a publisher has sent
  manager,     \* "running" until the manager task panics
  requests,    \* the manager's queue
  channels,    \* the manager's map from names to channels
  chan,        \* what each channel task is doing
  inbox,       \* a channel's queue
  late,        \* whether a channel's last heartbeat is over a second old
  socket,      \* the channel that holds the UDP socket on the origin's port
  registered   \* the names the register was last told to hold

connVars    == <<conn, app, answer, initReply, unread, sent>>
managerVars == <<manager, requests, channels>>
channelVars == <<chan, inbox, late, socket, registered>>
vars        == <<connVars, managerVars, channelVars>>

ConnState == {"new", "creating", "publishing", "releasing", "joining",
              "requesting", "waiting", "playing", "draining", "ended"}

ChanState == {"absent", "starting", "running", "closing", "dead"}

\* A reply is pending, was dropped unanswered, or carries a channel's handle.
Reply == [status : {"pending", "dropped", "handle"}, channel : Conns \cup {None}]

Pending   == [status |-> "pending", channel |-> None]
Dropped   == [status |-> "dropped", channel |-> None]
Handle(d) == [status |-> "handle", channel |-> d]

\* The manager's messages.  A Release carries its name only; by is the
\* connection that sent it, for the properties.
CreateReq(c, n)  == [type |-> "Create", by |-> c, name |-> n]
JoinReq(c, n)    == [type |-> "Join", by |-> c, name |-> n]
ReleaseReq(c, n) == [type |-> "Release", by |-> c, name |-> n]

Request == [type : {"Create", "Join", "Release"}, by : Conns, name : Names]

\* The channels' messages.
PacketMsg      == [type |-> "Packet", by |-> None]
InitDataMsg(c) == [type |-> "InitData", by |-> c]
DisconnectMsg  == [type |-> "Disconnect", by |-> None]

Message == {PacketMsg, DisconnectMsg} \cup {InitDataMsg(c) : c \in Conns}

TypeOK ==
  /\ conn \in [Conns -> ConnState]
  /\ app \in [Conns -> Names \cup {None}]
  /\ answer \in [Conns -> Reply]
  /\ initReply \in [Conns -> {"pending", "dropped", "ready"}]
  /\ unread \in [Conns -> 0 .. Capacity]
  /\ sent \in [Conns -> 0 .. MaxPackets]
  /\ manager \in {"running", "panicked"}
  /\ requests \in Seq(Request)
  /\ channels \in [Names -> Conns \cup {None}]
  /\ chan \in [Conns -> ChanState]
  /\ inbox \in [Conns -> Seq(Message)]
  /\ late \in [Conns -> BOOLEAN]
  /\ socket \in Conns \cup {None}
  /\ registered \subseteq Names

Init ==
  /\ conn = [c \in Conns |-> "new"]
  /\ app = [c \in Conns |-> None]
  /\ answer = [c \in Conns |-> Pending]
  /\ initReply = [c \in Conns |-> "pending"]
  /\ unread = [c \in Conns |-> 0]
  /\ sent = [c \in Conns |-> 0]
  /\ manager = "running"
  /\ requests = <<>>
  /\ channels = [n \in Names |-> None]
  /\ chan = [d \in Conns |-> "absent"]
  /\ inbox = [d \in Conns |-> <<>>]
  /\ late = [d \in Conns |-> FALSE]
  /\ socket = None
  /\ registered = {}

\* A channel's queue takes messages until its task is gone.
Alive(d) == chan[d] \in {"starting", "running", "closing"}

\* Connections that hold a subscription to channel d.
Subscribed(c, d) ==
  /\ answer[c] = Handle(d)
  /\ conn[c] \in {"joining", "requesting", "waiting", "playing"}

Become(c, s) == conn' = [conn EXCEPT ![c] = s]

Ask(request) == requests' = Append(requests, request)

Tell(d, message) == inbox' = [inbox EXCEPT ![d] = Append(@, message)]

---------------------------------------------------------------------------
(***************************************************************************)
(* A publisher's connection.  The peer is an edge: after its Init message  *)
(* it sends Media messages only, and then closes.                          *)
(***************************************************************************)
ConnectPublisher(c, n) ==
  /\ conn[c] = "new"
  /\ app' = [app EXCEPT ![c] = n]
  /\ \/ /\ manager = "running"
        /\ Ask(CreateReq(c, n))
        /\ Become(c, "creating")
     \/ /\ manager = "panicked"
        /\ Become(c, "ended")
        /\ UNCHANGED requests
  /\ UNCHANGED <<answer, initReply, unread, sent, manager, channels, channelVars>>

\* A dropped reply ends the connection; nothing is released, as the state is
\* still Init.
CreateAnswered(c) ==
  /\ conn[c] = "creating"
  /\ answer[c] # Pending
  /\ Become(c, IF answer[c] = Dropped THEN "ended" ELSE "publishing")
  /\ UNCHANGED <<app, answer, initReply, unread, sent, managerVars, channelVars>>

\* A packet that cannot be sent ends the connection at once: neither
\* Disconnect nor Release is sent.
PublishPacket(c) ==
  /\ conn[c] = "publishing"
  /\ sent[c] < MaxPackets
  /\ sent' = [sent EXCEPT ![c] = @ + 1]
  /\ \/ /\ Alive(c)
        /\ Tell(c, PacketMsg)
        /\ UNCHANGED conn
     \/ /\ ~Alive(c)
        /\ Become(c, "ended")
        /\ UNCHANGED inbox
  /\ UNCHANGED <<app, answer, initReply, unread, managerVars, chan, late, socket,
                 registered>>

\* MUTANT of PublisherGone: the channel is not told.
PublisherGoneSilently(c) ==
  /\ conn[c] = "publishing"
  /\ Become(c, "releasing")
  /\ UNCHANGED <<app, answer, initReply, unread, sent, managerVars, channelVars>>

\* disconnected(): first Disconnect to the channel, whether or not it lives ...
PublisherGone(c) ==
  /\ conn[c] = "publishing"
  /\ Become(c, "releasing")
  /\ IF Alive(c) THEN Tell(c, DisconnectMsg) ELSE UNCHANGED inbox
  /\ UNCHANGED <<app, answer, initReply, unread, sent, managerVars, chan, late,
                 socket, registered>>

\* MUTANT of SendRelease: Release is skipped when the channel is already gone.
SendReleaseIfAlive(c) ==
  /\ conn[c] = "releasing"
  /\ Become(c, "ended")
  /\ IF manager = "running" /\ Alive(c)
     THEN Ask(ReleaseReq(c, app[c])) ELSE UNCHANGED requests
  /\ UNCHANGED <<app, answer, initReply, unread, sent, manager, channels,
                 channelVars>>

\* ... then Release to the manager.
SendRelease(c) ==
  /\ conn[c] = "releasing"
  /\ Become(c, "ended")
  /\ IF manager = "running" THEN Ask(ReleaseReq(c, app[c])) ELSE UNCHANGED requests
  /\ UNCHANGED <<app, answer, initReply, unread, sent, manager, channels,
                 channelVars>>

---------------------------------------------------------------------------
(***************************************************************************)
(* A player's connection.                                                  *)
(***************************************************************************)
ConnectPlayer(c, n) ==
  /\ conn[c] = "new"
  /\ app' = [app EXCEPT ![c] = n]
  /\ \/ /\ manager = "running"
        /\ Ask(JoinReq(c, n))
        /\ Become(c, "joining")
     \/ /\ manager = "panicked"
        /\ Become(c, "ended")
        /\ UNCHANGED requests
  /\ UNCHANGED <<answer, initReply, unread, sent, manager, channels, channelVars>>

\* The peer is gone: the Ok frame, sent before the reply is awaited, a cached
\* packet or a packet of the ring cannot be written.
PlayerGone(c) ==
  /\ \/ conn[c] = "joining"
     \/ conn[c] = "waiting" /\ initReply[c] = "ready"
     \/ conn[c] = "playing" /\ unread[c] > 0
  /\ Become(c, "ended")
  /\ UNCHANGED <<app, answer, initReply, unread, sent, managerVars, channelVars>>

\* The player is refused with an Errors frame when the reply was dropped.
JoinAnswered(c) ==
  /\ conn[c] = "joining"
  /\ answer[c] # Pending
  /\ Become(c, IF answer[c] = Dropped THEN "draining" ELSE "requesting")
  /\ UNCHANGED <<app, answer, initReply, unread, sent, managerVars, channelVars>>

\* InitData to the channel; the connection ends when the channel is gone.
RequestInit(c) ==
  /\ conn[c] = "requesting"
  /\ \E d \in Conns :
       /\ answer[c] = Handle(d)
       /\ \/ /\ Alive(d)
             /\ Tell(d, InitDataMsg(c))
             /\ Become(c, "waiting")
          \/ /\ ~Alive(d)
             /\ Become(c, "ended")
             /\ UNCHANGED inbox
  /\ UNCHANGED <<app, answer, initReply, unread, sent, managerVars, chan, late,
                 socket, registered>>

\* The cached packets are copied, or skipped when the reply was dropped.
InitAnswered(c) ==
  /\ conn[c] = "waiting"
  /\ initReply[c] # "pending"
  /\ Become(c, "playing")
  /\ UNCHANGED <<app, answer, initReply, unread, sent, managerVars, channelVars>>

\* MUTANT of Receive: the ring is read without waiting for a packet.
ReceiveAtOnce(c) ==
  /\ conn[c] = "playing"
  /\ unread' = [unread EXCEPT ![c] = @ - 1]
  /\ UNCHANGED <<conn, app, answer, initReply, sent, managerVars, channelVars>>

\* The next packet of the ring goes to the socket.
Receive(c) ==
  /\ conn[c] = "playing"
  /\ unread[c] > 0
  /\ unread' = [unread EXCEPT ![c] = @ - 1]
  /\ UNCHANGED <<conn, app, answer, initReply, sent, managerVars, channelVars>>

\* A ring closes when its senders are gone: the channel task's and the map's.
RingClosed(d) == ~Alive(d) /\ \A n \in Names : channels[n] # d

Closed(c) ==
  /\ conn[c] = "playing"
  /\ unread[c] = 0
  /\ \E d \in Conns : answer[c] = Handle(d) /\ RingClosed(d)
  /\ Become(c, "draining")
  /\ UNCHANGED <<app, answer, initReply, unread, sent, managerVars, channelVars>>

\* After an Errors frame the connection waits for its peer to close.
PeerCloses(c) ==
  /\ conn[c] = "draining"
  /\ Become(c, "ended")
  /\ UNCHANGED <<app, answer, initReply, unread, sent, managerVars, channelVars>>

---------------------------------------------------------------------------
(***************************************************************************)
(* The manager handles one message at a time.                              *)
(***************************************************************************)
Take(type) ==
  /\ manager = "running"
  /\ requests # <<>>
  /\ Head(requests).type = type

\* Create: the entry of the name is replaced, the UDP socket is bound when
\* there is a register to talk to, and the channel task is spawned.
HandleCreate ==
  /\ Take("Create")
  /\ WithRegister => socket = None
  /\ LET c == Head(requests).by
     IN  /\ channels' = [channels EXCEPT ![Head(requests).name] = c]
         /\ socket' = IF WithRegister THEN c ELSE socket
         /\ chan' = [chan EXCEPT ![c] = "starting"]
         /\ answer' = [answer EXCEPT ![c] = Handle(c)]
  /\ requests' = Tail(requests)
  /\ UNCHANGED <<conn, app, initReply, unread, sent, manager, inbox, late,
                 registered>>

\* MUTANT of PanicInCreate: the replies owed to others are not dropped.
PanicInCreateOwingReplies ==
  /\ Take("Create")
  /\ WithRegister /\ (socket # None \/ "connect" \in Faults)
  /\ manager' = "panicked"
  /\ channels' = [n \in Names |-> None]
  /\ answer' = [answer EXCEPT ![Head(requests).by] = Dropped]
  /\ requests' = <<>>
  /\ UNCHANGED <<conn, app, initReply, unread, sent, channelVars>>

\* Every channel binds the same port: while one holds it, bind fails.  So does
\* connect when the register's address does not resolve.  Either unwrap
\* panics and the manager task is gone, with its map, its queue and the
\* replies it owes.
PanicInCreate ==
  /\ Take("Create")
  /\ WithRegister /\ (socket # None \/ "connect" \in Faults)
  /\ manager' = "panicked"
  /\ channels' = [n \in Names |-> None]
  /\ answer' = [c \in Conns |->
       IF \E i \in 1 .. Len(requests) :
            requests[i].type # "Release" /\ requests[i].by = c
       THEN Dropped ELSE answer[c]]
  /\ requests' = <<>>
  /\ UNCHANGED <<conn, app, initReply, unread, sent, channelVars>>

\* Join: the player gets a handle and a subscription, or its reply is dropped.
HandleJoin ==
  /\ Take("Join")
  /\ LET c == Head(requests).by
         d == channels[Head(requests).name]
     IN  answer' = [answer EXCEPT ![c] = IF d = None THEN Dropped ELSE Handle(d)]
  /\ requests' = Tail(requests)
  /\ UNCHANGED <<conn, app, initReply, unread, sent, manager, channels,
                 channelVars>>

\* Release removes the entry of a name, whoever made it.
HandleRelease ==
  /\ Take("Release")
  /\ channels' = [channels EXCEPT ![Head(requests).name] = None]
  /\ requests' = Tail(requests)
  /\ UNCHANGED <<connVars, manager, channelVars>>

---------------------------------------------------------------------------
(***************************************************************************)
(* A channel task.                                                         *)
(***************************************************************************)

\* The task begins: the name is registered.
ChannelStart(d) ==
  /\ chan[d] = "starting"
  /\ chan' = [chan EXCEPT ![d] = "running"]
  /\ registered' = IF WithRegister THEN registered \cup {app[d]} ELSE registered
  /\ UNCHANGED <<connVars, managerVars, inbox, late, socket>>

\* More than a second has passed since the last heartbeat.
SecondPasses(d) ==
  /\ chan[d] = "running"
  /\ ~late[d]
  /\ late' = [late EXCEPT ![d] = TRUE]
  /\ UNCHANGED <<connVars, managerVars, chan, inbox, socket, registered>>

\* The queue is dropped with the task, and so are the replies it owes.
DropInbox(d) ==
  /\ inbox' = [inbox EXCEPT ![d] = <<>>]
  /\ initReply' = [c \in Conns |->
       IF \E i \in 1 .. Len(inbox[d]) : inbox[d][i] = InitDataMsg(c)
       THEN "dropped" ELSE initReply[c]]

\* A packet goes to the ring; one that a player lags behind is lost to it.
Broadcast(d, message) ==
  unread' = [c \in Conns |->
    IF message.type = "Packet" /\ Subscribed(c, d) /\ unread[c] < Capacity
    THEN unread[c] + 1 ELSE unread[c]]

\* handle_message.
Effect(d, message) ==
  /\ initReply' = IF message.type = "InitData"
                  THEN [initReply EXCEPT ![message.by] = "ready"] ELSE initReply
  /\ Broadcast(d, message)
  /\ chan' = [chan EXCEPT ![d] =
       IF message.type = "Disconnect" THEN "closing" ELSE @]

\* A message is handled and, when a heartbeat is due, it is sent.
ChannelHandle(d) ==
  /\ chan[d] = "running"
  /\ inbox[d] # <<>>
  /\ late[d] => WithRegister
  /\ Effect(d, Head(inbox[d]))
  /\ inbox' = [inbox EXCEPT ![d] = Tail(@)]
  /\ registered' = IF late[d] THEN registered \cup {app[d]} ELSE registered
  /\ late' = [late EXCEPT ![d] = FALSE]
  /\ UNCHANGED <<conn, app, answer, sent, managerVars, socket>>

\* The task is gone after a message it has handled, which may have been a request
\* it replied to; the others of its queue are dropped.
DieHandling(d) ==
  /\ chan' = [chan EXCEPT ![d] = "dead"]
  /\ Broadcast(d, Head(inbox[d]))
  /\ inbox' = [inbox EXCEPT ![d] = <<>>]
  /\ initReply' = [c \in Conns |->
       IF Head(inbox[d]) = InitDataMsg(c) THEN "ready"
       ELSE IF \E i \in 1 .. Len(inbox[d]) : inbox[d][i] = InitDataMsg(c)
       THEN "dropped" ELSE initReply[c]]

\* MUTANT of PanicInHeartbeat: a heartbeat that fails ends the task.
PanicInEveryHeartbeat(d) ==
  /\ chan[d] = "running"
  /\ inbox[d] # <<>>
  /\ late[d]
  /\ DieHandling(d)
  /\ UNCHANGED <<conn, app, answer, sent, managerVars, late, socket, registered>>

\* A heartbeat is due after the message and there is no socket to send it on:
\* unwrap panics.
PanicInHeartbeat(d) ==
  /\ chan[d] = "running"
  /\ inbox[d] # <<>>
  /\ late[d] /\ ~WithRegister
  /\ DieHandling(d)
  /\ UNCHANGED <<conn, app, answer, sent, managerVars, late, socket, registered>>

\* MUTANT of ChannelExit: the name is not deleted from the register.
ChannelExitStillRegistered(d) ==
  /\ chan[d] = "closing"
  /\ chan' = [chan EXCEPT ![d] = "dead"]
  /\ DropInbox(d)
  /\ socket' = IF socket = d THEN None ELSE socket
  /\ UNCHANGED <<conn, app, answer, unread, sent, managerVars, late, registered>>

\* The task ends: the name is deleted from the register, the socket closed.
ChannelExit(d) ==
  /\ chan[d] = "closing"
  /\ chan' = [chan EXCEPT ![d] = "dead"]
  /\ DropInbox(d)
  /\ registered' = IF WithRegister THEN registered \ {app[d]} ELSE registered
  /\ socket' = IF socket = d THEN None ELSE socket
  /\ UNCHANGED <<conn, app, answer, unread, sent, managerVars, late>>

---------------------------------------------------------------------------
Manager == HandleCreate \/ PanicInCreate \/ HandleJoin \/ HandleRelease

Channel(d) ==
  ChannelStart(d) \/ ChannelHandle(d) \/ PanicInHeartbeat(d) \/ ChannelExit(d)

\* The steps of a connection that do not wait for its peer.
Connection(c) ==
  \/ CreateAnswered(c) \/ SendRelease(c)
  \/ JoinAnswered(c) \/ RequestInit(c) \/ InitAnswered(c) \/ Receive(c) \/ Closed(c)

\* What the peers of a connection and the clock may do.
Environment ==
  \/ \E c \in Conns, n \in Names : ConnectPublisher(c, n) \/ ConnectPlayer(c, n)
  \/ \E c \in Conns :
       PublishPacket(c) \/ PublisherGone(c) \/ PlayerGone(c) \/ PeerCloses(c)
  \/ \E d \in Conns : SecondPasses(d)

Next ==
  \/ Environment
  \/ Manager
  \/ \E c \in Conns : Connection(c) \/ Channel(c)

Spec == Init /\ [][Next]_vars

\* Tasks that can run are polled; peers need not do anything.
FairSpec ==
  /\ Spec
  /\ WF_vars(Manager)
  /\ \A c \in Conns : WF_vars(Connection(c)) /\ WF_vars(Channel(c))

---------------------------------------------------------------------------
(***************************************************************************)
(* Properties.                                                             *)
(***************************************************************************)

Queued(d, message) == \E i \in 1 .. Len(inbox[d]) : inbox[d][i] = message

\* A channel that runs has a publisher that can still end it, or has been told
\* to end: it is never left waiting on a queue nobody will write to.
NoOrphanChannel ==
  \A d \in Conns : chan[d] \in {"starting", "running"} =>
    conn[d] \in {"creating", "publishing"} \/ Queued(d, DisconnectMsg)

ReleaseOwed(d) ==
  \/ conn[d] = "releasing"
  \/ \E i \in 1 .. Len(requests) : requests[i] = ReleaseReq(d, app[d])

\* An entry of the map leads to a channel that lives, or it is about to go: no
\* name is lost for good to an entry whose channel is dead.
NoPoisonedEntry ==
  \A n \in Names, d \in Conns :
    channels[n] = d /\ chan[d] \in {"closing", "dead"} => ReleaseOwed(d)

\* The register holds exactly the names of the channels that run: as long as
\* no datagram is lost, channels come, go and succeed one another of the same
\* name without one's Delete undoing another's Set.
SnapshotExact ==
  registered = {app[d] : d \in {c \in Conns : chan[c] \in {"running", "closing"}}}

\* A publisher that has not left has a channel that takes its packets.
PublisherHeard ==
  \A c \in Conns : conn[c] = "publishing" => chan[c] \in {"starting", "running"}

\* Nobody who waits is forgotten: a Create or Join without a reply is in the queue of
\* a manager that runs, and an InitData without one in that of a channel that lives.
Asks(c) == \E i \in 1 .. Len(requests) : requests[i].type # "Release" /\ requests[i].by = c

NobodyForgotten ==
  \A c \in Conns :
    /\ conn[c] \in {"creating", "joining"} /\ answer[c] = Pending =>
         manager = "running" /\ Asks(c)
    /\ conn[c] = "waiting" /\ initReply[c] = "pending" =>
         \E d \in Conns : answer[c] = Handle(d) /\ Alive(d) /\ Queued(d, InitDataMsg(c))

\* The tasks of the node have done what they can: the next step is of a peer or of
\* the clock.
AtRest ==
  /\ manager = "running" => requests = <<>>
  /\ \A d \in Conns :
       chan[d] \in {"absent", "dead"} \/ (chan[d] = "running" /\ inbox[d] = <<>>)
  /\ \A c \in Conns :
       /\ conn[c] \notin {"releasing", "requesting"}
       /\ conn[c] \in {"creating", "joining"} => answer[c] = Pending
       /\ conn[c] = "waiting" => initReply[c] = "pending"
       /\ conn[c] = "playing" =>
            unread[c] = 0 /\ \A d \in Conns : answer[c] = Handle(d) => ~RingClosed(d)

\* Then nobody waits for it, and only publishers that are there have a channel; with a
\* register the map leads to those and to no other, and every player watches one.
RestIsClean ==
  AtRest =>
    /\ \A c \in Conns : conn[c] \in {"new", "publishing", "playing", "draining", "ended"}
    /\ \A d \in Conns : chan[d] = "running" => conn[d] = "publishing"
    /\ WithRegister =>
         /\ \A n \in Names, d \in Conns : channels[n] = d => conn[d] = "publishing"
         /\ \A c \in Conns : conn[c] = "playing" =>
              \E d \in Conns : answer[c] = Handle(d) /\ conn[d] = "publishing"

\* Every Create and Join is answered, were it by dropping the reply.
Answered ==
  \A c \in Conns : conn[c] \in {"creating", "joining"} ~>
                   conn[c] \notin {"creating", "joining"}

\* The channel of a publisher that has gone ends; and when a channel is dead its
\* players are told so, whatever the order in which its task ended, its entry was
\* released or replaced, and the players joined.
StreamEnds ==
  \A d \in Conns :
    conn[d] = "ended" \/ chan[d] = "dead" ~>
      /\ chan[d] \in {"absent", "dead"}
      /\ \A c \in Conns : ~(conn[c] = "playing" /\ answer[c] = Handle(d))

\* Every publisher that connects comes to be registered.
EveryPublisherRegistered ==
  \A c \in Conns : conn[c] = "creating" ~> app[c] \in registered
=============================================================================
