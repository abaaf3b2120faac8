-------------------------- MODULE OriginNodeProofs --------------------------
(***************************************************************************)
(* Theorems about OriginNode, for any connections, names and bounds.       *)
(***************************************************************************)
EXTENDS OriginNode, TLAPS, SequenceTheorems

(***************************************************************************)
(* The inductive invariant.                                                *)
(***************************************************************************)

\* Where a connection is, whether it has a channel, and of what name.
Phases ==
  \A c \in Conns :
    /\ IF conn[c] = "new" THEN answer[c] = Pending ELSE app[c] \in Names
    /\ chan[c] # "absent" =>
         /\ conn[c] \in {"creating", "publishing", "releasing", "ended"}
         /\ answer[c] = Handle(c)
    /\ conn[c] \in {"publishing", "releasing"} => chan[c] # "absent"
    /\ conn[c] = "creating" => answer[c] \in {Pending, Dropped} \/ chan[c] # "absent"

\* What is in the manager's queue: a connection has one Create or Join there
\* at most, unanswered, and a Release only after its end.
Fits(r) ==
  /\ r.name = app[r.by]
  /\ r.type = "Create" => conn[r.by] = "creating"
  /\ r.type = "Join" => conn[r.by] \in {"joining", "ended"}
  /\ r.type # "Release" => chan[r.by] = "absent" /\ answer[r.by] = Pending
  /\ r.type = "Release" => conn[r.by] = "ended"

Asked ==
  /\ \A i \in 1 .. Len(requests) : Fits(requests[i])
  /\ \A i, j \in 1 .. Len(requests) :
       i < j /\ requests[i].type # "Release" /\ requests[j].type # "Release"
       => requests[i].by # requests[j].by

\* The map leads from a name to a channel of that name, and dies with the
\* manager.
Mapped ==
  /\ \A n \in Names, d \in Conns :
       channels[n] = d => n = app[d] /\ chan[d] # "absent"
  /\ manager = "panicked" =>
       requests = <<>> /\ \A n \in Names : channels[n] = None

\* Only a publisher that leaves ends its channel (with a register).
EndedByPublisher ==
  \A d \in Conns :
    chan[d] \in {"closing", "dead"} \/ Queued(d, DisconnectMsg)
    => conn[d] \in {"releasing", "ended"}

\* An entry of the map goes when its publisher does.
EntryOwed ==
  \A n \in Names, d \in Conns :
    channels[n] = d => conn[d] \in {"creating", "publishing"} \/ ReleaseOwed(d)

\* The socket is held by the one channel whose task is there.
SocketHeld ==
  \A d \in Conns : socket = d <=> Alive(d)

(***************************************************************************)
(* Type correctness.                                                       *)
(***************************************************************************)

\* Sending a message to a channel keeps the types of the queues.
LEMMA TellType ==
  ASSUME inbox \in [Conns -> Seq(Message)], NEW d \in Conns, NEW m \in Message,
         Tell(d, m)
  PROVE  inbox' \in [Conns -> Seq(Message)]
<1>1. Append(inbox[d], m) \in Seq(Message)
  OBVIOUS
<1> QED
  BY <1>1 DEF Tell

\* So does sending a request to the manager.
LEMMA AskType ==
  ASSUME requests \in Seq(Request), NEW r \in Request, Ask(r)
  PROVE  requests' \in Seq(Request)
<1>1. Append(requests, r) \in Seq(Request)
  OBVIOUS
<1> QED
  BY <1>1 DEF Ask

\* What the manager takes, and what it leaves.
LEMMA HeadRequest ==
  ASSUME requests \in Seq(Request), requests # <<>>
  PROVE  /\ Head(requests).by \in Conns /\ Head(requests).name \in Names
         /\ Tail(requests) \in Seq(Request)
<1>1. Head(requests) \in Request /\ Tail(requests) \in Seq(Request)
  OBVIOUS
<1> QED
  BY <1>1 DEF Request

\* What a channel takes, and what it leaves.
LEMMA HeadMessage ==
  ASSUME inbox \in [Conns -> Seq(Message)], NEW d \in Conns, inbox[d] # <<>>
  PROVE  Head(inbox[d]) \in Message /\ Tail(inbox[d]) \in Seq(Message)
<1>1. inbox[d] \in Seq(Message)
  OBVIOUS
<1> QED
  BY <1>1

\* Dropping a queue keeps the types.
LEMMA DropType ==
  ASSUME TypeOK, NEW d \in Conns, DropInbox(d)
  PROVE  /\ inbox' \in [Conns -> Seq(Message)]
         /\ initReply' \in [Conns -> {"pending", "dropped", "ready"}]
<1>1. <<>> \in Seq(Message)
  OBVIOUS
<1>2. inbox' = [inbox EXCEPT ![d] = <<>>] /\ inbox \in [Conns -> Seq(Message)]
  BY DEF DropInbox, TypeOK
<1>3. inbox' \in [Conns -> Seq(Message)]
  BY <1>1, <1>2
<1> QED
  BY <1>3 DEF DropInbox, TypeOK

\* The ring takes a packet for a player only while it has room.
LEMMA BroadcastType ==
  ASSUME TypeOK, NEW d \in Conns, NEW m, Broadcast(d, m)
  PROVE  unread' \in [Conns -> 0 .. Capacity]
BY BoundsAssumption DEF Broadcast, TypeOK

\* Every step keeps the types.
LEMMA TypeStep ==
  ASSUME TypeOK, Phases, [Next]_vars
  PROVE  TypeOK'
<1> USE DEF connVars, managerVars, channelVars, Become, Take
<1>1. ASSUME NEW c \in Conns, NEW n \in Names, ConnectPublisher(c, n) PROVE TypeOK'
  <2>1. CreateReq(c, n) \in Request
    BY DEF CreateReq, Request
  <2>2. requests' \in Seq(Request)
    BY <1>1, <2>1, AskType DEF ConnectPublisher, TypeOK
  <2> QED
    BY <1>1, <2>2 DEF ConnectPublisher, TypeOK, ConnState
<1>2. ASSUME NEW c \in Conns, NEW n \in Names, ConnectPlayer(c, n) PROVE TypeOK'
  <2>1. JoinReq(c, n) \in Request
    BY DEF JoinReq, Request
  <2>2. requests' \in Seq(Request)
    BY <1>2, <2>1, AskType DEF ConnectPlayer, TypeOK
  <2> QED
    BY <1>2, <2>2 DEF ConnectPlayer, TypeOK, ConnState
<1>3. ASSUME NEW c \in Conns, CreateAnswered(c) PROVE TypeOK'
  BY BoundsAssumption, <1>3 DEF CreateAnswered, TypeOK, ConnState, ChanState
<1>4. ASSUME NEW c \in Conns, PublishPacket(c) PROVE TypeOK'
  <2>1. PacketMsg \in Message
    BY DEF PacketMsg, Message
  <2>2. inbox' \in [Conns -> Seq(Message)]
    BY <1>4, <2>1, TellType DEF PublishPacket, TypeOK
  <2>3. sent' \in [Conns -> 0 .. MaxPackets]
    BY <1>4, BoundsAssumption DEF PublishPacket, TypeOK
  <2>4. conn' \in [Conns -> ConnState]
    BY <1>4 DEF PublishPacket, TypeOK, ConnState
  <2> QED
    BY <1>4, <2>2, <2>3, <2>4 DEF PublishPacket, TypeOK
<1>5. ASSUME NEW c \in Conns, PublisherGone(c) PROVE TypeOK'
  <2>1. DisconnectMsg \in Message
    BY DEF DisconnectMsg, Message
  <2>2. inbox' \in [Conns -> Seq(Message)]
    BY <1>5, <2>1, TellType DEF PublisherGone, TypeOK
  <2> QED
    BY <1>5, <2>2, BoundsAssumption DEF PublisherGone, TypeOK, ConnState
<1>6. ASSUME NEW c \in Conns, SendRelease(c) PROVE TypeOK'
  <2>1. ReleaseReq(c, app[c]) \in Request
    BY <1>6 DEF SendRelease, ReleaseReq, Request, TypeOK, Phases
  <2>2. requests' \in Seq(Request)
    BY <1>6, <2>1, AskType DEF SendRelease, TypeOK
  <2> QED
    BY <1>6, <2>2 DEF SendRelease, TypeOK, ConnState
<1>7. ASSUME NEW c \in Conns, PlayerGone(c) PROVE TypeOK'
  BY BoundsAssumption, <1>7 DEF PlayerGone, TypeOK, ConnState, ChanState
<1>8. ASSUME NEW c \in Conns, JoinAnswered(c) PROVE TypeOK'
  BY BoundsAssumption, <1>8 DEF JoinAnswered, TypeOK, ConnState, ChanState
<1>9. ASSUME NEW c \in Conns, RequestInit(c) PROVE TypeOK'
  <2>1. InitDataMsg(c) \in Message
    BY DEF InitDataMsg, Message
  <2>2. inbox' \in [Conns -> Seq(Message)]
    BY <1>9, <2>1, TellType DEF RequestInit, TypeOK
  <2>3. conn' \in [Conns -> ConnState]
    BY <1>9 DEF RequestInit, TypeOK, ConnState
  <2> QED
    BY <1>9, <2>2, <2>3 DEF RequestInit, TypeOK
<1>10. ASSUME NEW c \in Conns, InitAnswered(c) PROVE TypeOK'
  BY BoundsAssumption, <1>10 DEF InitAnswered, TypeOK, ConnState, ChanState
<1>11. ASSUME NEW c \in Conns, Receive(c) PROVE TypeOK'
  BY BoundsAssumption, <1>11 DEF Receive, TypeOK, ConnState, ChanState
<1>12. ASSUME NEW c \in Conns, Closed(c) PROVE TypeOK'
  BY BoundsAssumption, <1>12 DEF Closed, TypeOK, ConnState, ChanState
<1>13. ASSUME NEW c \in Conns, PeerCloses(c) PROVE TypeOK'
  BY BoundsAssumption, <1>13 DEF PeerCloses, TypeOK, ConnState, ChanState
<1>14. ASSUME NEW c \in Conns, ChannelStart(c) PROVE TypeOK'
  <2>1. app[c] \in Names
    BY <1>14 DEF ChannelStart, Phases
  <2> QED
    BY <1>14, <2>1 DEF ChannelStart, TypeOK, ChanState
<1>15. ASSUME NEW c \in Conns, SecondPasses(c) PROVE TypeOK'
  BY BoundsAssumption, <1>15 DEF SecondPasses, TypeOK, ConnState, ChanState
<1>16. ASSUME NEW c \in Conns, ChannelHandle(c) PROVE TypeOK'
  <2>1. Head(inbox[c]) \in Message /\ Tail(inbox[c]) \in Seq(Message)
    BY <1>16, HeadMessage DEF ChannelHandle, TypeOK
  <2>2. inbox' \in [Conns -> Seq(Message)]
    BY <1>16, <2>1 DEF ChannelHandle, TypeOK
  <2>3. initReply' \in [Conns -> {"pending", "dropped", "ready"}]
    BY <1>16 DEF ChannelHandle, Effect, TypeOK
  <2>4. unread' \in [Conns -> 0 .. Capacity]
    BY <1>16, BroadcastType DEF ChannelHandle, Effect
  <2>5. chan' \in [Conns -> ChanState]
    BY <1>16 DEF ChannelHandle, Effect, TypeOK, ChanState
  <2>6. app[c] \in Names
    BY <1>16 DEF ChannelHandle, Phases
  <2> QED
    BY <1>16, <2>2, <2>3, <2>4, <2>5, <2>6 DEF ChannelHandle, TypeOK
<1>17. ASSUME NEW c \in Conns, PanicInHeartbeat(c) PROVE TypeOK'
  <2>1. inbox' \in [Conns -> Seq(Message)]
    <3>1. <<>> \in Seq(Message)
      OBVIOUS
    <3> QED
      BY <1>17, <3>1 DEF PanicInHeartbeat, DieHandling, TypeOK
  <2>2. initReply' \in [Conns -> {"pending", "dropped", "ready"}]
    BY <1>17 DEF PanicInHeartbeat, DieHandling, TypeOK
  <2>3. unread' \in [Conns -> 0 .. Capacity]
    BY <1>17, BroadcastType DEF PanicInHeartbeat, DieHandling
  <2>4. chan' \in [Conns -> ChanState]
    BY <1>17 DEF PanicInHeartbeat, DieHandling, TypeOK, ChanState
  <2> QED
    BY <1>17, <2>1, <2>2, <2>3, <2>4 DEF PanicInHeartbeat, TypeOK
<1>18. ASSUME NEW c \in Conns, ChannelExit(c) PROVE TypeOK'
  <2>1. /\ inbox' \in [Conns -> Seq(Message)]
        /\ initReply' \in [Conns -> {"pending", "dropped", "ready"}]
    BY <1>18, DropType DEF ChannelExit
  <2> QED
    BY <1>18, <2>1 DEF ChannelExit, TypeOK, ChanState
<1>19. CASE HandleCreate
  <2>1. /\ Head(requests).by \in Conns /\ Head(requests).name \in Names
        /\ requests' \in Seq(Request)
    BY <1>19, HeadRequest DEF HandleCreate, TypeOK
  <2>2. answer' \in [Conns -> Reply]
    BY <1>19, <2>1 DEF HandleCreate, TypeOK, Handle, Reply
  <2> QED
    BY <1>19, <2>1, <2>2 DEF HandleCreate, TypeOK, ChanState
<1>20. CASE PanicInCreate
  <2>1. answer' \in [Conns -> Reply]
    BY <1>20 DEF PanicInCreate, TypeOK, Dropped, Reply
  <2>2. requests' \in Seq(Request)
    BY <1>20 DEF PanicInCreate
  <2>3. channels' \in [Names -> Conns \cup {None}]
    BY <1>20 DEF PanicInCreate
  <2> QED
    BY <1>20, <2>1, <2>2, <2>3 DEF PanicInCreate, TypeOK
<1>21. CASE HandleJoin
  <2>1. /\ Head(requests).by \in Conns /\ Head(requests).name \in Names
        /\ requests' \in Seq(Request)
    BY <1>21, HeadRequest DEF HandleJoin, TypeOK
  <2>2. channels[Head(requests).name] \in Conns \cup {None}
    BY <2>1 DEF TypeOK
  <2>3. answer' \in [Conns -> Reply]
    BY <1>21, <2>1, <2>2 DEF HandleJoin, TypeOK, Handle, Dropped, Reply
  <2> QED
    BY <1>21, <2>1, <2>3 DEF HandleJoin, TypeOK
<1>22. CASE HandleRelease
  <2>1. Head(requests).name \in Names /\ requests' \in Seq(Request)
    BY <1>22, HeadRequest DEF HandleRelease, TypeOK
  <2> QED
    BY <1>22, <2>1 DEF HandleRelease, TypeOK
<1>23. CASE UNCHANGED vars
  BY <1>23 DEF vars, TypeOK
<1> QED
  BY <1>1, <1>2, <1>3, <1>4, <1>5, <1>6, <1>7, <1>8, <1>9, <1>10, <1>11,
     <1>12, <1>13, <1>14, <1>15, <1>16, <1>17, <1>18, <1>19, <1>20, <1>21,
     <1>22, <1>23
     DEF Next, Environment, Manager, Connection, Channel

\* Connections and channels stay in step.
LEMMA PhasesStep ==
  ASSUME TypeOK, Phases, Asked, [Next]_vars
  PROVE  Phases'
<1> USE DEF connVars, managerVars, channelVars, Become, Take, Phases, Handle, Pending, Dropped
<1>0. /\ conn \in [Conns -> ConnState] /\ app \in [Conns -> Names \cup {None}]
      /\ answer \in [Conns -> Reply] /\ chan \in [Conns -> ChanState]
      /\ requests \in Seq(Request) /\ inbox \in [Conns -> Seq(Message)]
      /\ channels \in [Names -> Conns \cup {None}]
  BY DEF TypeOK
<1>1. ASSUME NEW c \in Conns, NEW n \in Names, ConnectPublisher(c, n) PROVE Phases'
  BY <1>0, <1>1 DEF ConnectPublisher
<1>2. ASSUME NEW c \in Conns, NEW n \in Names, ConnectPlayer(c, n) PROVE Phases'
  BY <1>0, <1>2 DEF ConnectPlayer
<1>3. ASSUME NEW c \in Conns, CreateAnswered(c) PROVE Phases'
  BY <1>0, <1>3 DEF CreateAnswered
<1>4. ASSUME NEW c \in Conns, PublishPacket(c) PROVE Phases'
  BY <1>0, <1>4 DEF PublishPacket
<1>5. ASSUME NEW c \in Conns, PublisherGone(c) PROVE Phases'
  BY <1>0, <1>5 DEF PublisherGone
<1>6. ASSUME NEW c \in Conns, SendRelease(c) PROVE Phases'
  BY <1>0, <1>6 DEF SendRelease
<1>7. ASSUME NEW c \in Conns, PlayerGone(c) PROVE Phases'
  BY <1>0, <1>7 DEF PlayerGone
<1>8. ASSUME NEW c \in Conns, JoinAnswered(c) PROVE Phases'
  BY <1>0, <1>8 DEF JoinAnswered
<1>9. ASSUME NEW c \in Conns, RequestInit(c) PROVE Phases'
  BY <1>0, <1>9 DEF RequestInit
<1>10. ASSUME NEW c \in Conns, InitAnswered(c) PROVE Phases'
  BY <1>0, <1>10 DEF InitAnswered
<1>11. ASSUME NEW c \in Conns, Receive(c) PROVE Phases'
  BY <1>0, <1>11 DEF Receive
<1>12. ASSUME NEW c \in Conns, Closed(c) PROVE Phases'
  BY <1>0, <1>12 DEF Closed
<1>13. ASSUME NEW c \in Conns, PeerCloses(c) PROVE Phases'
  BY <1>0, <1>13 DEF PeerCloses
<1>14. ASSUME NEW c \in Conns, ChannelStart(c) PROVE Phases'
  BY <1>0, <1>14 DEF ChannelStart
<1>15. ASSUME NEW c \in Conns, SecondPasses(c) PROVE Phases'
  BY <1>0, <1>15 DEF SecondPasses
<1>16. ASSUME NEW c \in Conns, ChannelHandle(c) PROVE Phases'
  BY <1>0, <1>16 DEF ChannelHandle, Effect
<1>17. ASSUME NEW c \in Conns, PanicInHeartbeat(c) PROVE Phases'
  BY <1>0, <1>17 DEF PanicInHeartbeat, DieHandling
<1>18. ASSUME NEW c \in Conns, ChannelExit(c) PROVE Phases'
  BY <1>0, <1>18 DEF ChannelExit
<1>19. CASE HandleCreate
  <2> DEFINE b == Head(requests).by
  <2>1. /\ Head(requests) = requests[1] /\ 1 \in 1 .. Len(requests)
        /\ b \in Conns /\ Head(requests).name \in Names
    BY <1>0, <1>19, HeadRequest DEF HandleCreate
  <2>2. /\ conn[b] = "creating" /\ Head(requests).name = app[b]
        /\ chan[b] = "absent" /\ answer[b] = Pending
    BY <1>19, <2>1 DEF HandleCreate, Asked, Fits
  <2>3. /\ conn' = conn /\ app' = app /\ inbox' = inbox /\ manager' = manager
        /\ chan' = [chan EXCEPT ![b] = "starting"]
        /\ answer' = [answer EXCEPT ![b] = Handle(b)]
        /\ channels' = [channels EXCEPT ![app[b]] = b]
        /\ requests' = Tail(requests)
    BY <1>19, <2>2 DEF HandleCreate
  <2> HIDE DEF b
  <2> QED
    BY <1>0, <2>1, <2>2, <2>3
<1>20. CASE PanicInCreate
  <2>1. \A c \in Conns : \/ answer'[c] = answer[c]
                          \/ /\ answer'[c] = Dropped /\ chan[c] = "absent"
                             /\ conn[c] \in {"creating", "joining", "ended"}
    <3> SUFFICES ASSUME NEW c \in Conns, answer'[c] # answer[c]
                 PROVE  /\ answer'[c] = Dropped /\ chan[c] = "absent"
                        /\ conn[c] \in {"creating", "joining", "ended"}
      OBVIOUS
    <3>1. PICK i \in 1 .. Len(requests) :
            requests[i].type # "Release" /\ requests[i].by = c
      BY <1>20 DEF PanicInCreate
    <3>2. requests[i].type \in {"Create", "Join", "Release"}
      <4>1. requests[i] \in Request
        BY <1>0
      <4> QED
        BY <4>1 DEF Request
    <3>3. /\ requests[i].type = "Create" => conn[c] = "creating"
          /\ requests[i].type = "Join" => conn[c] \in {"joining", "ended"}
          /\ chan[c] = "absent"
      BY <3>1 DEF Asked, Fits
    <3>4. answer'[c] = Dropped
      BY <1>20, <3>1 DEF PanicInCreate
    <3> QED
      BY <3>1, <3>2, <3>3, <3>4
  <2>2. /\ conn' = conn /\ app' = app /\ chan' = chan /\ inbox' = inbox
        /\ requests' = <<>> /\ manager' = "panicked"
        /\ \A n \in Names : channels'[n] = None
    BY <1>20 DEF PanicInCreate
  <2> QED
    BY <1>0, <2>1, <2>2
<1>21. CASE HandleJoin
  <2> DEFINE b == Head(requests).by
  <2>1. /\ Head(requests) = requests[1] /\ 1 \in 1 .. Len(requests)
        /\ b \in Conns /\ Head(requests).name \in Names
    BY <1>0, <1>21, HeadRequest DEF HandleJoin
  <2>2. conn[b] \in {"joining", "ended"} /\ chan[b] = "absent"
    BY <1>21, <2>1 DEF HandleJoin, Asked, Fits
  <2>3. /\ conn' = conn /\ app' = app /\ chan' = chan /\ inbox' = inbox
        /\ channels' = channels /\ manager' = manager
        /\ \A c \in Conns : c # b => answer'[c] = answer[c]
        /\ requests' = Tail(requests)
    BY <1>0, <1>21 DEF HandleJoin
  <2> HIDE DEF b
  <2> QED
    BY <1>0, <2>1, <2>2, <2>3
<1>22. CASE HandleRelease
  BY <1>0, <1>22 DEF HandleRelease
<1>23. CASE UNCHANGED vars
  BY <1>23 DEF vars
<1> QED
  BY <1>1, <1>2, <1>3, <1>4, <1>5, <1>6, <1>7, <1>8, <1>9, <1>10, <1>11,
     <1>12, <1>13, <1>14, <1>15, <1>16, <1>17, <1>18, <1>19, <1>20, <1>21,
     <1>22, <1>23
     DEF Next, Environment, Manager, Connection, Channel

\* Requests are from connections and of three types.
LEMMA RequestFields ==
  ASSUME requests \in Seq(Request), NEW i \in 1 .. Len(requests)
  PROVE  /\ requests[i].by \in Conns
         /\ requests[i].type \in {"Create", "Join", "Release"}
<1>1. requests[i] \in Request
  OBVIOUS
<1> QED
  BY <1>1 DEF Request

\* The queue stays orderly when what is in it still fits ...
LEMMA AskedKept ==
  ASSUME Asked, requests \in Seq(Request), requests' = requests,
         \A i \in 1 .. Len(requests), r \in Request :
           r = requests[i] /\ Fits(r) => Fits(r)'
  PROVE  Asked'
<1>1. \A i \in 1 .. Len(requests) : Fits(requests[i])'
  <2> SUFFICES ASSUME NEW i \in 1 .. Len(requests), NEW r \in Request,
                      r = requests[i], requests'[i] = r
               PROVE  Fits(r)'
    OBVIOUS
  <2> QED
    BY DEF Asked
<1> QED
  BY <1>1 DEF Asked

\* ... when a request that fits is appended, the first of its connection ...
LEMMA AskedAppend ==
  ASSUME Asked, requests \in Seq(Request), NEW r \in Request,
         requests' = Append(requests, r),
         \A i \in 1 .. Len(requests), p \in Request :
           p = requests[i] /\ Fits(p) => Fits(p)',
         Fits(r)',
         r.type # "Release" =>
           \A i \in 1 .. Len(requests) :
             requests[i].type # "Release" => requests[i].by # r.by
  PROVE  Asked'
<1>1. /\ Len(requests') = Len(requests) + 1 /\ Len(requests) \in Nat
      /\ \A i \in 1 .. Len(requests) : requests'[i] = requests[i]
      /\ requests'[Len(requests) + 1] = r
  OBVIOUS
<1>2. \A i \in 1 .. Len(requests') : Fits(requests[i])'
  <2> SUFFICES ASSUME NEW i \in 1 .. Len(requests'), NEW p \in Request, requests'[i] = p
               PROVE  Fits(p)'
    OBVIOUS
  <2>1. CASE i \in 1 .. Len(requests)
    BY <1>1, <2>1 DEF Asked
  <2>2. CASE i = Len(requests) + 1
    BY <1>1, <2>2
  <2> QED
    BY <1>1, <2>1, <2>2
<1>3. \A i, j \in 1 .. Len(requests') :
        i < j /\ requests'[i].type # "Release" /\ requests'[j].type # "Release"
        => requests'[i].by # requests'[j].by
  BY <1>1 DEF Asked
<1> QED
  BY <1>2, <1>3 DEF Asked

\* ... and when its head is taken.
LEMMA AskedTail ==
  ASSUME Asked, requests \in Seq(Request), requests # <<>>,
         requests' = Tail(requests),
         \A i \in 2 .. Len(requests), p \in Request :
           /\ p = requests[i] /\ Fits(p)
           /\ Head(requests).type = "Release" \/ p.type = "Release"
              \/ p.by # Head(requests).by
           => Fits(p)'
  PROVE  Asked'
<1>1. /\ Len(requests') = Len(requests) - 1 /\ Len(requests) \in Nat \ {0}
      /\ \A i \in 1 .. Len(requests') : requests'[i] = requests[i + 1]
      /\ Head(requests) = requests[1]
  OBVIOUS
<1>2. \A i \in 2 .. Len(requests) :
        Head(requests).type # "Release" /\ requests[i].type # "Release"
        => requests[i].by # Head(requests).by
  BY <1>1 DEF Asked
<1>3. \A i \in 1 .. Len(requests') : Fits(requests[i])'
  <2> SUFFICES ASSUME NEW i \in 1 .. Len(requests'), NEW p \in Request, requests'[i] = p
               PROVE  Fits(p)'
    BY <1>1
  <2>1. i + 1 \in 2 .. Len(requests) /\ p = requests[i + 1]
    BY <1>1
  <2>2. Fits(p)
    BY <1>1, <2>1 DEF Asked
  <2> QED
    BY <1>2, <2>1, <2>2
<1>4. \A i, j \in 1 .. Len(requests') :
        i < j /\ requests'[i].type # "Release" /\ requests'[j].type # "Release"
        => requests'[i].by # requests'[j].by
  BY <1>1 DEF Asked
<1> QED
  BY <1>3, <1>4 DEF Asked

\* Every step keeps it so.
LEMMA AskedStep ==
  ASSUME TypeOK, Phases, Asked, [Next]_vars
  PROVE  Asked'
<1> USE DEF connVars, managerVars, channelVars, Become, Take, Ask, CreateReq, JoinReq, ReleaseReq, Handle, Pending, Dropped
<1>0. /\ conn \in [Conns -> ConnState] /\ app \in [Conns -> Names \cup {None}]
      /\ answer \in [Conns -> Reply] /\ chan \in [Conns -> ChanState]
      /\ requests \in Seq(Request) /\ inbox \in [Conns -> Seq(Message)]
      /\ channels \in [Names -> Conns \cup {None}]
  BY DEF TypeOK
<1>1. ASSUME NEW c \in Conns, NEW n \in Names, ConnectPublisher(c, n) PROVE Asked'
  <2>1. \A p \in Request : Fits(p) => p.by # c
    BY <1>1 DEF ConnectPublisher, Fits, Phases, Request
  <2>2. /\ answer' = answer /\ chan' = chan /\ app'[c] = n
        /\ \A b \in Conns : b # c => conn'[b] = conn[b] /\ app'[b] = app[b]
        /\ manager = "running" => conn'[c] = "creating"
        /\ chan[c] = "absent" /\ answer[c] = Pending
    BY <1>0, <1>1 DEF ConnectPublisher, Phases
  <2>3. \A p \in Request : Fits(p) => Fits(p)'
    BY <2>2, <2>1 DEF Fits, Request
  <2>4. CASE requests' = requests
    BY <1>0, <2>3, <2>4, AskedKept
  <2>5. CASE manager = "running" /\ requests' = Append(requests, CreateReq(c, n))
    <3>1. CreateReq(c, n) \in Request
      BY DEF Request
    <3>2. Fits(CreateReq(c, n))'
      BY <2>2, <2>5 DEF Fits
    <3>3. \A i \in 1 .. Len(requests) : requests[i].by # c
      BY <1>0, <2>1 DEF Asked
    <3>4. CreateReq(c, n).by = c
      OBVIOUS
    <3> QED
      BY <1>0, <2>3, <2>5, <3>1, <3>2, <3>3, <3>4, AskedAppend
  <2> QED
    BY <1>1, <2>2, <2>4, <2>5 DEF ConnectPublisher
<1>2. ASSUME NEW c \in Conns, NEW n \in Names, ConnectPlayer(c, n) PROVE Asked'
  <2>1. \A p \in Request : Fits(p) => p.by # c
    BY <1>2 DEF ConnectPlayer, Fits, Phases, Request
  <2>2. /\ answer' = answer /\ chan' = chan /\ app'[c] = n
        /\ \A b \in Conns : b # c => conn'[b] = conn[b] /\ app'[b] = app[b]
        /\ manager = "running" => conn'[c] = "joining"
        /\ chan[c] = "absent" /\ answer[c] = Pending
    BY <1>0, <1>2 DEF ConnectPlayer, Phases
  <2>3. \A p \in Request : Fits(p) => Fits(p)'
    BY <2>2, <2>1 DEF Fits, Request
  <2>4. CASE requests' = requests
    BY <1>0, <2>3, <2>4, AskedKept
  <2>5. CASE manager = "running" /\ requests' = Append(requests, JoinReq(c, n))
    <3>1. JoinReq(c, n) \in Request
      BY DEF Request
    <3>2. Fits(JoinReq(c, n))'
      BY <2>2, <2>5 DEF Fits
    <3>3. \A i \in 1 .. Len(requests) : requests[i].by # c
      BY <1>0, <2>1 DEF Asked
    <3>4. JoinReq(c, n).by = c
      OBVIOUS
    <3> QED
      BY <1>0, <2>3, <2>5, <3>1, <3>2, <3>3, <3>4, AskedAppend
  <2> QED
    BY <1>2, <2>2, <2>4, <2>5 DEF ConnectPlayer
<1>3. ASSUME NEW c \in Conns, CreateAnswered(c) PROVE Asked'
  <2>1. \A p \in Request : Fits(p) => Fits(p)'
    BY <1>0, <1>3 DEF CreateAnswered, Fits, Phases, Request
  <2> QED
    BY <1>0, <1>3, <2>1, AskedKept DEF CreateAnswered
<1>4. ASSUME NEW c \in Conns, PublishPacket(c) PROVE Asked'
  <2>1. \A p \in Request : Fits(p) => Fits(p)'
    BY <1>0, <1>4 DEF PublishPacket, Fits, Phases, Request
  <2> QED
    BY <1>0, <1>4, <2>1, AskedKept DEF PublishPacket
<1>5. ASSUME NEW c \in Conns, PublisherGone(c) PROVE Asked'
  <2>1. \A p \in Request : Fits(p) => Fits(p)'
    BY <1>0, <1>5 DEF PublisherGone, Fits, Phases, Request
  <2> QED
    BY <1>0, <1>5, <2>1, AskedKept DEF PublisherGone
<1>6. ASSUME NEW c \in Conns, SendRelease(c) PROVE Asked'
  <2>1. \A p \in Request : Fits(p) => p.by # c
    BY <1>6 DEF SendRelease, Fits, Phases, Request
  <2> PICK m \in Names : m = app'[c]
    BY <1>0, <1>6 DEF SendRelease, Phases
  <2>2. /\ answer' = answer /\ chan' = chan /\ app'[c] = m
        /\ \A b \in Conns : b # c => conn'[b] = conn[b] /\ app'[b] = app[b]
        /\ manager = "running" => conn'[c] = "ended"
    BY <1>0, <1>6 DEF SendRelease, Phases
  <2>3. \A p \in Request : Fits(p) => Fits(p)'
    BY <2>2, <2>1 DEF Fits, Request
  <2>4. CASE requests' = requests
    BY <1>0, <2>3, <2>4, AskedKept
  <2>5. CASE manager = "running" /\ requests' = Append(requests, ReleaseReq(c, m))
    <3>1. ReleaseReq(c, m) \in Request
      BY DEF Request
    <3>2. Fits(ReleaseReq(c, m))'
      BY <2>2, <2>5 DEF Fits
    <3>3. \A i \in 1 .. Len(requests) : requests[i].by # c
      BY <1>0, <2>1 DEF Asked
    <3>4. ReleaseReq(c, m).by = c
      OBVIOUS
    <3> QED
      BY <1>0, <2>3, <2>5, <3>1, <3>2, <3>3, <3>4, AskedAppend
  <2> QED
    BY <1>6, <2>2, <2>4, <2>5 DEF SendRelease
<1>7. ASSUME NEW c \in Conns, PlayerGone(c) PROVE Asked'
  <2>1. \A p \in Request : Fits(p) => Fits(p)'
    BY <1>0, <1>7 DEF PlayerGone, Fits, Phases, Request
  <2> QED
    BY <1>0, <1>7, <2>1, AskedKept DEF PlayerGone
<1>8. ASSUME NEW c \in Conns, JoinAnswered(c) PROVE Asked'
  <2>1. \A p \in Request : Fits(p) => Fits(p)'
    BY <1>0, <1>8 DEF JoinAnswered, Fits, Phases, Request
  <2> QED
    BY <1>0, <1>8, <2>1, AskedKept DEF JoinAnswered
<1>9. ASSUME NEW c \in Conns, RequestInit(c) PROVE Asked'
  <2>1. \A p \in Request : Fits(p) => Fits(p)'
    BY <1>0, <1>9 DEF RequestInit, Fits, Phases, Request
  <2> QED
    BY <1>0, <1>9, <2>1, AskedKept DEF RequestInit
<1>10. ASSUME NEW c \in Conns, InitAnswered(c) PROVE Asked'
  <2>1. \A p \in Request : Fits(p) => Fits(p)'
    BY <1>0, <1>10 DEF InitAnswered, Fits, Phases, Request
  <2> QED
    BY <1>0, <1>10, <2>1, AskedKept DEF InitAnswered
<1>11. ASSUME NEW c \in Conns, Receive(c) PROVE Asked'
  <2>1. \A p \in Request : Fits(p) => Fits(p)'
    BY <1>0, <1>11 DEF Receive, Fits, Phases, Request
  <2> QED
    BY <1>0, <1>11, <2>1, AskedKept DEF Receive
<1>12. ASSUME NEW c \in Conns, Closed(c) PROVE Asked'
  <2>1. \A p \in Request : Fits(p) => Fits(p)'
    BY <1>0, <1>12 DEF Closed, Fits, Phases, Request
  <2> QED
    BY <1>0, <1>12, <2>1, AskedKept DEF Closed
<1>13. ASSUME NEW c \in Conns, PeerCloses(c) PROVE Asked'
  <2>1. \A p \in Request : Fits(p) => Fits(p)'
    BY <1>0, <1>13 DEF PeerCloses, Fits, Phases, Request
  <2> QED
    BY <1>0, <1>13, <2>1, AskedKept DEF PeerCloses
<1>14. ASSUME NEW c \in Conns, ChannelStart(c) PROVE Asked'
  <2>1. \A p \in Request : Fits(p) => Fits(p)'
    BY <1>0, <1>14 DEF ChannelStart, Fits, Phases, Request
  <2> QED
    BY <1>0, <1>14, <2>1, AskedKept DEF ChannelStart
<1>15. ASSUME NEW c \in Conns, SecondPasses(c) PROVE Asked'
  <2>1. \A p \in Request : Fits(p) => Fits(p)'
    BY <1>0, <1>15 DEF SecondPasses, Fits, Phases, Request
  <2> QED
    BY <1>0, <1>15, <2>1, AskedKept DEF SecondPasses
<1>16. ASSUME NEW c \in Conns, ChannelHandle(c) PROVE Asked'
  <2>1. \A p \in Request : Fits(p) => Fits(p)'
    BY <1>0, <1>16 DEF ChannelHandle, Fits, Phases, Request, Effect
  <2> QED
    BY <1>0, <1>16, <2>1, AskedKept DEF ChannelHandle
<1>17. ASSUME NEW c \in Conns, PanicInHeartbeat(c) PROVE Asked'
  <2>1. \A p \in Request : Fits(p) => Fits(p)'
    BY <1>0, <1>17 DEF PanicInHeartbeat, DieHandling, Fits, Phases, Request
  <2> QED
    BY <1>0, <1>17, <2>1, AskedKept DEF PanicInHeartbeat
<1>18. ASSUME NEW c \in Conns, ChannelExit(c) PROVE Asked'
  <2>1. \A p \in Request : Fits(p) => Fits(p)'
    BY <1>0, <1>18 DEF ChannelExit, Fits, Phases, Request
  <2> QED
    BY <1>0, <1>18, <2>1, AskedKept DEF ChannelExit
<1>19. CASE HandleCreate
  <2>1. /\ requests # <<>> /\ requests' = Tail(requests)
        /\ Head(requests) = requests[1] /\ 1 \in 1 .. Len(requests)
        /\ Head(requests).by \in Conns
    BY <1>0, <1>19, HeadRequest DEF HandleCreate
  <2>2. Fits(Head(requests))
    BY <2>1 DEF Asked
  <2>3. \A p \in Request :
          /\ Fits(p)
          /\ Head(requests).type = "Release" \/ p.type = "Release"
             \/ p.by # Head(requests).by
          => Fits(p)'
    BY <1>0, <1>19, <2>1, <2>2 DEF HandleCreate, Fits, Request
  <2> QED
    BY <1>0, <2>1, <2>3, AskedTail
<1>20. CASE PanicInCreate
  <2>1. requests' = <<>>
    BY <1>20 DEF PanicInCreate
  <2> QED
    BY <2>1 DEF Asked
<1>21. CASE HandleJoin
  <2>1. /\ requests # <<>> /\ requests' = Tail(requests)
        /\ Head(requests) = requests[1] /\ 1 \in 1 .. Len(requests)
        /\ Head(requests).by \in Conns
    BY <1>0, <1>21, HeadRequest DEF HandleJoin
  <2>2. Fits(Head(requests))
    BY <2>1 DEF Asked
  <2>3. \A p \in Request :
          /\ Fits(p)
          /\ Head(requests).type = "Release" \/ p.type = "Release"
             \/ p.by # Head(requests).by
          => Fits(p)'
    BY <1>0, <1>21, <2>1, <2>2 DEF HandleJoin, Fits, Request
  <2> QED
    BY <1>0, <2>1, <2>3, AskedTail
<1>22. CASE HandleRelease
  <2>1. /\ requests # <<>> /\ requests' = Tail(requests)
        /\ Head(requests) = requests[1] /\ 1 \in 1 .. Len(requests)
        /\ Head(requests).by \in Conns
    BY <1>0, <1>22, HeadRequest DEF HandleRelease
  <2>2. Fits(Head(requests))
    BY <2>1 DEF Asked
  <2>3. \A p \in Request :
          /\ Fits(p)
          /\ Head(requests).type = "Release" \/ p.type = "Release"
             \/ p.by # Head(requests).by
          => Fits(p)'
    BY <1>0, <1>22, <2>1, <2>2 DEF HandleRelease, Fits, Request
  <2> QED
    BY <1>0, <2>1, <2>3, AskedTail
<1>23. CASE UNCHANGED vars
  BY <1>23 DEF vars, Asked, Fits
<1> QED
  BY <1>1, <1>2, <1>3, <1>4, <1>5, <1>6, <1>7, <1>8, <1>9, <1>10, <1>11,
     <1>12, <1>13, <1>14, <1>15, <1>16, <1>17, <1>18, <1>19, <1>20, <1>21,
     <1>22, <1>23
     DEF Next, Environment, Manager, Connection, Channel

(***************************************************************************)
(* The map.                                                                *)
(***************************************************************************)

\* The map leads to channels of the right name.
LEMMA MappedStep ==
  ASSUME TypeOK, Phases, Asked, Mapped, [Next]_vars
  PROVE  Mapped'
<1> USE DEF connVars, managerVars, channelVars, Become, Take
<1>0. /\ conn \in [Conns -> ConnState] /\ app \in [Conns -> Names \cup {None}]
      /\ answer \in [Conns -> Reply] /\ chan \in [Conns -> ChanState]
      /\ requests \in Seq(Request) /\ inbox \in [Conns -> Seq(Message)]
      /\ channels \in [Names -> Conns \cup {None}]
  BY DEF TypeOK
<1>1. ASSUME NEW c \in Conns,
             CreateAnswered(c) \/ PlayerGone(c) \/ JoinAnswered(c) \/ InitAnswered(c) \/ Receive(c) \/ Closed(c) \/ PeerCloses(c)
      PROVE  Mapped'
  BY <1>1 DEF CreateAnswered, PlayerGone, JoinAnswered, InitAnswered, Receive, Closed, PeerCloses, Mapped
<1>2. ASSUME NEW c \in Conns, NEW n \in Names, ConnectPublisher(c, n) PROVE Mapped'
  BY <1>0, <1>2, ZenonT(40) DEF ConnectPublisher, Phases, Mapped
<1>3. ASSUME NEW c \in Conns, NEW n \in Names, ConnectPlayer(c, n) PROVE Mapped'
  BY <1>0, <1>3, ZenonT(40) DEF ConnectPlayer, Phases, Mapped
<1>4. ASSUME NEW c \in Conns, PublishPacket(c) PROVE Mapped'
  BY <1>4 DEF PublishPacket, Mapped
<1>5. ASSUME NEW c \in Conns, PublisherGone(c) PROVE Mapped'
  BY <1>5 DEF PublisherGone, Mapped
<1>6. ASSUME NEW c \in Conns, SendRelease(c) PROVE Mapped'
  BY <1>6 DEF SendRelease, Mapped
<1>7. ASSUME NEW c \in Conns, RequestInit(c) PROVE Mapped'
  BY <1>7 DEF RequestInit, Mapped
<1>8. ASSUME NEW c \in Conns, ChannelStart(c) PROVE Mapped'
  BY <1>0, <1>8 DEF ChannelStart, Mapped
<1>9. ASSUME NEW c \in Conns, SecondPasses(c) PROVE Mapped'
  BY <1>9 DEF SecondPasses, Mapped
<1>10. ASSUME NEW c \in Conns, ChannelHandle(c) PROVE Mapped'
  BY <1>0, <1>10 DEF ChannelHandle, Effect, Mapped
<1>11. ASSUME NEW c \in Conns, PanicInHeartbeat(c) PROVE Mapped'
  BY <1>0, <1>11 DEF PanicInHeartbeat, DieHandling, Mapped
<1>12. ASSUME NEW c \in Conns, ChannelExit(c) PROVE Mapped'
  BY <1>0, <1>12 DEF ChannelExit, Mapped
<1>13. CASE HandleCreate
  <2> DEFINE b == Head(requests).by
  <2>1. /\ requests # <<>> /\ Head(requests) = requests[1] /\ 1 \in 1 .. Len(requests)
        /\ b \in Conns /\ Head(requests).name \in Names
    BY <1>0, <1>13, HeadRequest DEF HandleCreate
  <2>2. Fits(Head(requests)) /\ manager = "running"
    BY <1>13, <2>1 DEF Asked, HandleCreate
  <2>3. /\ app' = app /\ chan' = [chan EXCEPT ![b] = "starting"]
        /\ channels' = [channels EXCEPT ![app[b]] = b] /\ app[b] \in Names
        /\ manager' = "running"
    BY <1>13, <2>1, <2>2 DEF HandleCreate, Fits
  <2> HIDE DEF b
  <2>4. b # None
    BY <2>1, NoneAssumption
  <2> QED
    BY <1>0, <2>1, <2>3, <2>4 DEF Mapped
<1>14. CASE PanicInCreate
  BY NoneAssumption, <1>14 DEF PanicInCreate, Mapped
<1>15. CASE HandleJoin
  BY <1>15 DEF HandleJoin, Mapped
<1>16. CASE HandleRelease
  BY <1>0, NoneAssumption, <1>16 DEF HandleRelease, Mapped
<1>17. CASE UNCHANGED vars
  BY <1>17 DEF vars, Mapped
<1> QED
  BY <1>1, <1>2, <1>3, <1>4, <1>5, <1>6, <1>7, <1>8, <1>9, <1>10, <1>11,
     <1>12, <1>13, <1>14, <1>15, <1>16, <1>17
     DEF Next, Environment, Manager, Connection, Channel

(***************************************************************************)
(* How the queues change.                                                  *)
(***************************************************************************)

\* A message that is sent is queued last.
LEMMA QueuedTell ==
  ASSUME inbox \in [Conns -> Seq(Message)], NEW d \in Conns, NEW m \in Message,
         Tell(d, m), NEW e \in Conns, NEW x
  PROVE  Queued(e, x)' <=> Queued(e, x) \/ (e = d /\ x = m)
<1>1. inbox[d] \in Seq(Message) /\ inbox' = [inbox EXCEPT ![d] = Append(inbox[d], m)]
  BY DEF Tell
<1>2. /\ Len(Append(inbox[d], m)) = Len(inbox[d]) + 1 /\ Len(inbox[d]) \in Nat
      /\ \A i \in 1 .. Len(inbox[d]) : Append(inbox[d], m)[i] = inbox[d][i]
      /\ Append(inbox[d], m)[Len(inbox[d]) + 1] = m
  BY <1>1
<1>3. CASE e = d
  BY <1>1, <1>2, <1>3 DEF Queued
<1>4. CASE e # d
  BY <1>1, <1>4 DEF Queued
<1> QED
  BY <1>3, <1>4

\* A message that is taken was the first.
LEMMA QueuedTail ==
  ASSUME inbox \in [Conns -> Seq(Message)], NEW d \in Conns, inbox[d] # <<>>,
         inbox' = [inbox EXCEPT ![d] = Tail(@)], NEW e \in Conns, NEW x
  PROVE  /\ Queued(e, x)' => Queued(e, x)
         /\ Queued(e, x) => Queued(e, x)' \/ (e = d /\ x = Head(inbox[d]))
         /\ Queued(d, Head(inbox[d]))
<1>1. inbox[d] \in Seq(Message)
  OBVIOUS
<1>2. /\ Len(Tail(inbox[d])) = Len(inbox[d]) - 1 /\ Len(inbox[d]) \in Nat \ {0}
      /\ \A i \in 1 .. Len(inbox[d]) - 1 : Tail(inbox[d])[i] = inbox[d][i + 1]
      /\ Head(inbox[d]) = inbox[d][1]
  BY <1>1
<1>3. CASE e = d
  <2>1. inbox'[e] = Tail(inbox[d])
    BY <1>3
  <2>2. ASSUME NEW i \in 1 .. Len(inbox[d]), inbox[d][i] = x
        PROVE  Queued(e, x)' \/ x = Head(inbox[d])
    <3>1. CASE i = 1
      BY <1>2, <2>2, <3>1
    <3>2. CASE i # 1
      <4>1. i - 1 \in 1 .. Len(inbox[d]) - 1 /\ (i - 1) + 1 = i
        BY <1>2, <3>2
      <4> QED
        BY <1>2, <2>1, <2>2, <4>1 DEF Queued
    <3> QED
      BY <3>1, <3>2
  <2>3. Queued(e, x)' => Queued(e, x)
    BY <1>2, <1>3, <2>1 DEF Queued
  <2> QED
    BY <1>2, <1>3, <2>2, <2>3 DEF Queued
<1>4. CASE e # d
  BY <1>2, <1>4 DEF Queued
<1> QED
  BY <1>3, <1>4

\* Messages have three types; a Disconnect is told by its type.
LEMMA MessageTypes ==
  /\ PacketMsg \in Message /\ DisconnectMsg \in Message
  /\ \A c \in Conns : InitDataMsg(c) \in Message
  /\ PacketMsg # DisconnectMsg
  /\ \A c : InitDataMsg(c) # DisconnectMsg
BY DEF PacketMsg, DisconnectMsg, InitDataMsg, Message

(***************************************************************************)
(* The ends of channels.                                                   *)
(***************************************************************************)

\* The first message of a queue is a Disconnect when its type says so.
LEMMA InboxHead ==
  ASSUME TypeOK, NEW d \in Conns, inbox[d] # <<>>
  PROVE  Head(inbox[d]).type = "Disconnect" <=> Head(inbox[d]) = DisconnectMsg
<1>1. Head(inbox[d]) \in Message
  BY HeadMessage DEF TypeOK
<1> QED
  BY <1>1 DEF Message, PacketMsg, DisconnectMsg, InitDataMsg

\* With a register only a publisher that leaves ends its channel.
LEMMA EndedStep ==
  ASSUME WithRegister, TypeOK, Phases, Asked, EndedByPublisher, [Next]_vars
  PROVE  EndedByPublisher'
<1> USE DEF connVars, managerVars, channelVars, Become, Take
<1>0. /\ conn \in [Conns -> ConnState] /\ app \in [Conns -> Names \cup {None}]
      /\ answer \in [Conns -> Reply] /\ chan \in [Conns -> ChanState]
      /\ requests \in Seq(Request) /\ inbox \in [Conns -> Seq(Message)]
      /\ channels \in [Names -> Conns \cup {None}]
  BY DEF TypeOK
<1>1. ASSUME NEW c \in Conns,
             CreateAnswered(c) \/ PlayerGone(c) \/ JoinAnswered(c) \/ InitAnswered(c) \/ Receive(c) \/ Closed(c) \/ PeerCloses(c)
      PROVE  EndedByPublisher'
  <2>1. inbox' = inbox /\ chan' = chan
    BY <1>1 DEF CreateAnswered, PlayerGone, JoinAnswered, InitAnswered, Receive, Closed, PeerCloses
  <2>2. \A d \in Conns : Queued(d, DisconnectMsg)' <=> Queued(d, DisconnectMsg)
    BY <2>1 DEF Queued
  <2> QED
    BY <1>0, <1>1, <2>1, <2>2
       DEF CreateAnswered, PlayerGone, JoinAnswered, InitAnswered, Receive, Closed, PeerCloses,
           EndedByPublisher, Phases, Handle, Dropped, Pending, Alive, ChanState
<1>2. ASSUME NEW c \in Conns, NEW n \in Names, ConnectPublisher(c, n) PROVE EndedByPublisher'
  <2>1. \A d \in Conns : Queued(d, DisconnectMsg)' <=> Queued(d, DisconnectMsg)
    BY <1>2 DEF ConnectPublisher, Queued
  <2> QED
    BY <1>0, <1>2, <2>1 DEF ConnectPublisher, EndedByPublisher, Phases
<1>3. ASSUME NEW c \in Conns, NEW n \in Names, ConnectPlayer(c, n) PROVE EndedByPublisher'
  <2>1. \A d \in Conns : Queued(d, DisconnectMsg)' <=> Queued(d, DisconnectMsg)
    BY <1>3 DEF ConnectPlayer, Queued
  <2> QED
    BY <1>0, <1>3, <2>1 DEF ConnectPlayer, EndedByPublisher, Phases
<1>4. ASSUME NEW c \in Conns, PublishPacket(c) PROVE EndedByPublisher'
  <2>1. Alive(c) => \A e \in Conns :
          Queued(e, DisconnectMsg)' <=> Queued(e, DisconnectMsg) \/ (e = c /\ PacketMsg = DisconnectMsg)
    BY <1>0, <1>4, QueuedTell, MessageTypes DEF PublishPacket
  <2>2. ~Alive(c) => inbox' = inbox
    BY <1>4 DEF PublishPacket
  <2>3. ~Alive(c) => \A e \in Conns : Queued(e, DisconnectMsg)' <=> Queued(e, DisconnectMsg)
    BY <2>2 DEF Queued
  <2> QED
    BY <1>0, <1>4, <2>1, <2>3, MessageTypes DEF PublishPacket, EndedByPublisher, Phases, Alive, ChanState
<1>5. ASSUME NEW c \in Conns, PublisherGone(c) PROVE EndedByPublisher'
  <2>1. Alive(c) => \A e \in Conns :
          Queued(e, DisconnectMsg)' <=> Queued(e, DisconnectMsg) \/ (e = c /\ DisconnectMsg = DisconnectMsg)
    BY <1>0, <1>5, QueuedTell, MessageTypes DEF PublisherGone
  <2>2. ~Alive(c) => inbox' = inbox
    BY <1>5 DEF PublisherGone
  <2>3. ~Alive(c) => \A e \in Conns : Queued(e, DisconnectMsg)' <=> Queued(e, DisconnectMsg)
    BY <2>2 DEF Queued
  <2> QED
    BY <1>0, <1>5, <2>1, <2>3, MessageTypes DEF PublisherGone, EndedByPublisher, Phases, Alive, ChanState
<1>6. ASSUME NEW c \in Conns, SendRelease(c) PROVE EndedByPublisher'
  <2>1. \A d \in Conns : Queued(d, DisconnectMsg)' <=> Queued(d, DisconnectMsg)
    BY <1>6 DEF SendRelease, Queued
  <2> QED
    BY <1>0, <1>6, <2>1 DEF SendRelease, EndedByPublisher, Phases
<1>7. ASSUME NEW c \in Conns, RequestInit(c) PROVE EndedByPublisher'
  <2>1. PICK d \in Conns :
          \/ Tell(d, InitDataMsg(c)) /\ Become(c, "waiting")
          \/ inbox' = inbox /\ Become(c, "ended")
    BY <1>7 DEF RequestInit
  <2>2. \A e \in Conns : Queued(e, DisconnectMsg)' <=> Queued(e, DisconnectMsg)
    <3>1. CASE Tell(d, InitDataMsg(c))
      BY <1>0, <3>1, QueuedTell, MessageTypes
    <3>2. CASE inbox' = inbox
      BY <3>2 DEF Queued
    <3> QED
      BY <2>1, <3>1, <3>2
  <2>3. chan' = chan /\ conn[c] = "requesting" /\ \A e \in Conns : e # c => conn'[e] = conn[e]
    BY <1>0, <1>7 DEF RequestInit
  <2> QED
    BY <1>0, <2>1, <2>2, <2>3 DEF EndedByPublisher, Phases, Handle, Dropped, Pending, Alive, ChanState
<1>8. ASSUME NEW c \in Conns, ChannelStart(c) PROVE EndedByPublisher'
  <2>1. \A d \in Conns : Queued(d, DisconnectMsg)' <=> Queued(d, DisconnectMsg)
    BY <1>8 DEF ChannelStart, Queued
  <2> QED
    BY <1>0, <1>8, <2>1 DEF ChannelStart, EndedByPublisher, Phases
<1>9. ASSUME NEW c \in Conns, SecondPasses(c) PROVE EndedByPublisher'
  <2>1. \A d \in Conns : Queued(d, DisconnectMsg)' <=> Queued(d, DisconnectMsg)
    BY <1>9 DEF SecondPasses, Queued
  <2> QED
    BY <1>0, <1>9, <2>1 DEF SecondPasses, EndedByPublisher, Phases
<1>10. ASSUME NEW c \in Conns, ChannelHandle(c) PROVE EndedByPublisher'
  <2>1. /\ inbox[c] # <<>> /\ inbox' = [inbox EXCEPT ![c] = Tail(@)]
        /\ conn' = conn /\ chan[c] = "running"
        /\ \A e \in Conns : e # c => chan'[e] = chan[e]
        /\ chan'[c] \in {"running", "closing"}
        /\ chan'[c] = "closing" <=> Head(inbox[c]).type = "Disconnect"
    BY <1>0, <1>10 DEF ChannelHandle, Effect
  <2>2. \A e \in Conns :
          /\ Queued(e, DisconnectMsg)' => Queued(e, DisconnectMsg)
          /\ Queued(e, DisconnectMsg) =>
               Queued(e, DisconnectMsg)' \/ (e = c /\ DisconnectMsg = Head(inbox[c]))
    BY <1>0, <2>1, QueuedTail
  <2>3. Head(inbox[c]).type = "Disconnect" <=> Head(inbox[c]) = DisconnectMsg
    BY <1>10, InboxHead DEF ChannelHandle
  <2>4. Queued(c, Head(inbox[c]))
    BY <1>0, <2>1, QueuedTail
  <2> QED
    BY <2>1, <2>2, <2>3, <2>4 DEF EndedByPublisher
<1>11. ASSUME NEW c \in Conns, PanicInHeartbeat(c) PROVE EndedByPublisher'
  <2>1. \A e \in Conns : e # c =>
          /\ Queued(e, DisconnectMsg)' <=> Queued(e, DisconnectMsg)
          /\ chan'[e] = chan[e]
    BY <1>0, <1>11 DEF PanicInHeartbeat, DieHandling, Queued
  <2>2. ~Queued(c, DisconnectMsg)' /\ chan'[c] = "dead" /\ conn' = conn
    BY <1>0, <1>11 DEF PanicInHeartbeat, DieHandling, Queued
  <2> QED
    BY <1>0, <1>11, <2>1, <2>2 DEF PanicInHeartbeat, EndedByPublisher
<1>12. ASSUME NEW c \in Conns, ChannelExit(c) PROVE EndedByPublisher'
  <2>1. \A e \in Conns : e # c =>
          /\ Queued(e, DisconnectMsg)' <=> Queued(e, DisconnectMsg)
          /\ chan'[e] = chan[e]
    BY <1>0, <1>12 DEF ChannelExit, DropInbox, Queued
  <2>2. ~Queued(c, DisconnectMsg)' /\ chan'[c] = "dead" /\ conn' = conn
    BY <1>0, <1>12 DEF ChannelExit, DropInbox, Queued
  <2> QED
    BY <1>0, <1>12, <2>1, <2>2 DEF ChannelExit, EndedByPublisher
<1>13. CASE HandleCreate
  <2> DEFINE b == Head(requests).by
  <2>1. /\ requests # <<>> /\ Head(requests) = requests[1] /\ 1 \in 1 .. Len(requests)
        /\ b \in Conns /\ Head(requests).name \in Names
    BY <1>0, <1>13, HeadRequest DEF HandleCreate
  <2>2. Fits(Head(requests)) /\ manager = "running"
    BY <1>13, <2>1 DEF Asked, HandleCreate
  <2>3. /\ inbox' = inbox /\ conn' = conn /\ conn[b] = "creating"
        /\ chan' = [chan EXCEPT ![b] = "starting"] /\ chan[b] = "absent"
    BY <1>13, <2>2 DEF HandleCreate, Fits
  <2>4. \A e \in Conns : Queued(e, DisconnectMsg)' <=> Queued(e, DisconnectMsg)
    BY <2>3 DEF Queued
  <2> HIDE DEF b
  <2> QED
    BY <1>0, <2>1, <2>3, <2>4 DEF EndedByPublisher
<1>14. CASE PanicInCreate
  <2>1. \A d \in Conns : Queued(d, DisconnectMsg)' <=> Queued(d, DisconnectMsg)
    BY <1>14 DEF PanicInCreate, Queued
  <2> QED
    BY <1>0, <1>14, <2>1 DEF PanicInCreate, EndedByPublisher, Phases
<1>15. CASE HandleJoin
  <2>1. \A d \in Conns : Queued(d, DisconnectMsg)' <=> Queued(d, DisconnectMsg)
    BY <1>15 DEF HandleJoin, Queued
  <2> QED
    BY <1>0, <1>15, <2>1 DEF HandleJoin, EndedByPublisher, Phases
<1>16. CASE HandleRelease
  <2>1. \A d \in Conns : Queued(d, DisconnectMsg)' <=> Queued(d, DisconnectMsg)
    BY <1>16 DEF HandleRelease, Queued
  <2> QED
    BY <1>0, <1>16, <2>1 DEF HandleRelease, EndedByPublisher, Phases
<1>17. CASE UNCHANGED vars
  <2>1. \A d \in Conns : Queued(d, DisconnectMsg)' <=> Queued(d, DisconnectMsg)
    BY <1>17 DEF vars, Queued
  <2> QED
    BY <1>17, <2>1 DEF vars, EndedByPublisher
<1> QED
  BY <1>1, <1>2, <1>3, <1>4, <1>5, <1>6, <1>7, <1>8, <1>9, <1>10, <1>11,
     <1>12, <1>13, <1>14, <1>15, <1>16, <1>17
     DEF Next, Environment, Manager, Connection, Channel

\* With or without one, no channel is left without an end.
LEMMA OrphanStep ==
  ASSUME TypeOK, Phases, Asked, NoOrphanChannel, [Next]_vars
  PROVE  NoOrphanChannel'
<1> USE DEF connVars, managerVars, channelVars, Become, Take
<1>0. /\ conn \in [Conns -> ConnState] /\ app \in [Conns -> Names \cup {None}]
      /\ answer \in [Conns -> Reply] /\ chan \in [Conns -> ChanState]
      /\ requests \in Seq(Request) /\ inbox \in [Conns -> Seq(Message)]
      /\ channels \in [Names -> Conns \cup {None}]
  BY DEF TypeOK
<1>1. ASSUME NEW c \in Conns,
             CreateAnswered(c) \/ PlayerGone(c) \/ JoinAnswered(c) \/ InitAnswered(c) \/ Receive(c) \/ Closed(c) \/ PeerCloses(c)
      PROVE  NoOrphanChannel'
  <2>1. inbox' = inbox /\ chan' = chan
    BY <1>1 DEF CreateAnswered, PlayerGone, JoinAnswered, InitAnswered, Receive, Closed, PeerCloses
  <2>2. \A d \in Conns : Queued(d, DisconnectMsg)' <=> Queued(d, DisconnectMsg)
    BY <2>1 DEF Queued
  <2> QED
    BY <1>0, <1>1, <2>1, <2>2
       DEF CreateAnswered, PlayerGone, JoinAnswered, InitAnswered, Receive, Closed, PeerCloses,
           NoOrphanChannel, Phases, Handle, Dropped, Pending, Alive, ChanState
<1>2. ASSUME NEW c \in Conns, NEW n \in Names, ConnectPublisher(c, n) PROVE NoOrphanChannel'
  <2>1. \A d \in Conns : Queued(d, DisconnectMsg)' <=> Queued(d, DisconnectMsg)
    BY <1>2 DEF ConnectPublisher, Queued
  <2> QED
    BY <1>0, <1>2, <2>1 DEF ConnectPublisher, NoOrphanChannel, Phases
<1>3. ASSUME NEW c \in Conns, NEW n \in Names, ConnectPlayer(c, n) PROVE NoOrphanChannel'
  <2>1. \A d \in Conns : Queued(d, DisconnectMsg)' <=> Queued(d, DisconnectMsg)
    BY <1>3 DEF ConnectPlayer, Queued
  <2> QED
    BY <1>0, <1>3, <2>1 DEF ConnectPlayer, NoOrphanChannel, Phases
<1>4. ASSUME NEW c \in Conns, PublishPacket(c) PROVE NoOrphanChannel'
  <2>1. Alive(c) => \A e \in Conns :
          Queued(e, DisconnectMsg)' <=> Queued(e, DisconnectMsg) \/ (e = c /\ PacketMsg = DisconnectMsg)
    BY <1>0, <1>4, QueuedTell, MessageTypes DEF PublishPacket
  <2>2. ~Alive(c) => inbox' = inbox
    BY <1>4 DEF PublishPacket
  <2>3. ~Alive(c) => \A e \in Conns : Queued(e, DisconnectMsg)' <=> Queued(e, DisconnectMsg)
    BY <2>2 DEF Queued
  <2> QED
    BY <1>0, <1>4, <2>1, <2>3, MessageTypes DEF PublishPacket, NoOrphanChannel, Phases, Alive, ChanState
<1>5. ASSUME NEW c \in Conns, PublisherGone(c) PROVE NoOrphanChannel'
  <2>1. Alive(c) => \A e \in Conns :
          Queued(e, DisconnectMsg)' <=> Queued(e, DisconnectMsg) \/ (e = c /\ DisconnectMsg = DisconnectMsg)
    BY <1>0, <1>5, QueuedTell, MessageTypes DEF PublisherGone
  <2>2. ~Alive(c) => inbox' = inbox
    BY <1>5 DEF PublisherGone
  <2>3. ~Alive(c) => \A e \in Conns : Queued(e, DisconnectMsg)' <=> Queued(e, DisconnectMsg)
    BY <2>2 DEF Queued
  <2> QED
    BY <1>0, <1>5, <2>1, <2>3, MessageTypes DEF PublisherGone, NoOrphanChannel, Phases, Alive, ChanState
<1>6. ASSUME NEW c \in Conns, SendRelease(c) PROVE NoOrphanChannel'
  <2>1. \A d \in Conns : Queued(d, DisconnectMsg)' <=> Queued(d, DisconnectMsg)
    BY <1>6 DEF SendRelease, Queued
  <2> QED
    BY <1>0, <1>6, <2>1 DEF SendRelease, NoOrphanChannel, Phases
<1>7. ASSUME NEW c \in Conns, RequestInit(c) PROVE NoOrphanChannel'
  <2>1. PICK d \in Conns :
          \/ Tell(d, InitDataMsg(c)) /\ Become(c, "waiting")
          \/ inbox' = inbox /\ Become(c, "ended")
    BY <1>7 DEF RequestInit
  <2>2. \A e \in Conns : Queued(e, DisconnectMsg)' <=> Queued(e, DisconnectMsg)
    <3>1. CASE Tell(d, InitDataMsg(c))
      BY <1>0, <3>1, QueuedTell, MessageTypes
    <3>2. CASE inbox' = inbox
      BY <3>2 DEF Queued
    <3> QED
      BY <2>1, <3>1, <3>2
  <2>3. chan' = chan /\ conn[c] = "requesting" /\ \A e \in Conns : e # c => conn'[e] = conn[e]
    BY <1>0, <1>7 DEF RequestInit
  <2> QED
    BY <1>0, <2>1, <2>2, <2>3 DEF NoOrphanChannel, Phases, Handle, Dropped, Pending, Alive, ChanState
<1>8. ASSUME NEW c \in Conns, ChannelStart(c) PROVE NoOrphanChannel'
  <2>1. \A d \in Conns : Queued(d, DisconnectMsg)' <=> Queued(d, DisconnectMsg)
    BY <1>8 DEF ChannelStart, Queued
  <2> QED
    BY <1>0, <1>8, <2>1 DEF ChannelStart, NoOrphanChannel, Phases
<1>9. ASSUME NEW c \in Conns, SecondPasses(c) PROVE NoOrphanChannel'
  <2>1. \A d \in Conns : Queued(d, DisconnectMsg)' <=> Queued(d, DisconnectMsg)
    BY <1>9 DEF SecondPasses, Queued
  <2> QED
    BY <1>0, <1>9, <2>1 DEF SecondPasses, NoOrphanChannel, Phases
<1>10. ASSUME NEW c \in Conns, ChannelHandle(c) PROVE NoOrphanChannel'
  <2>1. /\ inbox[c] # <<>> /\ inbox' = [inbox EXCEPT ![c] = Tail(@)]
        /\ conn' = conn /\ chan[c] = "running"
        /\ \A e \in Conns : e # c => chan'[e] = chan[e]
        /\ chan'[c] \in {"running", "closing"}
        /\ chan'[c] = "closing" <=> Head(inbox[c]).type = "Disconnect"
    BY <1>0, <1>10 DEF ChannelHandle, Effect
  <2>2. \A e \in Conns :
          /\ Queued(e, DisconnectMsg)' => Queued(e, DisconnectMsg)
          /\ Queued(e, DisconnectMsg) =>
               Queued(e, DisconnectMsg)' \/ (e = c /\ DisconnectMsg = Head(inbox[c]))
    BY <1>0, <2>1, QueuedTail
  <2>3. Head(inbox[c]).type = "Disconnect" <=> Head(inbox[c]) = DisconnectMsg
    BY <1>10, InboxHead DEF ChannelHandle
  <2>4. Queued(c, Head(inbox[c]))
    BY <1>0, <2>1, QueuedTail
  <2> QED
    BY <2>1, <2>2, <2>3, <2>4 DEF NoOrphanChannel
<1>11. ASSUME NEW c \in Conns, PanicInHeartbeat(c) PROVE NoOrphanChannel'
  <2>1. \A e \in Conns : e # c =>
          /\ Queued(e, DisconnectMsg)' <=> Queued(e, DisconnectMsg)
          /\ chan'[e] = chan[e]
    BY <1>0, <1>11 DEF PanicInHeartbeat, DieHandling, Queued
  <2>2. ~Queued(c, DisconnectMsg)' /\ chan'[c] = "dead" /\ conn' = conn
    BY <1>0, <1>11 DEF PanicInHeartbeat, DieHandling, Queued
  <2> QED
    BY <1>0, <1>11, <2>1, <2>2 DEF PanicInHeartbeat, NoOrphanChannel
<1>12. ASSUME NEW c \in Conns, ChannelExit(c) PROVE NoOrphanChannel'
  <2>1. \A e \in Conns : e # c =>
          /\ Queued(e, DisconnectMsg)' <=> Queued(e, DisconnectMsg)
          /\ chan'[e] = chan[e]
    BY <1>0, <1>12 DEF ChannelExit, DropInbox, Queued
  <2>2. ~Queued(c, DisconnectMsg)' /\ chan'[c] = "dead" /\ conn' = conn
    BY <1>0, <1>12 DEF ChannelExit, DropInbox, Queued
  <2> QED
    BY <1>0, <1>12, <2>1, <2>2 DEF ChannelExit, NoOrphanChannel
<1>13. CASE HandleCreate
  <2> DEFINE b == Head(requests).by
  <2>1. /\ requests # <<>> /\ Head(requests) = requests[1] /\ 1 \in 1 .. Len(requests)
        /\ b \in Conns /\ Head(requests).name \in Names
    BY <1>0, <1>13, HeadRequest DEF HandleCreate
  <2>2. Fits(Head(requests)) /\ manager = "running"
    BY <1>13, <2>1 DEF Asked, HandleCreate
  <2>3. /\ inbox' = inbox /\ conn' = conn /\ conn[b] = "creating"
        /\ chan' = [chan EXCEPT ![b] = "starting"] /\ chan[b] = "absent"
    BY <1>13, <2>2 DEF HandleCreate, Fits
  <2>4. \A e \in Conns : Queued(e, DisconnectMsg)' <=> Queued(e, DisconnectMsg)
    BY <2>3 DEF Queued
  <2> HIDE DEF b
  <2> QED
    BY <1>0, <2>1, <2>3, <2>4 DEF NoOrphanChannel
<1>14. CASE PanicInCreate
  <2>1. \A d \in Conns : Queued(d, DisconnectMsg)' <=> Queued(d, DisconnectMsg)
    BY <1>14 DEF PanicInCreate, Queued
  <2> QED
    BY <1>0, <1>14, <2>1 DEF PanicInCreate, NoOrphanChannel, Phases
<1>15. CASE HandleJoin
  <2>1. \A d \in Conns : Queued(d, DisconnectMsg)' <=> Queued(d, DisconnectMsg)
    BY <1>15 DEF HandleJoin, Queued
  <2> QED
    BY <1>0, <1>15, <2>1 DEF HandleJoin, NoOrphanChannel, Phases
<1>16. CASE HandleRelease
  <2>1. \A d \in Conns : Queued(d, DisconnectMsg)' <=> Queued(d, DisconnectMsg)
    BY <1>16 DEF HandleRelease, Queued
  <2> QED
    BY <1>0, <1>16, <2>1 DEF HandleRelease, NoOrphanChannel, Phases
<1>17. CASE UNCHANGED vars
  <2>1. \A d \in Conns : Queued(d, DisconnectMsg)' <=> Queued(d, DisconnectMsg)
    BY <1>17 DEF vars, Queued
  <2> QED
    BY <1>17, <2>1 DEF vars, NoOrphanChannel
<1> QED
  BY <1>1, <1>2, <1>3, <1>4, <1>5, <1>6, <1>7, <1>8, <1>9, <1>10, <1>11,
     <1>12, <1>13, <1>14, <1>15, <1>16, <1>17
     DEF Next, Environment, Manager, Connection, Channel
(***************************************************************************)
(* The socket, the register and the entries of the map, when there is a    *)
(* register.                                                               *)
(***************************************************************************)

\* The steps that leave the channels' tasks and their socket alone.
LEMMA ChannelsAlone ==
  ASSUME [Next]_vars,
         ~ HandleCreate,
         \A c \in Conns : ~ ( \/ ChannelStart(c) \/ ChannelHandle(c)
                              \/ PanicInHeartbeat(c) \/ ChannelExit(c))
  PROVE  chan' = chan /\ socket' = socket /\ registered' = registered
<1> USE DEF connVars, managerVars, channelVars
<1>1. ASSUME NEW c \in Conns, NEW n \in Names, ConnectPublisher(c, n) \/ ConnectPlayer(c, n)
      PROVE  chan' = chan /\ socket' = socket /\ registered' = registered
  BY <1>1 DEF ConnectPublisher, ConnectPlayer
<1>2. ASSUME NEW c \in Conns,
             \/ PublishPacket(c) \/ PublisherGone(c) \/ PlayerGone(c)
             \/ PeerCloses(c) \/ SecondPasses(c)
      PROVE  chan' = chan /\ socket' = socket /\ registered' = registered
  BY <1>2 DEF PublishPacket, PublisherGone, PlayerGone, PeerCloses, SecondPasses
<1>3. ASSUME NEW c \in Conns, Connection(c)
      PROVE  chan' = chan /\ socket' = socket /\ registered' = registered
  BY <1>3 DEF Connection, CreateAnswered, SendRelease, JoinAnswered, RequestInit,
              InitAnswered, Receive, Closed
<1>4. ASSUME PanicInCreate \/ HandleJoin \/ HandleRelease
      PROVE  chan' = chan /\ socket' = socket /\ registered' = registered
  BY <1>4 DEF PanicInCreate, HandleJoin, HandleRelease
<1> QED
  BY <1>1, <1>2, <1>3, <1>4 DEF vars, Next, Environment, Manager, Channel

\* The channel that is made is one that has never been.
LEMMA CreateFresh ==
  ASSUME TypeOK, Asked, HandleCreate
  PROVE  LET b == Head(requests).by
         IN  /\ b \in Conns /\ chan[b] = "absent" /\ conn[b] = "creating"
             /\ app[b] \in Names /\ Head(requests).name = app[b]
             /\ chan' = [chan EXCEPT ![b] = "starting"]
             /\ channels' = [channels EXCEPT ![app[b]] = b]
             /\ Head(requests).type = "Create"
<1>1. /\ Head(requests) = requests[1] /\ 1 \in 1 .. Len(requests)
      /\ Head(requests).by \in Conns /\ Head(requests).name \in Names
  BY HeadRequest DEF HandleCreate, Take, TypeOK
<1>2. Fits(Head(requests)) /\ Head(requests).type = "Create"
  BY <1>1 DEF Asked, HandleCreate, Take
<1> QED
  BY <1>1, <1>2 DEF Fits, HandleCreate

\* One channel at a time is there, and it has the socket.
LEMMA SocketStep ==
  ASSUME WithRegister, TypeOK, Asked, SocketHeld, [Next]_vars
  PROVE  SocketHeld'
<1>0. chan \in [Conns -> ChanState] /\ None \notin Conns
  BY NoneAssumption DEF TypeOK
<1>1. CASE HandleCreate
  <2> PICK b \in Conns : chan' = [chan EXCEPT ![b] = "starting"] /\ socket' = b
    BY <1>1, CreateFresh DEF HandleCreate
  <2>1. socket = None
    BY <1>1 DEF HandleCreate
  <2> QED
    BY <1>0, <2>1 DEF SocketHeld, Alive
<1>2. ASSUME NEW c \in Conns, ChannelStart(c) \/ ChannelHandle(c) PROVE SocketHeld'
  BY <1>0, <1>2 DEF ChannelStart, ChannelHandle, Effect, SocketHeld, Alive
<1>3. ASSUME NEW c \in Conns, ChannelExit(c) PROVE SocketHeld'
  BY <1>0, <1>3 DEF ChannelExit, SocketHeld, Alive
<1>4. ASSUME NEW c \in Conns, PanicInHeartbeat(c) PROVE SocketHeld'
  BY <1>4 DEF PanicInHeartbeat
<1>5. CASE chan' = chan /\ socket' = socket
  BY <1>5 DEF SocketHeld, Alive
<1> QED
  BY <1>1, <1>2, <1>3, <1>4, <1>5, ChannelsAlone

\* What the register holds is what runs: a Delete removes the name of the one
\* channel there is.
LEMMA SnapshotStep ==
  ASSUME WithRegister, TypeOK, Phases, Asked, SocketHeld, SnapshotExact, [Next]_vars
  PROVE  SnapshotExact'
<1>0. /\ chan \in [Conns -> ChanState] /\ conn \in [Conns -> ConnState]
      /\ app \in [Conns -> Names \cup {None}]
  BY DEF TypeOK
<1>1. app' = app \/ \E c \in Conns, n \in Names :
        /\ ConnectPublisher(c, n) \/ ConnectPlayer(c, n)
        /\ app' = [app EXCEPT ![c] = n] /\ chan[c] = "absent"
        /\ chan' = chan /\ registered' = registered
  <2> USE DEF connVars, managerVars, channelVars
  <2>1. ASSUME NEW c \in Conns, NEW n \in Names, ConnectPublisher(c, n) \/ ConnectPlayer(c, n)
        PROVE  app' = [app EXCEPT ![c] = n] /\ chan[c] = "absent"
               /\ chan' = chan /\ registered' = registered
    BY <2>1 DEF ConnectPublisher, ConnectPlayer, Phases
  <2>2. ASSUME NEW c \in Conns,
               \/ PublishPacket(c) \/ PublisherGone(c) \/ PlayerGone(c)
               \/ PeerCloses(c) \/ SecondPasses(c)
        PROVE  app' = app
    BY <2>2 DEF PublishPacket, PublisherGone, PlayerGone, PeerCloses, SecondPasses
  <2>3. ASSUME NEW c \in Conns, Connection(c) PROVE app' = app
    BY <2>3 DEF Connection, CreateAnswered, SendRelease, JoinAnswered, RequestInit,
                InitAnswered, Receive, Closed
  <2>4. ASSUME NEW c \in Conns, Channel(c) PROVE app' = app
    BY <2>4 DEF Channel, ChannelStart, ChannelHandle, PanicInHeartbeat, ChannelExit
  <2>5. CASE Manager
    BY <2>5 DEF Manager, HandleCreate, PanicInCreate, HandleJoin, HandleRelease
  <2> QED
    BY <2>1, <2>2, <2>3, <2>4, <2>5 DEF vars, Next, Environment
<1>2. CASE HandleCreate
  <2>1. PICK b \in Conns : chan' = [chan EXCEPT ![b] = "starting"] /\ chan[b] = "absent"
    BY <1>2, CreateFresh
  <2>2. app' = app /\ registered' = registered
    BY <1>2 DEF HandleCreate
  <2>3. {c \in Conns : chan'[c] \in {"running", "closing"}} =
        {c \in Conns : chan[c] \in {"running", "closing"}}
    BY <1>0, <2>1
  <2> QED
    BY <2>2, <2>3 DEF SnapshotExact
<1>3. ASSUME NEW d \in Conns, ChannelStart(d) PROVE SnapshotExact'
  <2>1. /\ app' = app /\ registered' = registered \cup {app[d]}
        /\ chan' = [chan EXCEPT ![d] = "running"]
    BY <1>3 DEF ChannelStart, connVars
  <2>2. {c \in Conns : chan'[c] \in {"running", "closing"}} =
        {c \in Conns : chan[c] \in {"running", "closing"}} \cup {d}
    BY <1>0, <2>1
  <2> QED
    BY <2>1, <2>2 DEF SnapshotExact
<1>4. ASSUME NEW d \in Conns, ChannelHandle(d) PROVE SnapshotExact'
  <2>1. /\ app' = app /\ chan[d] = "running"
        /\ registered' \in {registered, registered \cup {app[d]}}
        /\ chan' = [chan EXCEPT ![d] =
             IF Head(inbox[d]).type = "Disconnect" THEN "closing" ELSE @]
    BY <1>4 DEF ChannelHandle, Effect
  <2>2. {c \in Conns : chan'[c] \in {"running", "closing"}} =
        {c \in Conns : chan[c] \in {"running", "closing"}}
    BY <1>0, <2>1
  <2>3. app[d] \in registered
    BY <2>1 DEF SnapshotExact
  <2> QED
    BY <2>1, <2>2, <2>3 DEF SnapshotExact
<1>5. ASSUME NEW d \in Conns, ChannelExit(d) PROVE SnapshotExact'
  <2>1. /\ app' = app /\ chan[d] = "closing" /\ chan' = [chan EXCEPT ![d] = "dead"]
        /\ registered' = registered \ {app[d]}
    BY <1>5 DEF ChannelExit
  <2>2. \A c \in Conns : Alive(c) => c = d
    BY <2>1 DEF SocketHeld, Alive
  <2>3. {c \in Conns : chan[c] \in {"running", "closing"}} = {d}
    BY <2>1, <2>2 DEF Alive
  <2>4. {c \in Conns : chan'[c] \in {"running", "closing"}} = {}
    BY <1>0, <2>1, <2>2 DEF Alive
  <2>5. registered = {app[d]}
    BY <2>3 DEF SnapshotExact
  <2> QED
    BY <2>1, <2>4, <2>5 DEF SnapshotExact
<1>6. ASSUME NEW c \in Conns, PanicInHeartbeat(c) PROVE SnapshotExact'
  BY <1>6 DEF PanicInHeartbeat
<1>7. CASE app' = app /\ chan' = chan /\ registered' = registered
  BY <1>7 DEF SnapshotExact
<1>8. ASSUME NEW c \in Conns, NEW n \in Names, app' = [app EXCEPT ![c] = n],
             chan[c] = "absent", chan' = chan, registered' = registered
      PROVE  SnapshotExact'
  <2>1. \A d \in {e \in Conns : chan[e] \in {"running", "closing"}} : app'[d] = app[d]
    BY <1>0, <1>8
  <2> QED
    BY <1>8, <2>1 DEF SnapshotExact
<1> QED
  BY <1>1, <1>2, <1>3, <1>4, <1>5, <1>6, <1>7, <1>8, ChannelsAlone
\* A request that is in the manager's queue.
Requested(r) == \E i \in 1 .. Len(requests) : requests[i] = r

\* Sending adds to the queue.
LEMMA RequestedAppend ==
  ASSUME requests \in Seq(Request), NEW r \in Request, requests' = Append(requests, r),
         NEW x
  PROVE  Requested(x)' <=> Requested(x) \/ x = r
<1>1. /\ Len(requests') = Len(requests) + 1 /\ Len(requests) \in Nat
      /\ \A i \in 1 .. Len(requests) : requests'[i] = requests[i]
      /\ requests'[Len(requests) + 1] = r
  OBVIOUS
<1> QED
  BY <1>1 DEF Requested

\* Taking leaves all but the first.
LEMMA RequestedTail ==
  ASSUME requests \in Seq(Request), requests # <<>>, requests' = Tail(requests),
         NEW x, Requested(x), x # Head(requests)
  PROVE  Requested(x)'
<1>1. /\ Len(requests') = Len(requests) - 1 /\ Len(requests) \in Nat \ {0}
      /\ \A i \in 1 .. Len(requests) - 1 : requests'[i] = requests[i + 1]
      /\ Head(requests) = requests[1]
  OBVIOUS
<1>2. PICK i \in 1 .. Len(requests) : requests[i] = x
  BY DEF Requested
<1>3. i - 1 \in 1 .. Len(requests) - 1 /\ (i - 1) + 1 = i
  BY <1>1, <1>2
<1>4. requests'[i - 1] = x
  BY <1>1, <1>2, <1>3
<1> QED
  BY <1>1, <1>3, <1>4 DEF Requested

\* What keeps an entry's promise: its publisher where it was, or leaving, and
\* no Release of its name taken from the queue.
LEMMA EntryKept ==
  ASSUME EntryOwed, NEW n \in Names, NEW d \in Conns, channels[n] = d, app' = app,
         \/ conn'[d] = conn[d]
         \/ conn'[d] = "publishing"
         \/ conn'[d] = "releasing"
         \/ Requested(ReleaseReq(d, app[d]))',
         Requested(ReleaseReq(d, app[d])) => Requested(ReleaseReq(d, app[d]))'
  PROVE  conn'[d] \in {"creating", "publishing"} \/ ReleaseOwed(d)'
BY DEF EntryOwed, ReleaseOwed, Requested

\* The entry of a name goes when the publisher it leads to goes.
LEMMA EntryStep ==
  ASSUME WithRegister, TypeOK, Phases, Asked, Mapped, EndedByPublisher, EntryOwed,
         [Next]_vars
  PROVE  EntryOwed'
<1> USE DEF connVars, managerVars, channelVars, Become, Take
<1>0. /\ conn \in [Conns -> ConnState] /\ app \in [Conns -> Names \cup {None}]
      /\ chan \in [Conns -> ChanState] /\ requests \in Seq(Request)
      /\ channels \in [Names -> Conns \cup {None}] /\ None \notin Conns
  BY NoneAssumption DEF TypeOK
<1>1. ASSUME NEW c \in Conns, NEW n \in Names,
             ConnectPublisher(c, n) \/ ConnectPlayer(c, n)
      PROVE  EntryOwed'
  <2>1. /\ chan[c] = "absent" /\ channels' = channels
        /\ \A d \in Conns : d # c => conn'[d] = conn[d] /\ app'[d] = app[d]
    BY <1>0, <1>1 DEF ConnectPublisher, ConnectPlayer, Phases
  <2>2. PICK r \in Request : requests' \in {requests, Append(requests, r)}
    <3>1. CreateReq(c, n) \in Request /\ JoinReq(c, n) \in Request
      BY DEF CreateReq, JoinReq, Request
    <3> QED
      BY <1>1, <3>1 DEF ConnectPublisher, ConnectPlayer, Ask
  <2>3. ASSUME NEW m \in Names, NEW d \in Conns, channels[m] = d
        PROVE  conn'[d] \in {"creating", "publishing"} \/ ReleaseOwed(d)'
    <3>1. d # c
      BY <2>1, <2>3 DEF Mapped
    <3>2. PICK x \in {ReleaseReq(d, app[d])} : x = ReleaseReq(d, app'[d])
      BY <2>1, <3>1
    <3>3. Requested(x) => Requested(x)'
      <4>1. CASE requests' = requests
        BY <4>1 DEF Requested
      <4>2. CASE requests' = Append(requests, r)
        BY <1>0, <4>2, RequestedAppend
      <4> QED
        BY <2>2, <4>1, <4>2
    <3> QED
      BY <2>1, <2>3, <3>1, <3>2, <3>3 DEF EntryOwed, ReleaseOwed, Requested
  <2> QED
    BY <2>1, <2>3 DEF EntryOwed
<1>2. ASSUME app' = app, channels' = channels, requests' = requests,
             \A d \in Conns : \/ conn'[d] = conn[d]
                              \/ conn'[d] \in {"publishing", "releasing"}
                              \/ chan[d] = "absent"
      PROVE  EntryOwed'
  <2>1. ASSUME NEW n \in Names, NEW d \in Conns, channels[n] = d
        PROVE  conn'[d] \in {"creating", "publishing"} \/ ReleaseOwed(d)'
    <3>1. chan[d] # "absent"
      BY <2>1 DEF Mapped
    <3>2. Requested(ReleaseReq(d, app[d])) => Requested(ReleaseReq(d, app[d]))'
      BY <1>2 DEF Requested, ReleaseReq
    <3> QED
      BY <1>2, <2>1, <3>1, <3>2, EntryKept
  <2> QED
    BY <1>2, <2>1 DEF EntryOwed
<1>3. ASSUME NEW c \in Conns,
             \/ CreateAnswered(c) \/ PublishPacket(c) \/ PublisherGone(c)
             \/ PlayerGone(c) \/ JoinAnswered(c) \/ RequestInit(c) \/ InitAnswered(c)
             \/ Closed(c) \/ PeerCloses(c)
      PROVE  EntryOwed'
  <2>1. app' = app /\ channels' = channels /\ requests' = requests
    BY <1>3 DEF CreateAnswered, PublishPacket, PublisherGone, PlayerGone, JoinAnswered,
                RequestInit, InitAnswered, Closed, PeerCloses
  <2>2. \A d \in Conns : d # c => conn'[d] = conn[d]
    BY <1>0, <1>3 DEF CreateAnswered, PublishPacket, PublisherGone, PlayerGone,
                      JoinAnswered, RequestInit, InitAnswered, Closed, PeerCloses
  <2>3. CASE conn[c] \in {"joining", "requesting", "waiting", "playing", "draining"}
    BY <1>2, <2>1, <2>2, <2>3 DEF Phases
  <2>4. CASE CreateAnswered(c)
    <3>1. answer[c] = Dropped => chan[c] = "absent"
      <4>1. Handle(c) # Dropped
        BY DEF Handle, Dropped
      <4> QED
        BY <4>1 DEF Phases
    <3>2. \/ conn'[c] = "publishing"
          \/ answer[c] = Dropped
      BY <1>0, <2>4 DEF CreateAnswered
    <3> QED
      BY <1>2, <2>1, <2>2, <3>1, <3>2
  <2>5. CASE PublishPacket(c)
    <3>1. Alive(c)
      BY <1>0, <2>5 DEF PublishPacket, Alive, Phases, EndedByPublisher, ChanState
    <3> QED
      BY <1>2, <2>1, <2>2, <2>5, <3>1 DEF PublishPacket
  <2>6. CASE PublisherGone(c)
    BY <1>0, <1>2, <2>1, <2>2, <2>6 DEF PublisherGone
  <2> QED
    BY <1>3, <2>3, <2>4, <2>5, <2>6
       DEF PlayerGone, JoinAnswered, RequestInit, InitAnswered, Closed, PeerCloses
<1>4. ASSUME NEW c \in Conns,
             \/ Receive(c) \/ ChannelStart(c) \/ SecondPasses(c) \/ ChannelHandle(c)
             \/ PanicInHeartbeat(c) \/ ChannelExit(c)
      PROVE  EntryOwed'
  BY <1>2, <1>4 DEF Receive, ChannelStart, SecondPasses, ChannelHandle,
                    PanicInHeartbeat, ChannelExit
<1>5. ASSUME NEW c \in Conns, SendRelease(c) PROVE EntryOwed'
  <2>1. /\ app' = app /\ channels' = channels /\ conn[c] = "releasing"
        /\ \A d \in Conns : d # c => conn'[d] = conn[d]
    BY <1>0, <1>5 DEF SendRelease
  <2>2. ReleaseReq(c, app[c]) \in Request
    BY <2>1 DEF ReleaseReq, Request, Phases
  <2>3. ASSUME NEW n \in Names, NEW d \in Conns, channels[n] = d
        PROVE  conn'[d] \in {"creating", "publishing"} \/ ReleaseOwed(d)'
    <3>1. requests' = Append(requests, ReleaseReq(c, app[c]))
      BY <1>0, <1>5, <2>3 DEF SendRelease, Ask, Mapped, TypeOK
    <3>2. \A x : Requested(x)' <=> Requested(x) \/ x = ReleaseReq(c, app[c])
      BY <1>0, <2>2, <3>1, RequestedAppend
    <3>3. Requested(ReleaseReq(d, app[d])) => Requested(ReleaseReq(d, app[d]))'
      BY <2>1, <3>2
    <3>4. d = c => Requested(ReleaseReq(d, app[d]))'
      BY <2>1, <3>2
    <3> QED
      BY <2>1, <2>3, <3>3, <3>4, EntryKept
  <2> QED
    BY <2>1, <2>3 DEF EntryOwed
<1>6. ASSUME app' = app, conn' = conn, requests # <<>>, requests' = Tail(requests),
             NEW n \in Names, NEW d \in Conns, channels[n] = d,
             Head(requests).type # "Release" \/ Head(requests).name # app[d]
      PROVE  conn'[d] \in {"creating", "publishing"} \/ ReleaseOwed(d)'
  <2> DEFINE x == ReleaseReq(d, app[d])
  <2>1. x # Head(requests)
    BY <1>6 DEF ReleaseReq
  <2>2. Requested(x) => Requested(x)'
    BY <1>0, <1>6, <2>1, RequestedTail
  <2> QED
    BY <1>6, <2>2, EntryKept
<1>7. CASE HandleCreate
  <2>1. PICK b \in Conns :
          /\ conn[b] = "creating" /\ app[b] \in Names
          /\ channels' = [channels EXCEPT ![app[b]] = b]
          /\ Head(requests).type = "Create"
    BY <1>7, CreateFresh
  <2>2. app' = app /\ conn' = conn /\ requests # <<>> /\ requests' = Tail(requests)
    BY <1>7 DEF HandleCreate
  <2>3. ASSUME NEW n \in Names, NEW d \in Conns, channels'[n] = d
        PROVE  conn'[d] \in {"creating", "publishing"} \/ ReleaseOwed(d)'
    <3>1. CASE d = b
      BY <2>1, <2>2, <3>1
    <3>2. CASE d # b
      <4>1. channels[n] = d
        BY <1>0, <2>1, <2>3, <3>2
      <4> QED
        BY <1>6, <2>1, <2>2, <4>1
    <3> QED
      BY <3>1, <3>2
  <2> QED
    BY <2>3 DEF EntryOwed
<1>8. CASE HandleJoin
  <2>1. /\ app' = app /\ conn' = conn /\ requests # <<>> /\ requests' = Tail(requests)
        /\ channels' = channels /\ Head(requests).type = "Join"
    BY <1>8 DEF HandleJoin
  <2> QED
    BY <1>6, <2>1 DEF EntryOwed
<1>9. CASE HandleRelease
  <2>1. /\ app' = app /\ conn' = conn /\ requests # <<>> /\ requests' = Tail(requests)
        /\ channels' = [channels EXCEPT ![Head(requests).name] = None]
    BY <1>9 DEF HandleRelease
  <2>2. ASSUME NEW n \in Names, NEW d \in Conns, channels'[n] = d
        PROVE  conn'[d] \in {"creating", "publishing"} \/ ReleaseOwed(d)'
    <3>1. channels[n] = d /\ n # Head(requests).name
      BY <1>0, <2>1, <2>2
    <3>2. n = app[d]
      BY <3>1 DEF Mapped
    <3> QED
      BY <1>6, <2>1, <3>1, <3>2
  <2> QED
    BY <2>2 DEF EntryOwed
<1>10. CASE PanicInCreate
  BY <1>0, <1>10 DEF PanicInCreate, EntryOwed
<1>11. CASE UNCHANGED vars
  BY <1>2, <1>11 DEF vars
<1> QED
  BY <1>1, <1>3, <1>4, <1>5, <1>7, <1>8, <1>9, <1>10, <1>11
     DEF Next, Environment, Manager, Connection, Channel

(***************************************************************************)
(* What the node owes to those who wait.                                   *)
(***************************************************************************)

\* A reply is pending, dropped, or leads to a channel that has been made; it leads to
\* one for every player that has gone on.
Watching ==
  \A c \in Conns :
    /\ \/ answer[c] \in {Pending, Dropped}
       \/ \E d \in Conns : answer[c] = Handle(d) /\ chan[d] # "absent"
    /\ conn[c] \in {"requesting", "waiting", "playing"} => answer[c] \notin {Pending, Dropped}

\* What is owed to one connection, by the manager and by a channel.
OwedReply(c) ==
  conn[c] \in {"creating", "joining"} /\ answer[c] = Pending => manager = "running" /\ Asks(c)

OwedInit(c) ==
  conn[c] = "waiting" /\ initReply[c] = "pending" =>
    \E d \in Conns : answer[c] = Handle(d) /\ Alive(d) /\ Queued(d, InitDataMsg(c))

\* The three replies are told apart.
LEMMA Replies ==
  ASSUME NEW c, NEW d
  PROVE  /\ Handle(c) \notin {Pending, Dropped} /\ Pending # Dropped
         /\ Handle(c) = Handle(d) => c = d
BY DEF Handle, Pending, Dropped

\* A connection that asks has been given no reply and no channel.
LEMMA AskerWaits ==
  ASSUME TypeOK, Asked, NEW c \in Conns, Asks(c)
  PROVE  /\ answer[c] = Pending /\ chan[c] = "absent"
         /\ conn[c] \in {"creating", "joining", "ended"}
<1>0. requests \in Seq(Request)
  BY DEF TypeOK
<1>1. PICK i \in 1 .. Len(requests) : requests[i].type # "Release" /\ requests[i].by = c
  BY DEF Asks
<1>2. requests[i].type \in {"Create", "Join"}
  BY <1>0, <1>1, RequestFields
<1> QED
  BY <1>1, <1>2 DEF Asked, Fits

\* The request at the head of the queue is a connection's that asks, unless it is a
\* Release.
LEMMA HeadAsks ==
  ASSUME TypeOK, requests # <<>>, Head(requests).type # "Release"
  PROVE  Head(requests).by \in Conns /\ Asks(Head(requests).by)
<1>1. Head(requests) = requests[1] /\ 1 \in 1 .. Len(requests)
  BY DEF TypeOK
<1> QED
  BY <1>1, HeadRequest DEF TypeOK, Asks

\* Sending keeps those who ask ...
LEMMA AsksAppend ==
  ASSUME requests \in Seq(Request), NEW r \in Request, requests' = Append(requests, r),
         NEW c
  PROVE  Asks(c)' <=> Asks(c) \/ (r.type # "Release" /\ r.by = c)
<1>1. /\ Len(requests') = Len(requests) + 1 /\ Len(requests) \in Nat
      /\ \A i \in 1 .. Len(requests) : requests'[i] = requests[i]
      /\ requests'[Len(requests) + 1] = r
  OBVIOUS
<1> QED
  BY <1>1 DEF Asks

\* ... and taking the head keeps all but the one who sent it.
LEMMA AsksTail ==
  ASSUME requests \in Seq(Request), requests # <<>>, requests' = Tail(requests),
         NEW c, Asks(c), Head(requests).type = "Release" \/ Head(requests).by # c
  PROVE  Asks(c)'
<1>1. /\ Len(requests') = Len(requests) - 1 /\ Len(requests) \in Nat \ {0}
      /\ \A i \in 1 .. Len(requests) - 1 : requests'[i] = requests[i + 1]
      /\ Head(requests) = requests[1]
  OBVIOUS
<1>2. PICK i \in 1 .. Len(requests) : requests[i].type # "Release" /\ requests[i].by = c
  BY DEF Asks
<1>3. i - 1 \in 1 .. Len(requests) - 1 /\ (i - 1) + 1 = i
  BY <1>1, <1>2
<1>4. requests'[i - 1] = requests[i]
  BY <1>1, <1>3
<1> QED
  BY <1>1, <1>2, <1>3, <1>4 DEF Asks

\* The manager replies to those who ask only, with a channel that has been made.
LEMMA AnswerStep ==
  ASSUME TypeOK, Asked, Mapped, [Next]_vars, NEW c \in Conns
  PROVE  \/ answer'[c] = answer[c]
         \/ /\ Asks(c) /\ conn' = conn
            /\ \/ answer'[c] = Dropped
               \/ \E d \in Conns : answer'[c] = Handle(d) /\ chan'[d] # "absent"
<1> USE DEF connVars, managerVars, channelVars
<1>0. /\ answer \in [Conns -> Reply] /\ chan \in [Conns -> ChanState]
      /\ channels \in [Names -> Conns \cup {None}] /\ requests \in Seq(Request)
  BY DEF TypeOK
<1>1. CASE HandleCreate
  <2>1. PICK b \in Conns :
          b = Head(requests).by /\ chan' = [chan EXCEPT ![b] = "starting"]
    BY <1>1, CreateFresh
  <2>2. requests # <<>> /\ Head(requests).type # "Release"
    BY <1>1 DEF HandleCreate, Take
  <2>3. Asks(b)
    BY <2>1, <2>2, HeadAsks
  <2>4. answer' = [answer EXCEPT ![b] = Handle(b)] /\ conn' = conn
    BY <1>1, <2>1 DEF HandleCreate
  <2> QED
    BY <1>0, <2>1, <2>3, <2>4
<1>2. CASE PanicInCreate
  BY <1>2 DEF PanicInCreate, Asks
<1>3. CASE HandleJoin
  <2>1. requests # <<>> /\ Head(requests).type # "Release"
    BY <1>3 DEF HandleJoin, Take
  <2>2. PICK b \in Conns : b = Head(requests).by /\ Asks(b)
    BY <2>1, HeadAsks
  <2>3. PICK n \in Names : n = Head(requests).name
    BY <1>0, <2>1, HeadRequest
  <2>4. /\ answer' = [answer EXCEPT ![b] = IF channels[n] = None THEN Dropped
                                            ELSE Handle(channels[n])]
        /\ conn' = conn /\ chan' = chan
    BY <1>3, <2>2, <2>3 DEF HandleJoin
  <2>5. channels[n] # None => channels[n] \in Conns /\ chan[channels[n]] # "absent"
    BY <1>0 DEF Mapped
  <2> QED
    BY <1>0, <2>2, <2>4, <2>5
<1>4. CASE answer' = answer
  BY <1>4
<1>5. ASSUME NEW e \in Conns, NEW n \in Names, ConnectPublisher(e, n) \/ ConnectPlayer(e, n)
      PROVE  answer' = answer
  BY <1>5 DEF ConnectPublisher, ConnectPlayer
<1>6. ASSUME NEW e \in Conns,
             \/ PublishPacket(e) \/ PublisherGone(e) \/ PlayerGone(e)
             \/ PeerCloses(e) \/ SecondPasses(e)
      PROVE  answer' = answer
  BY <1>6 DEF PublishPacket, PublisherGone, PlayerGone, PeerCloses, SecondPasses
<1>7. ASSUME NEW e \in Conns, Connection(e) PROVE answer' = answer
  BY <1>7 DEF Connection, CreateAnswered, SendRelease, JoinAnswered, RequestInit,
              InitAnswered, Receive, Closed
<1>8. ASSUME NEW e \in Conns, Channel(e) PROVE answer' = answer
  BY <1>8 DEF Channel, ChannelStart, ChannelHandle, PanicInHeartbeat, ChannelExit
<1>9. ASSUME HandleRelease PROVE answer' = answer
  BY <1>9 DEF HandleRelease
<1> QED
  BY <1>1, <1>2, <1>3, <1>4, <1>5, <1>6, <1>7, <1>8, <1>9
     DEF vars, Next, Environment, Manager

\* A channel that has been made stays made.
LEMMA ChannelStays ==
  ASSUME TypeOK, Asked, [Next]_vars, NEW d \in Conns, chan[d] # "absent"
  PROVE  chan'[d] # "absent"
<1>0. chan \in [Conns -> ChanState]
  BY DEF TypeOK
<1>1. CASE HandleCreate
  BY <1>0, <1>1, CreateFresh
<1>2. ASSUME NEW c \in Conns,
             ChannelStart(c) \/ ChannelHandle(c) \/ PanicInHeartbeat(c) \/ ChannelExit(c)
      PROVE  chan'[d] # "absent"
  BY <1>0, <1>2
     DEF ChannelStart, ChannelHandle, Effect, PanicInHeartbeat, DieHandling, ChannelExit
<1> QED
  BY <1>1, <1>2, ChannelsAlone

\* A player goes on when it has a handle.
LEMMA PlayerStep ==
  ASSUME TypeOK, [Next]_vars, NEW c \in Conns,
         conn'[c] \in {"requesting", "waiting", "playing"}
  PROVE  \/ conn[c] \in {"requesting", "waiting", "playing"}
         \/ conn[c] = "joining" /\ answer[c] \notin {Pending, Dropped} /\ answer' = answer
<1> USE DEF connVars, managerVars, channelVars, Become
<1>0. conn \in [Conns -> ConnState]
  BY DEF TypeOK
<1>1. ASSUME NEW e \in Conns, NEW n \in Names, ConnectPublisher(e, n) \/ ConnectPlayer(e, n)
      PROVE  conn'[c] = conn[c]
  BY <1>0, <1>1 DEF ConnectPublisher, ConnectPlayer
<1>2. ASSUME NEW e \in Conns,
             \/ PublishPacket(e) \/ PublisherGone(e) \/ PlayerGone(e)
             \/ PeerCloses(e) \/ SecondPasses(e)
      PROVE  conn'[c] = conn[c]
  BY <1>0, <1>2 DEF PublishPacket, PublisherGone, PlayerGone, PeerCloses, SecondPasses
<1>3. ASSUME NEW e \in Conns,
             \/ CreateAnswered(e) \/ SendRelease(e) \/ Receive(e) \/ Closed(e)
      PROVE  conn'[c] = conn[c]
  BY <1>0, <1>3 DEF CreateAnswered, SendRelease, Receive, Closed
<1>4. ASSUME NEW e \in Conns, RequestInit(e) \/ InitAnswered(e)
      PROVE  conn'[c] = conn[c] \/ conn[c] \in {"requesting", "waiting"}
  BY <1>0, <1>4 DEF RequestInit, InitAnswered
<1>5. ASSUME NEW e \in Conns, JoinAnswered(e)
      PROVE  \/ conn'[c] = conn[c]
             \/ conn[c] = "joining" /\ answer[c] \notin {Pending, Dropped} /\ answer' = answer
  BY <1>0, <1>5 DEF JoinAnswered
<1>6. ASSUME NEW e \in Conns, Channel(e) PROVE conn' = conn
  BY <1>6 DEF Channel, ChannelStart, ChannelHandle, PanicInHeartbeat, ChannelExit
<1>7. CASE Manager
  BY <1>7 DEF Manager, HandleCreate, PanicInCreate, HandleJoin, HandleRelease
<1> QED
  BY <1>1, <1>2, <1>3, <1>4, <1>5, <1>6, <1>7 DEF vars, Next, Environment, Connection

\* Every step keeps the players watching.
LEMMA WatchingStep ==
  ASSUME TypeOK, Asked, Mapped, Watching, [Next]_vars
  PROVE  Watching'
<1> SUFFICES ASSUME NEW c \in Conns
             PROVE  /\ \/ answer'[c] \in {Pending, Dropped}
                       \/ \E d \in Conns : answer'[c] = Handle(d) /\ chan'[d] # "absent"
                    /\ conn'[c] \in {"requesting", "waiting", "playing"} =>
                         answer'[c] \notin {Pending, Dropped}
  BY DEF Watching, Pending, Dropped, Handle
<1>1. \/ answer'[c] = answer[c]
      \/ /\ Asks(c) /\ conn' = conn
         /\ \/ answer'[c] = Dropped
            \/ \E d \in Conns : answer'[c] = Handle(d) /\ chan'[d] # "absent"
  BY AnswerStep
<1>2. \A d \in Conns : chan[d] # "absent" => chan'[d] # "absent"
  BY ChannelStays
<1>3. Asks(c) => conn[c] \in {"creating", "joining", "ended"}
  BY AskerWaits
<1>4. conn'[c] \in {"requesting", "waiting", "playing"} =>
        \/ conn[c] \in {"requesting", "waiting", "playing"}
        \/ conn[c] = "joining" /\ answer[c] \notin {Pending, Dropped} /\ answer' = answer
  BY PlayerStep
<1>5. CASE answer'[c] = answer[c]
  BY <1>2, <1>4, <1>5 DEF Watching
<1>6. CASE Asks(c) /\ conn' = conn /\ answer'[c] # answer[c]
  BY <1>1, <1>3, <1>6
<1> QED
  BY <1>1, <1>5, <1>6

\* A connection's request stays in the queue of the running manager until it is answered.
LEMMA OwedReplyStep ==
  ASSUME TypeOK, Phases, Asked, Mapped, [Next]_vars, NEW c \in Conns, OwedReply(c)
  PROVE  OwedReply(c)'
<1> USE DEF connVars, managerVars, channelVars, Become, OwedReply
<1>0. /\ conn \in [Conns -> ConnState] /\ answer \in [Conns -> Reply]
      /\ requests \in Seq(Request)
  BY DEF TypeOK
<1>1. ASSUME manager' = manager, answer' = answer,
             conn'[c] \in {"creating", "joining"} => conn[c] \in {"creating", "joining"},
             manager = "running" /\ Asks(c) => Asks(c)'
      PROVE  OwedReply(c)'
  BY <1>1 DEF Pending
<1>2. ASSUME requests' = requests PROVE Asks(c) => Asks(c)'
  BY <1>2 DEF Asks
<1>3. ASSUME NEW e \in Conns, NEW n \in Names, ConnectPublisher(e, n) \/ ConnectPlayer(e, n)
      PROVE  OwedReply(c)'
  <2>1. CASE manager = "panicked"
    BY <1>0, <1>1, <1>2, <1>3, <2>1 DEF ConnectPublisher, ConnectPlayer
  <2>2. CASE manager # "panicked"
    <3>1. PICK r \in Request :
            requests' = Append(requests, r) /\ r.type # "Release" /\ r.by = e
      <4>1. /\ CreateReq(e, n) \in Request /\ JoinReq(e, n) \in Request
            /\ CreateReq(e, n).type # "Release" /\ CreateReq(e, n).by = e
            /\ JoinReq(e, n).type # "Release" /\ JoinReq(e, n).by = e
        BY DEF CreateReq, JoinReq, Request
      <4> QED
        BY <1>3, <2>2, <4>1 DEF ConnectPublisher, ConnectPlayer, Ask
    <3>2. Asks(c)' <=> Asks(c) \/ e = c
      BY <1>0, <3>1, AsksAppend
    <3>3. /\ manager' = manager /\ manager = "running" /\ answer' = answer
          /\ e # c => conn'[c] = conn[c]
      BY <1>0, <1>3, <2>2 DEF ConnectPublisher, ConnectPlayer
    <3> QED
      BY <1>1, <3>2, <3>3
  <2> QED
    BY <2>1, <2>2
<1>4. ASSUME NEW e \in Conns,
             \/ PublishPacket(e) \/ PublisherGone(e) \/ PlayerGone(e)
             \/ PeerCloses(e) \/ SecondPasses(e)
      PROVE  OwedReply(c)'
  BY <1>0, <1>1, <1>2, <1>4
     DEF PublishPacket, PublisherGone, PlayerGone, PeerCloses, SecondPasses
<1>5. ASSUME NEW e \in Conns,
             \/ CreateAnswered(e) \/ JoinAnswered(e) \/ RequestInit(e) \/ InitAnswered(e)
             \/ Receive(e) \/ Closed(e)
      PROVE  OwedReply(c)'
  <2>1. conn'[c] = conn[c] \/ conn'[c] \notin {"creating", "joining"}
    BY <1>0, <1>5 DEF CreateAnswered, JoinAnswered, RequestInit, InitAnswered, Receive, Closed
  <2>2. manager' = manager /\ answer' = answer /\ requests' = requests
    BY <1>5 DEF CreateAnswered, JoinAnswered, RequestInit, InitAnswered, Receive, Closed
  <2> QED
    BY <1>1, <1>2, <2>1, <2>2
<1>6. ASSUME NEW e \in Conns, SendRelease(e) PROVE OwedReply(c)'
  <2>1. ReleaseReq(e, app[e]) \in Request
    BY <1>6 DEF SendRelease, ReleaseReq, Request, Phases
  <2>2. Asks(c) => Asks(c)'
    BY <1>0, <1>2, <1>6, <2>1, AsksAppend DEF SendRelease, Ask
  <2> QED
    BY <1>0, <1>1, <1>6, <2>2 DEF SendRelease
<1>7. ASSUME NEW e \in Conns, Channel(e) PROVE OwedReply(c)'
  BY <1>1, <1>2, <1>7 DEF Channel, ChannelStart, ChannelHandle, PanicInHeartbeat, ChannelExit
<1>8. CASE HandleCreate \/ HandleJoin \/ HandleRelease
  <2>1. /\ requests # <<>> /\ requests' = Tail(requests) /\ manager' = manager /\ conn' = conn
    BY <1>8 DEF HandleCreate, HandleJoin, HandleRelease, Take
  <2>2. CASE Head(requests).type = "Release" \/ Head(requests).by # c
    <3>1. Asks(c) => Asks(c)'
      BY <1>0, <2>1, <2>2, AsksTail
    <3>2. answer'[c] = answer[c]
      BY <1>0, <1>8, <2>1, <2>2, HeadRequest DEF HandleCreate, HandleJoin, HandleRelease, Take
    <3> QED
      BY <2>1, <3>1, <3>2 DEF Pending
  <2>3. CASE Head(requests).type # "Release" /\ Head(requests).by = c
    <3>1. HandleCreate \/ HandleJoin
      BY <1>8, <2>3 DEF HandleRelease, Take
    <3>2. \E d : answer'[c] \in {Dropped, Handle(d)}
      BY <1>0, <2>3, <3>1 DEF HandleCreate, HandleJoin
    <3>3. answer'[c] # Pending
      BY <3>2, Replies
    <3> QED
      BY <3>3 DEF Pending
  <2> QED
    BY <2>2, <2>3
<1>9. CASE PanicInCreate
  <2>1. conn' = conn /\ manager = "running" /\ answer'[c] = IF Asks(c) THEN Dropped ELSE answer[c]
    BY <1>9 DEF PanicInCreate, Take, Asks
  <2>2. answer'[c] = Pending => ~Asks(c) /\ answer[c] = Pending
    BY <2>1, Replies
  <2> QED
    BY <2>1, <2>2 DEF Pending
<1>10. CASE UNCHANGED vars
  BY <1>1, <1>2, <1>10 DEF vars
<1> QED
  BY <1>3, <1>4, <1>5, <1>6, <1>7, <1>8, <1>9, <1>10
     DEF Next, Environment, Manager, Connection

\* A connection comes to wait by asking for the cached packets.
LEMMA WaitStep ==
  ASSUME TypeOK, [Next]_vars, NEW c \in Conns, conn'[c] = "waiting"
  PROVE  conn[c] = "waiting" \/ RequestInit(c)
<1> USE DEF connVars, managerVars, channelVars, Become
<1>0. conn \in [Conns -> ConnState]
  BY DEF TypeOK
<1>1. ASSUME NEW e \in Conns, NEW n \in Names, ConnectPublisher(e, n) \/ ConnectPlayer(e, n)
      PROVE  conn[c] = "waiting"
  BY <1>0, <1>1 DEF ConnectPublisher, ConnectPlayer
<1>2. ASSUME NEW e \in Conns,
             \/ PublishPacket(e) \/ PublisherGone(e) \/ PlayerGone(e)
             \/ PeerCloses(e) \/ SecondPasses(e)
      PROVE  conn[c] = "waiting"
  BY <1>0, <1>2 DEF PublishPacket, PublisherGone, PlayerGone, PeerCloses, SecondPasses
<1>3. ASSUME NEW e \in Conns,
             \/ CreateAnswered(e) \/ SendRelease(e) \/ JoinAnswered(e) \/ InitAnswered(e)
             \/ Receive(e) \/ Closed(e)
      PROVE  conn[c] = "waiting"
  BY <1>0, <1>3 DEF CreateAnswered, SendRelease, JoinAnswered, InitAnswered, Receive, Closed
<1>4. ASSUME NEW e \in Conns, RequestInit(e), e # c PROVE conn[c] = "waiting"
  BY <1>0, <1>4 DEF RequestInit
<1>5. ASSUME NEW e \in Conns, Channel(e) PROVE conn[c] = "waiting"
  BY <1>5 DEF Channel, ChannelStart, ChannelHandle, PanicInHeartbeat, ChannelExit
<1>6. CASE Manager
  BY <1>6 DEF Manager, HandleCreate, PanicInCreate, HandleJoin, HandleRelease
<1> QED
  BY <1>1, <1>2, <1>3, <1>4, <1>5, <1>6 DEF vars, Next, Environment, Connection

\* The steps that leave the replies to InitData and the life of the channels alone.
LEMMA RepliesAlone ==
  ASSUME TypeOK, Asked, [Next]_vars,
         \A e \in Conns : ~(ChannelHandle(e) \/ PanicInHeartbeat(e) \/ ChannelExit(e))
  PROVE  /\ initReply' = initReply
         /\ \A d \in Conns : Alive(d) => Alive(d)'
<1> USE DEF connVars, managerVars, channelVars
<1>0. chan \in [Conns -> ChanState]
  BY DEF TypeOK
<1>1. ASSUME NEW e \in Conns, NEW n \in Names, ConnectPublisher(e, n) \/ ConnectPlayer(e, n)
      PROVE  initReply' = initReply /\ chan' = chan
  BY <1>1 DEF ConnectPublisher, ConnectPlayer
<1>2. ASSUME NEW e \in Conns,
             \/ PublishPacket(e) \/ PublisherGone(e) \/ PlayerGone(e)
             \/ PeerCloses(e) \/ SecondPasses(e)
      PROVE  initReply' = initReply /\ chan' = chan
  BY <1>2 DEF PublishPacket, PublisherGone, PlayerGone, PeerCloses, SecondPasses
<1>3. ASSUME NEW e \in Conns, Connection(e) PROVE initReply' = initReply /\ chan' = chan
  BY <1>3 DEF Connection, CreateAnswered, SendRelease, JoinAnswered, RequestInit,
              InitAnswered, Receive, Closed
<1>4. ASSUME NEW e \in Conns, ChannelStart(e)
      PROVE  initReply' = initReply /\ \A d \in Conns : Alive(d) => Alive(d)'
  BY <1>0, <1>4 DEF ChannelStart, Alive
<1>5. CASE HandleCreate
  BY <1>0, <1>5, CreateFresh DEF HandleCreate, Alive
<1>6. ASSUME PanicInCreate \/ HandleJoin \/ HandleRelease
      PROVE  initReply' = initReply /\ chan' = chan
  BY <1>6 DEF PanicInCreate, HandleJoin, HandleRelease
<1>7. ASSUME chan' = chan PROVE \A d \in Conns : Alive(d) => Alive(d)'
  BY <1>7 DEF Alive
<1>8. CASE UNCHANGED vars
  BY <1>7, <1>8 DEF vars
<1> QED
  BY <1>1, <1>2, <1>3, <1>4, <1>5, <1>6, <1>7, <1>8 DEF Next, Environment, Manager, Channel

\* The steps that leave an InitData where it is queued.
LEMMA InboxAlone ==
  ASSUME TypeOK, [Next]_vars,
         \A e \in Conns : ~(ChannelHandle(e) \/ PanicInHeartbeat(e) \/ ChannelExit(e)),
         NEW d \in Conns, NEW m \in Message, Queued(d, m)
  PROVE  Queued(d, m)'
<1> USE DEF connVars, managerVars, channelVars
<1>0. inbox \in [Conns -> Seq(Message)]
  BY DEF TypeOK
<1>1. ASSUME inbox' = inbox PROVE Queued(d, m)'
  BY <1>1 DEF Queued
<1>2. ASSUME NEW e \in Conns, NEW x \in Message, Tell(e, x) PROVE Queued(d, m)'
  BY <1>0, <1>2, QueuedTell
<1>3. ASSUME NEW e \in Conns, NEW n \in Names, ConnectPublisher(e, n) \/ ConnectPlayer(e, n)
      PROVE  inbox' = inbox
  BY <1>3 DEF ConnectPublisher, ConnectPlayer
<1>4. ASSUME NEW e \in Conns, PlayerGone(e) \/ PeerCloses(e) \/ SecondPasses(e)
      PROVE  inbox' = inbox
  BY <1>4 DEF PlayerGone, PeerCloses, SecondPasses
<1>5. ASSUME NEW e \in Conns,
             \/ CreateAnswered(e) \/ SendRelease(e) \/ JoinAnswered(e) \/ InitAnswered(e)
             \/ Receive(e) \/ Closed(e) \/ ChannelStart(e)
      PROVE  inbox' = inbox
  BY <1>5 DEF CreateAnswered, SendRelease, JoinAnswered, InitAnswered, Receive, Closed,
              ChannelStart
<1>6. ASSUME NEW e \in Conns, PublishPacket(e) \/ PublisherGone(e)
      PROVE  inbox' = inbox \/ Tell(e, PacketMsg) \/ Tell(e, DisconnectMsg)
  BY <1>6 DEF PublishPacket, PublisherGone
<1>7. ASSUME NEW e \in Conns, RequestInit(e)
      PROVE  inbox' = inbox \/ \E f \in Conns : Tell(f, InitDataMsg(e))
  BY <1>7 DEF RequestInit
<1>8. CASE Manager
  BY <1>1, <1>8 DEF Manager, HandleCreate, PanicInCreate, HandleJoin, HandleRelease
<1> QED
  BY <1>1, <1>2, <1>3, <1>4, <1>5, <1>6, <1>7, <1>8, MessageTypes
     DEF vars, Next, Environment, Connection, Channel

\* A channel that handles a message or ends replies to an InitData or leaves it queued.
LEMMA InitReplied ==
  ASSUME TypeOK, NEW e \in Conns,
         ChannelHandle(e) \/ PanicInHeartbeat(e) \/ ChannelExit(e),
         NEW c \in Conns, initReply'[c] = "pending"
  PROVE  /\ initReply[c] = "pending"
         /\ \A d \in Conns :
              Alive(d) /\ Queued(d, InitDataMsg(c)) => Alive(d)' /\ Queued(d, InitDataMsg(c))'
<1>0. /\ chan \in [Conns -> ChanState] /\ inbox \in [Conns -> Seq(Message)]
      /\ initReply \in [Conns -> {"pending", "dropped", "ready"}]
  BY DEF TypeOK
<1>1. CASE ChannelHandle(e)
  <2>1. /\ inbox[e] # <<>> /\ inbox' = [inbox EXCEPT ![e] = Tail(@)]
        /\ Head(inbox[e]) \in Message
    BY <1>0, <1>1, HeadMessage DEF ChannelHandle
  <2>2. Head(inbox[e]) # InitDataMsg(c) /\ initReply[c] = "pending"
    BY <1>0, <1>1 DEF ChannelHandle, Effect, InitDataMsg
  <2>3. \A d \in Conns : Alive(d) => Alive(d)'
    BY <1>0, <1>1 DEF ChannelHandle, Effect, Alive
  <2>4. \A d \in Conns : Queued(d, InitDataMsg(c)) => Queued(d, InitDataMsg(c))'
    BY <1>0, <2>1, <2>2, QueuedTail
  <2> QED
    BY <2>2, <2>3, <2>4
<1>2. CASE PanicInHeartbeat(e) \/ ChannelExit(e)
  <2>1. /\ inbox' = [inbox EXCEPT ![e] = <<>>]
        /\ \A d \in Conns : d # e => chan'[d] = chan[d]
    BY <1>0, <1>2 DEF PanicInHeartbeat, DieHandling, ChannelExit, DropInbox
  <2>2. initReply[c] = "pending" /\ ~Queued(e, InitDataMsg(c))
    BY <1>2 DEF PanicInHeartbeat, DieHandling, ChannelExit, DropInbox, Queued
  <2>3. \A d \in Conns : d # e => (Queued(d, InitDataMsg(c))' <=> Queued(d, InitDataMsg(c)))
    BY <1>0, <2>1 DEF Queued, InitDataMsg
  <2> QED
    BY <2>1, <2>2, <2>3 DEF Alive
<1> QED
  BY <1>1, <1>2

\* A player's InitData stays in the queue of a channel that lives until it is answered.
LEMMA OwedInitStep ==
  ASSUME TypeOK, Phases, Asked, Mapped, [Next]_vars, NEW c \in Conns, OwedInit(c)
  PROVE  OwedInit(c)'
<1> DEFINE m == InitDataMsg(c)
<1> SUFFICES ASSUME conn'[c] = "waiting", initReply'[c] = "pending"
             PROVE  \E d \in Conns : answer'[c] = Handle(d) /\ Alive(d)' /\ Queued(d, m)'
  BY DEF OwedInit, Handle
<1>1. m \in Message
  BY MessageTypes
<1>2. CASE RequestInit(c)
  <2>1. PICK d \in Conns :
          /\ answer[c] = Handle(d)
          /\ (Alive(d) /\ Tell(d, m)) \/ Become(c, "ended")
    BY <1>2 DEF RequestInit
  <2>2. Alive(d) /\ Tell(d, m) /\ answer' = answer /\ chan' = chan
    BY <1>2, <2>1 DEF RequestInit, Become, TypeOK
  <2>3. Queued(d, m)'
    BY <1>1, <2>2, QueuedTell DEF TypeOK
  <2> QED
    BY <2>1, <2>2, <2>3 DEF Alive
<1>3. CASE ~RequestInit(c)
  <2>1. conn[c] = "waiting"
    BY <1>3, WaitStep
  <2>2. answer'[c] = answer[c]
    BY <2>1, AnswerStep, AskerWaits
  <2>3. /\ initReply[c] = "pending"
        /\ \A d \in Conns : Alive(d) /\ Queued(d, m) => Alive(d)' /\ Queued(d, m)'
    <3>1. CASE \E e \in Conns : ChannelHandle(e) \/ PanicInHeartbeat(e) \/ ChannelExit(e)
      BY <3>1, InitReplied
    <3>2. CASE ~\E e \in Conns : ChannelHandle(e) \/ PanicInHeartbeat(e) \/ ChannelExit(e)
      BY <1>1, <3>2, RepliesAlone, InboxAlone
    <3> QED
      BY <3>1, <3>2
  <2> QED
    BY <2>1, <2>2, <2>3 DEF OwedInit
<1> QED
  BY <1>2, <1>3

(***************************************************************************)
(* Theorems.                                                               *)
(***************************************************************************)

\* The invariant of an origin with or without a register ...
Inv == TypeOK /\ Phases /\ Asked /\ Mapped /\ NoOrphanChannel

\* ... and with one.
RegisterInv == EndedByPublisher /\ EntryOwed /\ SocketHeld /\ SnapshotExact

\* Initially nobody is there.
LEMMA InitInv ==
  ASSUME Init
  PROVE  Inv /\ RegisterInv
<1>1. TypeOK
  <2>1. <<>> \in Seq(Request) /\ <<>> \in Seq(Message)
    OBVIOUS
  <2> QED
    BY <2>1, BoundsAssumption
       DEF Init, TypeOK, ConnState, ChanState, Reply, Pending
<1>2. Phases /\ Asked
  BY DEF Init, Phases, Asked
<1>3. Mapped /\ EntryOwed
  BY NoneAssumption DEF Init, Mapped, EntryOwed
<1>4. NoOrphanChannel /\ EndedByPublisher
  BY DEF Init, NoOrphanChannel, EndedByPublisher, Queued
<1>5. SocketHeld /\ SnapshotExact
  BY NoneAssumption DEF Init, SocketHeld, SnapshotExact, Alive
<1> QED
  BY <1>1, <1>2, <1>3, <1>4, <1>5 DEF Inv, RegisterInv

\* The invariant holds, whether or not there is a register.
THEOREM Invariant == Spec => []Inv
<1>1. Init => Inv
  BY InitInv
<1>2. Inv /\ [Next]_vars => Inv'
  BY TypeStep, PhasesStep, AskedStep, MappedStep, OrphanStep DEF Inv
<1> QED
  BY <1>1, <1>2, PTL DEF Spec

\* Every variable stays in its type.
THEOREM TypeCorrect == Spec => []TypeOK
BY Invariant, PTL DEF Inv

\* No channel is left running with nobody to end it: the Disconnect that
\* conn.rs sends before it releases the name is in its queue.
THEOREM NoOrphan == Spec => []NoOrphanChannel
BY Invariant, PTL DEF Inv

\* With a register, the rest of the invariant holds too.
THEOREM InvariantWithRegister ==
  ASSUME WithRegister
  PROVE  Spec => [](Inv /\ RegisterInv)
<1>1. Init => Inv /\ RegisterInv
  BY InitInv
<1>2. Inv /\ RegisterInv /\ [Next]_vars => (Inv /\ RegisterInv)'
  <2> SUFFICES ASSUME Inv, RegisterInv, [Next]_vars PROVE Inv' /\ RegisterInv'
    BY DEF Inv, RegisterInv
  <2>1. Inv'
    BY TypeStep, PhasesStep, AskedStep, MappedStep, OrphanStep DEF Inv
  <2>2. EndedByPublisher' /\ EntryOwed'
    BY EndedStep, EntryStep DEF Inv, RegisterInv
  <2>3. SocketHeld' /\ SnapshotExact'
    BY SocketStep, SnapshotStep DEF Inv, RegisterInv
  <2> QED
    BY <2>1, <2>2, <2>3 DEF RegisterInv
<1> QED
  BY <1>1, <1>2, PTL DEF Spec

\* With a register, the manager's map never keeps an entry whose channel is
\* dead without a Release for its name on the way.
THEOREM NoPoisoned ==
  ASSUME WithRegister
  PROVE  Spec => []NoPoisonedEntry
<1>1. RegisterInv => NoPoisonedEntry
  BY DEF RegisterInv, EntryOwed, EndedByPublisher, NoPoisonedEntry
<1> QED
  BY <1>1, InvariantWithRegister, PTL

\* The register, told by every channel on the one socket there is, holds just
\* the names that run: manager.rs's bind keeps two channels from overlapping.
THEOREM SnapshotCorrect ==
  ASSUME WithRegister
  PROVE  Spec => []SnapshotExact
BY InvariantWithRegister, PTL DEF RegisterInv

\* With a register, a publisher that is there has a channel that takes its
\* packets: only its own Disconnect ends it.
THEOREM Heard ==
  ASSUME WithRegister
  PROVE  Spec => []PublisherHeard
<1>1. Inv /\ RegisterInv => PublisherHeard
  BY DEF Inv, RegisterInv, TypeOK, ChanState, Phases, EndedByPublisher, PublisherHeard
<1> QED
  BY <1>1, InvariantWithRegister, PTL

(***************************************************************************)
(* What is owed, and what is left when the tasks have done what they can.  *)
(***************************************************************************)

\* The invariant of what is owed.
Owed == Watching /\ NobodyForgotten

\* It holds with the invariant of the node, with or without a register.
THEOREM InvariantOwed == Spec => [](Inv /\ Owed)
<1>1. Init => Inv /\ Owed
  <2>1. Init => Owed
    BY DEF Init, Owed, Watching, NobodyForgotten
  <2> QED
    BY <2>1, InitInv
<1>2. Inv /\ Owed /\ [Next]_vars => (Inv /\ Owed)'
  <2> SUFFICES ASSUME Inv, Owed, [Next]_vars PROVE Inv' /\ Owed'
    BY DEF Inv, Owed
  <2>1. Inv'
    BY TypeStep, PhasesStep, AskedStep, MappedStep, OrphanStep DEF Inv
  <2>2. Watching'
    BY WatchingStep DEF Inv, Owed
  <2>3. \A c \in Conns : OwedReply(c) /\ OwedInit(c)
    BY DEF Owed, NobodyForgotten, OwedReply, OwedInit
  <2>4. \A c \in Conns : OwedReply(c)' /\ OwedInit(c)'
    BY <2>3, OwedReplyStep, OwedInitStep DEF Inv
  <2>5. NobodyForgotten'
    BY <2>4 DEF NobodyForgotten, OwedReply, OwedInit
  <2> QED
    BY <2>1, <2>2, <2>5 DEF Owed
<1> QED
  BY <1>1, <1>2, PTL DEF Spec

\* Whoever waits for a reply of the manager or of a channel is in the queue of a task that
\* is there to give it: a oneshot of conn.rs is answered or dropped, never lost.
THEOREM Remembered == Spec => []NobodyForgotten
BY InvariantOwed, PTL DEF Owed

\* At rest nobody waits and nobody is about to say something ...
LEMMA RestNobodyWaits ==
  ASSUME Inv, Owed, AtRest, NEW c \in Conns
  PROVE  conn[c] \in {"new", "publishing", "playing", "draining", "ended"}
<1>1. conn[c] \in ConnState /\ conn[c] \notin {"releasing", "requesting"}
  BY DEF Inv, TypeOK, AtRest
<1>2. conn[c] \notin {"creating", "joining"}
  <2> SUFFICES ASSUME conn[c] \in {"creating", "joining"} PROVE FALSE
    OBVIOUS
  <2>1. manager = "running" /\ Asks(c)
    BY DEF AtRest, Owed, NobodyForgotten
  <2>2. requests = <<>>
    BY <2>1 DEF AtRest
  <2> QED
    BY <2>1, <2>2 DEF Asks
<1>3. conn[c] # "waiting"
  <2> SUFFICES ASSUME conn[c] = "waiting" PROVE FALSE
    OBVIOUS
  <2>1. PICK d \in Conns : Alive(d) /\ Queued(d, InitDataMsg(c))
    BY DEF AtRest, Owed, NobodyForgotten
  <2>2. inbox[d] = <<>>
    BY <2>1 DEF AtRest, Alive
  <2> QED
    BY <2>1, <2>2 DEF Queued
<1> QED
  BY <1>1, <1>2, <1>3 DEF ConnState

\* ... a channel that runs has its publisher ...
LEMMA RestChannels ==
  ASSUME Inv, Owed, AtRest, NEW d \in Conns, Alive(d)
  PROVE  conn[d] = "publishing"
<1>1. chan[d] = "running" /\ inbox[d] = <<>>
  BY DEF AtRest, Alive
<1>2. ~Queued(d, DisconnectMsg)
  BY <1>1 DEF Queued
<1> QED
  BY <1>1, <1>2, RestNobodyWaits DEF Inv, NoOrphanChannel

\* ... and the map leads to such a channel, with a register.
LEMMA RestEntries ==
  ASSUME Inv, Owed, EntryOwed, AtRest, NEW n \in Names, NEW d \in Conns, channels[n] = d
  PROVE  conn[d] = "publishing"
<1>1. conn[d] \notin {"creating", "releasing"}
  BY RestNobodyWaits
<1>2. manager = "running"
  BY NoneAssumption DEF Inv, TypeOK, Mapped
<1>3. requests = <<>>
  BY <1>2 DEF AtRest
<1> QED
  BY <1>1, <1>3 DEF EntryOwed, ReleaseOwed

\* When the tasks of the node have nothing left to do, nobody waits, a channel that runs
\* has its publisher, and with a register no entry of the map and no player is left to a
\* channel whose publisher is gone.
THEOREM CleanAtRest == Spec => []RestIsClean
<1>1. Inv /\ Owed /\ (WithRegister => RegisterInv) => RestIsClean
  <2> SUFFICES ASSUME Inv, Owed, WithRegister => RegisterInv, AtRest
               PROVE  /\ \A c \in Conns :
                           conn[c] \in {"new", "publishing", "playing", "draining", "ended"}
                      /\ \A d \in Conns : chan[d] = "running" => conn[d] = "publishing"
                      /\ WithRegister =>
                           /\ \A n \in Names, d \in Conns :
                                channels[n] = d => conn[d] = "publishing"
                           /\ \A c \in Conns : conn[c] = "playing" =>
                                \E d \in Conns : answer[c] = Handle(d) /\ conn[d] = "publishing"
    BY DEF RestIsClean
  <2>1. \A d \in Conns : Alive(d) => conn[d] = "publishing"
    BY RestChannels
  <2>2. ASSUME WithRegister, NEW n \in Names, NEW d \in Conns, channels[n] = d
        PROVE  conn[d] = "publishing"
    BY <2>2, RestEntries DEF RegisterInv
  <2>3. ASSUME WithRegister, NEW c \in Conns, conn[c] = "playing"
        PROVE  \E d \in Conns : answer[c] = Handle(d) /\ conn[d] = "publishing"
    <3>1. PICK d \in Conns : answer[c] = Handle(d)
      BY <2>3 DEF Owed, Watching
    <3>2. ~RingClosed(d)
      BY <2>3, <3>1 DEF AtRest
    <3> QED
      BY <2>1, <2>2, <2>3, <3>1, <3>2 DEF RingClosed
  <2> QED
    BY <2>1, <2>2, <2>3, RestNobodyWaits DEF Alive
<1>2. CASE WithRegister
  BY <1>1, <1>2, InvariantOwed, InvariantWithRegister, PTL
<1>3. CASE ~WithRegister
  <2>1. Inv /\ Owed => RestIsClean
    BY <1>1, <1>3
  <2> QED
    BY <2>1, InvariantOwed, PTL
<1> QED
  BY <1>2, <1>3
=============================================================================
