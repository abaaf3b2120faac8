--------------------------- MODULE EdgeNodeProofs ---------------------------
(***************************************************************************)
(* Theorems about EdgeNode, for any connections, names, faults and bounds. *)
(***************************************************************************)
EXTENDS EdgeNode, TLAPS, SequenceTheorems

(***************************************************************************)
(* The inductive invariant.                                                *)
(***************************************************************************)
Queued(d, m) == \E i \in 1 .. Len(inbox[d]) : inbox[d][i] = m

Once(d, m) == \A i, j \in 1 .. Len(inbox[d]) : inbox[d][i] = m /\ inbox[d][j] = m => i = j

Requested(r) == \E i \in 1 .. Len(requests) : requests[i] = r

\* What a connection does fits its kind; a publisher has no reader, and a player
\* has one just when it has a channel.
Phases ==
  \A c \in Conns :
    /\ conn[c] = "new" => kind[c] = "unknown" /\ answer[c] = Pending /\ chan[c] = "absent"
    /\ conn[c] # "new" => kind[c] # "unknown" /\ app[c] \in Names
    /\ conn[c] \in {"creating", "publishing", "releasing", "vanished"} => kind[c] = "publisher"
    /\ conn[c] \in {"joining", "requesting", "waiting", "playing"} => kind[c] # "publisher"
    /\ IF kind[c] = "publisher"
       THEN /\ reader[c] = "absent"
            /\ chan[c] = "absent" => conn[c] = "creating" /\ answer[c] = Pending
       ELSE reader[c] = "absent" <=> chan[c] = "absent"

\* What is in the manager's queue, but for a request whose handler is about to
\* return.
Fits(r) ==
  /\ r.name = app[r.by]
  /\ r.type = "Create" => conn[r.by] = "creating" /\ chan[r.by] = "absent"
  /\ r.type = "Join" =>
       /\ conn[r.by] \in {"joining", "ended"} /\ kind[r.by] # "publisher"
       /\ chan[r.by] = "absent" /\ answer[r.by] = Pending
  /\ r.type = "Release" =>
       \/ kind[r.by] = "publisher" /\ conn[r.by] = "ended"
       \/ reader[r.by] = "ended"

Asked ==
  /\ \A i \in 1 .. Len(requests) : (i = 1 /\ step = "returning") \/ Fits(requests[i])
  /\ \A i, j \in 1 .. Len(requests) : i < j => requests[i] # requests[j]

\* The request that is handled is the first.
Waiting ==
  /\ step # "idle" => requests # <<>>
  /\ step = "pulling" => Head(requests).type = "Join"
  /\ step = "returning" =>
       Head(requests).type \in {"Create", "Join"} /\ chan[Head(requests).by] # "absent"

\* Whoever made the entry of a name is there still, or its Release is on its way.
Kept(d) ==
  \/ kind[d] = "publisher" /\ conn[d] \in {"creating", "publishing", "vanished", "releasing"}
  \/ reader[d] \in {"reading", "lost", "releasing"}
  \/ Requested(ReleaseReq(d, app[d]))

Mapped ==
  \A n \in Names, d \in Conns :
    channels[n] = d => app[d] = n /\ chan[d] # "absent" /\ Kept(d)

\* Only its publisher or its reader tells a channel to end, and then leaves.
Left(d) ==
  \/ kind[d] = "publisher" /\ conn[d] \in {"releasing", "ended"}
  \/ reader[d] \in {"releasing", "ended"}

EndedByOwner ==
  \A d \in Conns : chan[d] \in {"closing", "dead"} \/ Queued(d, DisconnectMsg) => Left(d)

\* An InitData is sent once, to one channel; an RTMP player waits for its reply.
Inits ==
  \A c \in Conns :
    /\ conn[c] \in {"new", "joining", "requesting"} => initReply[c] = "pending"
    /\ \A d \in Conns :
         Queued(d, InitDataMsg(c)) =>
           /\ answer[c] = Local(d) /\ conn[c] \in {"waiting", "playing", "ended"}
           /\ Once(d, InitDataMsg(c))
           /\ kind[c] # "http" => conn[c] = "waiting" /\ initReply[c] = "pending"

Inv ==
  /\ TypeOK /\ Phases /\ Asked /\ Waiting /\ Mapped /\ EndedByOwner /\ NoOrphanChannel
  /\ Inits

(***************************************************************************)
(* Type correctness.                                                       *)
(***************************************************************************)

\* Sending a message to a channel keeps the types of the queues.
LEMMA TellType ==
  ASSUME inbox \in [Conns -> Seq(Message)], NEW d \in Conns, NEW m \in Message,
         Tell(d, m)
  PROVE  inbox' \in [Conns -> Seq(Message)]
<1>1. Append(inbox[d], m) \in Seq(Message)
  OBVIOUS
<1> QED
  BY <1>1 DEF Tell

\* What the manager takes, and what it leaves.
LEMMA HeadRequest ==
  ASSUME requests \in Seq(Request), requests # <<>>
  PROVE  /\ Head(requests) \in Request
         /\ Head(requests).by \in Conns /\ Head(requests).name \in Names
         /\ Head(requests) = requests[1] /\ 1 \in 1 .. Len(requests)
         /\ Tail(requests) \in Seq(Request)
<1>1. /\ Head(requests) \in Request /\ Tail(requests) \in Seq(Request)
      /\ Head(requests) = requests[1] /\ 1 \in 1 .. Len(requests)
  OBVIOUS
<1> QED
  BY <1>1 DEF Request

\* What a channel takes, and what it leaves.
LEMMA HeadMessage ==
  ASSUME inbox \in [Conns -> Seq(Message)], NEW d \in Conns, inbox[d] # <<>>
  PROVE  Head(inbox[d]) \in Message /\ Tail(inbox[d]) \in Seq(Message)
<1>1. inbox[d] \in Seq(Message)
  OBVIOUS
<1> QED
  BY <1>1

\* Each kind of message has its type.
LEMMA MessageTypes ==
  ASSUME NEW m \in Message
  PROVE  /\ m.type = "Disconnect" <=> m = DisconnectMsg
         /\ m.type = "Packet" <=> m = PacketMsg
         /\ m.type = "InitData" => m.by \in Conns /\ m = InitDataMsg(m.by)
BY DEF Message, PacketMsg, OriginMsg, DisconnectMsg, InitDataMsg

\* The messages that are told are messages.
LEMMA Messages ==
  /\ PacketMsg \in Message /\ OriginMsg \in Message /\ DisconnectMsg \in Message
  /\ PacketMsg # DisconnectMsg /\ OriginMsg # DisconnectMsg
  /\ \A c \in Conns :
       /\ InitDataMsg(c) \in Message /\ InitDataMsg(c) # DisconnectMsg
       /\ InitDataMsg(c) # PacketMsg /\ InitDataMsg(c) # OriginMsg
       /\ \A d \in Conns : InitDataMsg(c) = InitDataMsg(d) => c = d
BY DEF Message, PacketMsg, OriginMsg, DisconnectMsg, InitDataMsg

\* Taking a message keeps the types ...
LEMMA DropHeadType ==
  ASSUME inbox \in [Conns -> Seq(Message)], NEW d \in Conns, inbox[d] # <<>>, DropHead(d)
  PROVE  inbox' \in [Conns -> Seq(Message)]
<1>1. Tail(inbox[d]) \in Seq(Message)
  BY HeadMessage
<1> QED
  BY <1>1 DEF DropHead

\* ... and so does dropping a queue.
LEMMA DropsType ==
  ASSUME TypeOK, NEW d \in Conns, Drops(d)
  PROVE  /\ inbox' \in [Conns -> Seq(Message)]
         /\ initReply' \in [Conns -> {"pending", "dropped", "ready"}]
<1>1. <<>> \in Seq(Message)
  OBVIOUS
<1>2. inbox' \in [Conns -> Seq(Message)]
  BY <1>1 DEF Drops, TypeOK
<1> QED
  BY <1>2 DEF Drops, TypeOK

\* The Join that the manager takes, or waits for the upstream with.
LEMMA InHand ==
  ASSUME TypeOK, Asked, Waiting, step = "pulling" \/ Take("Join")
  PROVE  /\ requests # <<>> /\ Head(requests).type = "Join"
         /\ Fits(Head(requests)) /\ step # "returning"
         /\ conn[Head(requests).by] \in {"joining", "ended"}
         /\ kind[Head(requests).by] # "publisher"
         /\ chan[Head(requests).by] = "absent"
         /\ answer[Head(requests).by] = Pending
         /\ Head(requests).name = app[Head(requests).by]
<1>1. requests # <<>> /\ Head(requests).type = "Join" /\ step # "returning"
  BY DEF Waiting, Take
<1>2. Fits(Head(requests))
  BY <1>1, HeadRequest DEF TypeOK, Asked
<1> QED
  BY <1>1, <1>2 DEF Fits

\* The Create that it takes.
LEMMA Created ==
  ASSUME TypeOK, Asked, Take("Create")
  PROVE  /\ requests # <<>> /\ Head(requests).type = "Create"
         /\ Fits(Head(requests)) /\ step # "returning"
         /\ conn[Head(requests).by] = "creating"
         /\ chan[Head(requests).by] = "absent"
         /\ Head(requests).name = app[Head(requests).by]
<1>1. requests # <<>> /\ Head(requests).type = "Create" /\ step # "returning"
  BY DEF Take
<1>2. Fits(Head(requests))
  BY <1>1, HeadRequest DEF TypeOK, Asked
<1> QED
  BY <1>1, <1>2 DEF Fits

\* Every step keeps the types.
LEMMA TypeStep ==
  ASSUME TypeOK, Phases, Asked, Waiting, [Next]_vars
  PROVE  TypeOK'
<1> USE BoundsAssumption DEF connVars, managerVars, channelVars, Become, Ask, Turn
<1>1. ASSUME NEW c \in Conns, NEW n \in Names, Publish(c, n) PROVE TypeOK'
  <2>1. CreateReq(c, n) \in Request
    BY DEF CreateReq, Request
  <2>2. requests' \in Seq(Request)
    BY <1>1, <2>1 DEF Publish, TypeOK
  <2> QED
    BY <1>1, <2>2 DEF Publish, TypeOK, ConnState
<1>2. ASSUME NEW c \in Conns, CreateAnswered(c) PROVE TypeOK'
  BY <1>2 DEF CreateAnswered, TypeOK, ConnState
<1>3. ASSUME NEW c \in Conns, PublishPacket(c) PROVE TypeOK'
  <2>1. inbox' \in [Conns -> Seq(Message)]
    BY <1>3, Messages, TellType DEF PublishPacket, TypeOK
  <2>2. conn' \in [Conns -> ConnState]
    BY <1>3, ZenonT(40) DEF PublishPacket, TypeOK, ConnState
  <2>3. carried' \in [Conns -> 0 .. MaxPackets]
    BY <1>3 DEF PublishPacket, TypeOK
  <2> QED
    BY <1>3, <2>1, <2>2, <2>3 DEF PublishPacket, TypeOK
<1>4. ASSUME NEW c \in Conns, PublisherGone(c) PROVE TypeOK'
  <2>1. inbox' \in [Conns -> Seq(Message)]
    BY <1>4, Messages, TellType DEF PublisherGone, TypeOK
  <2>2. conn' \in [Conns -> ConnState]
    BY <1>4, ZenonT(40) DEF PublisherGone, TypeOK, ConnState
  <2> QED
    BY <1>4, <2>1, <2>2 DEF PublisherGone, TypeOK
<1>5. ASSUME NEW c \in Conns, SendRelease(c) PROVE TypeOK'
  <2>1. ReleaseReq(c, app[c]) \in Request
    BY <1>5 DEF SendRelease, ReleaseReq, Request, Phases
  <2>2. requests' \in Seq(Request)
    BY <1>5, <2>1 DEF SendRelease, TypeOK
  <2> QED
    BY <1>5, <2>2 DEF SendRelease, TypeOK, ConnState
<1>6. ASSUME NEW c \in Conns, Vanish(c) PROVE TypeOK'
  BY <1>6 DEF Vanish, TypeOK, ConnState
<1>7. ASSUME NEW c \in Conns, NEW n \in Names, NEW k \in Kinds, Watch(c, n, k) PROVE TypeOK'
  <2>1. JoinReq(c, n) \in Request
    BY DEF JoinReq, Request
  <2>2. requests' \in Seq(Request)
    BY <1>7, <2>1 DEF Watch, TypeOK
  <2> QED
    BY <1>7, <2>2 DEF Watch, TypeOK, ConnState
<1>8. ASSUME NEW c \in Conns, JoinAnswered(c) PROVE TypeOK'
  <2>1. answer[c].status \in {"dropped", "local", "origin"}
    BY <1>8 DEF JoinAnswered, TypeOK, Reply, Pending, Dropped, Local, Origin
  <2> QED
    BY <1>8, <2>1 DEF JoinAnswered, TypeOK, ConnState
<1>9. ASSUME NEW c \in Conns, RequestInit(c) PROVE TypeOK'
  <2>1. inbox' \in [Conns -> Seq(Message)]
    BY <1>9, Messages, TellType DEF RequestInit, TypeOK
  <2>2. conn' \in [Conns -> ConnState]
    BY <1>9, ZenonT(40) DEF RequestInit, TypeOK, ConnState
  <2> QED
    BY <1>9, <2>1, <2>2 DEF RequestInit, TypeOK
<1>10. ASSUME NEW c \in Conns, InitAnswered(c) PROVE TypeOK'
  BY <1>10 DEF InitAnswered, TypeOK, ConnState
<1>11. ASSUME NEW c \in Conns, PlayerGone(c) PROVE TypeOK'
  BY <1>11 DEF PlayerGone, TypeOK, ConnState
<1>12. ASSUME NEW c \in Conns, Receive(c) PROVE TypeOK'
  <2>1. unread' \in [Conns -> 0 .. Capacity + 1]
    BY <1>12 DEF Receive, TypeOK
  <2>2. conn' \in [Conns -> ConnState]
    <3>1. conn \in [Conns -> ConnState] /\ "ended" \in ConnState
      BY DEF TypeOK, ConnState
    <3>2. conn' = conn \/ conn' = [conn EXCEPT ![c] = "ended"]
      BY <1>12 DEF Receive
    <3> QED
      BY <3>1, <3>2
  <2> QED
    BY <1>12, <2>1, <2>2 DEF Receive, TypeOK
<1>13. ASSUME NEW c \in Conns, Closed(c) PROVE TypeOK'
  BY <1>13 DEF Closed, TypeOK, ConnState
<1>14. ASSUME NEW d \in Conns, UpstreamPacket(d) PROVE TypeOK'
  <2>1. inbox' \in [Conns -> Seq(Message)]
    BY <1>14, Messages, TellType DEF UpstreamPacket, TypeOK
  <2>2. carried' \in [Conns -> 0 .. MaxPackets]
    BY <1>14 DEF UpstreamPacket, TypeOK
  <2>3. reader' \in [Conns -> {"absent", "reading", "releasing", "ended", "lost"}]
    BY <1>14 DEF UpstreamPacket, TypeOK
  <2> QED
    BY <1>14, <2>1, <2>2, <2>3 DEF UpstreamPacket, TypeOK
<1>15. ASSUME NEW d \in Conns, UpstreamErrors(d) PROVE TypeOK'
  <2>1. inbox' \in [Conns -> Seq(Message)]
    BY <1>15, Messages, TellType DEF UpstreamErrors, TypeOK
  <2> QED
    BY <1>15, <2>1 DEF UpstreamErrors, TypeOK
<1>16. ASSUME NEW d \in Conns, ReaderReleases(d) PROVE TypeOK'
  <2>1. ReleaseReq(d, app[d]) \in Request
    BY <1>16 DEF ReaderReleases, ReleaseReq, Request, Phases
  <2>2. requests' \in Seq(Request)
    BY <1>16, <2>1 DEF ReaderReleases, TypeOK
  <2> QED
    BY <1>16, <2>2 DEF ReaderReleases, TypeOK
<1>17. ASSUME NEW d \in Conns, UpstreamEof(d) PROVE TypeOK'
  BY <1>17 DEF UpstreamEof, TypeOK
<1>18. ASSUME NEW d \in Conns, OriginConnects(d) PROVE TypeOK'
  BY <1>18 DEF OriginConnects, TypeOK, ChanState
<1>19. ASSUME NEW d \in Conns, OriginFails(d) \/ ChannelExit(d) PROVE TypeOK'
  <2>1. /\ inbox' \in [Conns -> Seq(Message)]
        /\ initReply' \in [Conns -> {"pending", "dropped", "ready"}]
    BY <1>19, DropsType DEF OriginFails, ChannelExit
  <2> QED
    BY <1>19, <2>1 DEF OriginFails, ChannelExit, TypeOK, ChanState
<1>20. ASSUME NEW d \in Conns, HandlePacket(d) \/ HandleDisconnect(d) PROVE TypeOK'
  <2>1. inbox[d] # <<>>
    BY <1>20 DEF HandlePacket, HandleDisconnect, Handles
  <2>2. inbox' \in [Conns -> Seq(Message)]
    BY <1>20, <2>1, DropHeadType DEF HandlePacket, HandleDisconnect, TypeOK
  <2> QED
    BY <1>20, <2>2 DEF HandlePacket, HandleDisconnect, TypeOK, ChanState
<1>21. ASSUME NEW d \in Conns, BroadcastPacket(d) PROVE TypeOK'
  <2>1. unread' \in [Conns -> 0 .. Capacity + 1]
    <3>1. unread \in [Conns -> 0 .. Capacity + 1] /\ Capacity \in Nat
      BY DEF TypeOK
    <3>2. \A c \in Conns : unread[c] <= Capacity => unread[c] + 1 \in 0 .. Capacity + 1
      BY <3>1
    <3>3. \/ UNCHANGED unread
          \/ unread' = [c \in Conns |->
               IF Subscribed(c, d) /\ unread[c] <= Capacity THEN unread[c] + 1 ELSE unread[c]]
      BY <1>21 DEF BroadcastPacket
    <3> QED
      BY <3>1, <3>2, <3>3
  <2>2. /\ inbox' \in [Conns -> Seq(Message)]
        /\ initReply' \in [Conns -> {"pending", "dropped", "ready"}]
    BY <1>21, DropsType DEF BroadcastPacket, TypeOK
  <2>3. chan' \in [Conns -> ChanState]
    BY <1>21 DEF BroadcastPacket, TypeOK, ChanState
  <2> QED
    BY <1>21, <2>1, <2>2, <2>3 DEF BroadcastPacket, TypeOK
<1>22. ASSUME NEW d \in Conns, HandleInitData(d) PROVE TypeOK'
  <2>1. inbox[d] # <<>>
    BY <1>22 DEF HandleInitData, Handles
  <2>2. \/ DropHead(d) /\ initReply' = [initReply EXCEPT ![Head(inbox[d]).by] = "ready"]
        \/ Drops(d)
    BY <1>22 DEF HandleInitData
  <2>3. inbox' \in [Conns -> Seq(Message)]
    BY <2>1, <2>2, DropHeadType, DropsType DEF TypeOK
  <2>4. initReply' \in [Conns -> {"pending", "dropped", "ready"}]
    BY <2>2, DropsType DEF TypeOK
  <2>5. chan' \in [Conns -> ChanState]
    BY <1>22 DEF HandleInitData, TypeOK, ChanState
  <2> QED
    BY <1>22, <2>3, <2>4, <2>5 DEF HandleInitData, TypeOK
<1>23. CASE HandleCreate \/ Confirmed
  <2>1. requests # <<>> /\ Head(requests).by \in Conns /\ Head(requests).name \in Names
    BY <1>23, InHand, Created, HeadRequest DEF HandleCreate, Confirmed, TypeOK
  <2>2. Origin(Head(requests).by) \in Reply
    BY <2>1 DEF Reply
  <2> QED
    BY <1>23, <2>1, <2>2, ZenonT(40) DEF HandleCreate, Confirmed, RespondNew, TypeOK, ChanState
<1>24. CASE HandleLocalJoin
  <2>1. /\ Head(requests).by \in Conns /\ Head(requests).name \in Names
        /\ requests' \in Seq(Request)
    BY <1>24, HeadRequest DEF HandleLocalJoin, Take, Respond, TypeOK
  <2>2. Local(channels[Head(requests).name]) \in Reply
    BY <1>24, <2>1 DEF HandleLocalJoin, TypeOK, Reply
  <2> QED
    BY <1>24, <2>1, <2>2 DEF HandleLocalJoin, Respond, TypeOK
<1>25. CASE StartPull
  BY <1>25 DEF StartPull, TypeOK
<1>26. CASE PullFails
  <2>1. requests # <<>>
    BY <1>26, InHand DEF PullFails
  <2>2. Head(requests).by \in Conns /\ requests' \in Seq(Request)
    BY <1>26, <2>1, HeadRequest DEF PullFails, Respond, TypeOK
  <2>3. Dropped \in Reply
    BY DEF Reply
  <2> QED
    BY <1>26, <2>2, <2>3 DEF PullFails, Respond, TypeOK
<1>27. CASE HandleRelease
  <2>1. Head(requests).name \in Names /\ requests' \in Seq(Request)
    BY <1>27, HeadRequest DEF HandleRelease, Take, TypeOK
  <2> QED
    BY <1>27, <2>1 DEF HandleRelease, TypeOK
<1>28. CASE Return
  <2>1. requests' \in Seq(Request)
    BY <1>28, HeadRequest DEF Return, Waiting, TypeOK
  <2> QED
    BY <1>28, <2>1 DEF Return, TypeOK
<1>29. CASE UNCHANGED vars
  BY <1>29 DEF vars, TypeOK
<1> QED
  BY <1>1, <1>2, <1>3, <1>4, <1>5, <1>6, <1>7, <1>8, <1>9, <1>10, <1>11, <1>12,
     <1>13, <1>14, <1>15, <1>16, <1>17, <1>18, <1>19, <1>20, <1>21, <1>22, <1>23,
     <1>24, <1>25, <1>26, <1>27, <1>28, <1>29
     DEF Next, Environment, Answers, Manager, Connection, Channel

(***************************************************************************)
(* Most steps leave the manager's queue and its map as they are, and move  *)
(* connections, channels and readers only forward.                         *)
(***************************************************************************)
Quiet ==
  /\ UNCHANGED <<kind, app, answer, requests, channels>>
  /\ step' = "returning" <=> step = "returning"
  /\ \A c \in Conns :
       /\ conn'[c] # conn[c] =>
            /\ conn[c] \notin {"new", "releasing", "vanished", "ended"}
            /\ IF kind[c] = "publisher"
               THEN /\ conn'[c] \in {"publishing", "releasing", "vanished"}
                    /\ conn'[c] = "releasing" => PublisherGone(c)
                    /\ conn[c] = "creating" => answer[c] # Pending
               ELSE /\ conn'[c] \in {"requesting", "waiting", "playing", "ended"}
                    /\ conn[c] = "joining" => conn'[c] = "ended" \/ answer[c] # Pending
       /\ chan'[c] = "absent" <=> chan[c] = "absent"
       /\ reader'[c] # reader[c] => reader[c] = "reading" /\ reader'[c] \in {"releasing", "lost"}

\* Which steps are quiet, and which are not.
LEMMA Steps ==
  ASSUME TypeOK, Phases, [Next]_vars
  PROVE  \/ Quiet /\ (step' = step \/ StartPull)
         \/ \E c \in Conns, n \in Names : Publish(c, n) \/ \E k \in Kinds : Watch(c, n, k)
         \/ \E d \in Conns : SendRelease(d) \/ ReaderReleases(d)
         \/ HandleCreate \/ HandleLocalJoin \/ PullFails \/ Confirmed
         \/ HandleRelease \/ Return
<1> USE DEF connVars, managerVars, channelVars, Become, Turn
<1>0. /\ conn \in [Conns -> ConnState] /\ answer \in [Conns -> Reply]
      /\ chan \in [Conns -> ChanState]
      /\ reader \in [Conns -> {"absent", "reading", "releasing", "ended", "lost"}]
  BY DEF TypeOK
<1>1. ASSUME NEW c \in Conns,
             CreateAnswered(c) \/ PublishPacket(c) \/ PublisherGone(c) \/ Vanish(c)
      PROVE  Quiet /\ step' = step
  <2>1. conn[c] \in {"creating", "publishing"} /\ kind[c] = "publisher"
    BY <1>1 DEF CreateAnswered, PublishPacket, PublisherGone, Vanish, Phases
  <2>2. conn[c] = "creating" => answer[c] # Pending
    BY <1>1 DEF CreateAnswered, PublishPacket, PublisherGone, Vanish
  <2>3. /\ conn'[c] \in {"publishing", "releasing", "vanished"}
        /\ \A b \in Conns : b # c => conn'[b] = conn[b]
    BY <1>0, <1>1 DEF CreateAnswered, PublishPacket, PublisherGone, Vanish
  <2>4. UNCHANGED <<kind, app, answer, step, requests, channels, chan, reader>>
    BY <1>1 DEF CreateAnswered, PublishPacket, PublisherGone, Vanish
  <2>5. conn'[c] = "releasing" => PublisherGone(c)
    BY <1>0, <1>1 DEF CreateAnswered, PublishPacket, Vanish
  <2> QED
    BY <2>1, <2>2, <2>3, <2>4, <2>5 DEF Quiet
<1>2. ASSUME NEW c \in Conns, JoinAnswered(c) PROVE Quiet /\ step' = step
  <2>1. answer[c].status \in {"dropped", "local", "origin"}
    BY <1>0, <1>2 DEF JoinAnswered, Reply, Pending, Dropped, Local, Origin
  <2>2. \A b \in Conns : conn'[b] # conn[b] =>
          /\ conn[b] = "joining" /\ conn'[b] \in {"ended", "requesting", "playing"}
          /\ answer[b] # Pending /\ kind[b] # "publisher"
    BY <1>0, <1>2, <2>1 DEF JoinAnswered, Phases
  <2> QED
    BY <1>2, <2>2 DEF JoinAnswered, Quiet
<1>3. ASSUME NEW c \in Conns,
             RequestInit(c) \/ InitAnswered(c) \/ PlayerGone(c) \/ Receive(c) \/ Closed(c)
      PROVE  Quiet /\ step' = step
  <2>1. conn[c] \in {"joining", "requesting", "waiting", "playing"} /\ kind[c] # "publisher"
    BY <1>3 DEF RequestInit, InitAnswered, PlayerGone, Receive, Closed, Phases
  <2>2. /\ conn[c] = "joining" => conn'[c] = "ended"
        /\ conn'[c] \in {"waiting", "playing", "ended"}
        /\ \A b \in Conns : b # c => conn'[b] = conn[b]
    BY <1>0, <1>3 DEF RequestInit, InitAnswered, PlayerGone, Receive, Closed
  <2>3. UNCHANGED <<kind, app, answer, step, requests, channels, chan, reader>>
    BY <1>3 DEF RequestInit, InitAnswered, PlayerGone, Receive, Closed
  <2> QED
    BY <2>1, <2>2, <2>3 DEF Quiet
<1>4. ASSUME NEW d \in Conns, UpstreamPacket(d) \/ UpstreamErrors(d) \/ UpstreamEof(d)
      PROVE  Quiet /\ step' = step
  BY <1>0, <1>4 DEF UpstreamPacket, UpstreamErrors, UpstreamEof, Quiet
<1>5. ASSUME NEW d \in Conns,
             OriginConnects(d) \/ OriginFails(d) \/ HandlePacket(d) \/ BroadcastPacket(d)
             \/ HandleInitData(d) \/ HandleDisconnect(d) \/ ChannelExit(d)
      PROVE  Quiet /\ step' = step
  <2>1. UNCHANGED <<conn, kind, app, answer, step, requests, channels, reader>>
    BY <1>5 DEF OriginConnects, OriginFails, HandlePacket, BroadcastPacket, HandleInitData,
                HandleDisconnect, ChannelExit
  <2>2. /\ chan[d] # "absent" /\ chan'[d] # "absent"
        /\ \A b \in Conns : b # d => chan'[b] = chan[b]
    BY <1>0, <1>5 DEF OriginConnects, OriginFails, HandlePacket, BroadcastPacket, HandleInitData,
                HandleDisconnect, ChannelExit, Handles
  <2> QED
    BY <2>1, <2>2 DEF Quiet
<1>6. StartPull => Quiet
  BY DEF StartPull, Take, Quiet
<1>7. UNCHANGED vars => Quiet /\ step' = step
  BY DEF vars, Quiet
<1> QED
  BY <1>1, <1>2, <1>3, <1>4, <1>5, <1>6, <1>7
     DEF Next, Environment, Answers, Manager, Connection, Channel

(***************************************************************************)
(* Connections, channels and readers.                                      *)
(***************************************************************************)

\* What a connection does goes on fitting its kind.
LEMMA PhasesStep ==
  ASSUME TypeOK, Phases, Asked, Waiting, [Next]_vars
  PROVE  Phases'
<1> USE DEF connVars, managerVars, channelVars, Become, Respond, RespondNew
<1>0. /\ conn \in [Conns -> ConnState] /\ app \in [Conns -> Names \cup {None}]
      /\ kind \in [Conns -> Kinds \cup {"unknown"}]
      /\ answer \in [Conns -> Reply] /\ requests \in Seq(Request)
      /\ chan \in [Conns -> ChanState]
      /\ reader \in [Conns -> {"absent", "reading", "releasing", "ended", "lost"}]
  BY DEF TypeOK
<1>1. CASE Quiet
  BY <1>1 DEF Quiet, Phases
<1>2. ASSUME NEW c \in Conns, NEW n \in Names, Publish(c, n) PROVE Phases'
  <2>1. conn[c] = "new" /\ answer[c] = Pending /\ chan[c] = "absent" /\ reader[c] = "absent"
    BY <1>2 DEF Publish, Phases
  <2>2. /\ conn' = [conn EXCEPT ![c] = "creating"] /\ kind' = [kind EXCEPT ![c] = "publisher"]
        /\ app' = [app EXCEPT ![c] = n] /\ UNCHANGED <<answer, chan, reader>>
    BY <1>2 DEF Publish
  <2> QED
    BY <1>0, <2>1, <2>2 DEF Phases
<1>3. ASSUME NEW c \in Conns, NEW n \in Names, NEW k \in Kinds, Watch(c, n, k) PROVE Phases'
  <2>1. conn[c] = "new" /\ answer[c] = Pending /\ chan[c] = "absent" /\ reader[c] = "absent"
    BY <1>3 DEF Watch, Phases
  <2>2. /\ conn' = [conn EXCEPT ![c] = "joining"] /\ kind' = [kind EXCEPT ![c] = k]
        /\ app' = [app EXCEPT ![c] = n] /\ UNCHANGED <<answer, chan, reader>>
        /\ k # "publisher" /\ k # "unknown"
    BY <1>3, KindsAssumption DEF Watch
  <2> QED
    BY <1>0, <2>1, <2>2 DEF Phases
<1>4. ASSUME NEW d \in Conns, SendRelease(d) PROVE Phases'
  BY <1>0, <1>4 DEF SendRelease, Phases
<1>5. ASSUME NEW d \in Conns, ReaderReleases(d) PROVE Phases'
  BY <1>0, <1>5 DEF ReaderReleases, Phases
<1>6. CASE HandleCreate
  <2> PICK b \in Conns : b = Head(requests).by
    BY <1>0, <1>6, Created, HeadRequest DEF HandleCreate
  <2>1. conn[b] = "creating" /\ kind[b] = "publisher" /\ reader[b] = "absent"
    BY <1>6, Created DEF HandleCreate, Phases
  <2>2. /\ chan' = [chan EXCEPT ![b] = "starting"] /\ answer' = [answer EXCEPT ![b] = Origin(b)]
        /\ UNCHANGED <<conn, kind, app, reader>>
    BY <1>6 DEF HandleCreate
  <2> QED
    BY <1>0, <2>1, <2>2 DEF Phases
<1>7. CASE HandleLocalJoin \/ PullFails
  <2> PICK b \in Conns : b = Head(requests).by
    BY <1>0, <1>7, InHand, HeadRequest DEF HandleLocalJoin, PullFails
  <2>1. conn[b] \in {"joining", "ended"} /\ kind[b] # "publisher"
    BY <1>7, InHand DEF HandleLocalJoin, PullFails
  <2>2. /\ UNCHANGED <<conn, kind, app, chan, reader>>
        /\ \A c \in Conns : c # b => answer'[c] = answer[c]
    BY <1>0, <1>7 DEF HandleLocalJoin, PullFails
  <2> QED
    BY <2>1, <2>2 DEF Phases
<1>8. CASE Confirmed
  <2> PICK b \in Conns : b = Head(requests).by
    BY <1>0, <1>8, InHand, HeadRequest DEF Confirmed
  <2>1. conn[b] \in {"joining", "ended"} /\ kind[b] # "publisher"
    BY <1>8, InHand DEF Confirmed
  <2>2. /\ chan' = [chan EXCEPT ![b] = "running"] /\ reader' = [reader EXCEPT ![b] = "reading"]
        /\ answer' = [answer EXCEPT ![b] = Origin(b)]
        /\ UNCHANGED <<conn, kind, app>>
    BY <1>8 DEF Confirmed
  <2> QED
    BY <1>0, <2>1, <2>2 DEF Phases
<1>9. CASE HandleRelease \/ Return
  BY <1>9 DEF HandleRelease, Return, Phases
<1> QED
  BY <1>1, <1>2, <1>3, <1>4, <1>5, <1>6, <1>7, <1>8, <1>9, Steps

(***************************************************************************)
(* The manager's queue and its map.                                        *)
(***************************************************************************)

\* A request is its three fields.
LEMMA SameRequest ==
  ASSUME NEW p \in Request, NEW q \in Request,
         p.type = q.type, p.by = q.by, p.name = q.name
  PROVE  p = q
BY DEF Request

\* The queue stays orderly when what is in it still fits, but for a first one
\* whose handler is about to return ...
LEMMA AskedKept ==
  ASSUME Asked, requests \in Seq(Request), requests' = requests,
         step = "returning" => step' = "returning",
         \A p \in Request :
           Fits(p) => Fits(p)' \/ (p = Head(requests) /\ step' = "returning")
  PROVE  Asked'
<1>1. /\ \A i \in 1 .. Len(requests) : requests[i] \in Request
      /\ Len(requests) \in Nat
      /\ 1 \in 1 .. Len(requests) => Head(requests) = requests[1]
  OBVIOUS
<1>2. \A i \in 1 .. Len(requests) : (i = 1 /\ step' = "returning") \/ Fits(requests[i])'
  <2> SUFFICES ASSUME NEW i \in 1 .. Len(requests), NEW p \in Request,
                      p = requests[i], requests'[i] = p, ~(i = 1 /\ step' = "returning")
               PROVE  Fits(p)'
    BY <1>1
  <2>1. Fits(p)
    BY DEF Asked
  <2>2. ASSUME i # 1 PROVE p # Head(requests)
    <3>1. 1 \in 1 .. Len(requests) /\ 1 < i
      BY <1>1, <2>2
    <3>2. requests[1] # requests[i]
      BY <3>1 DEF Asked
    <3> QED
      BY <1>1, <3>1, <3>2
  <2> QED
    BY <2>1, <2>2
<1> QED
  BY <1>2 DEF Asked

\* ... when a request that fits now is appended, and is not there yet ...
LEMMA AskedAppend ==
  ASSUME Asked, requests \in Seq(Request), NEW r \in Request,
         requests' = Append(requests, r), step' = step,
         step = "returning" => requests # <<>> /\ Head(requests) # r,
         \A p \in Request : Fits(p) => Fits(p)',
         Fits(r)', ~Fits(r)
  PROVE  Asked'
<1>1. /\ Len(requests') = Len(requests) + 1 /\ Len(requests) \in Nat
      /\ \A i \in 1 .. Len(requests) : requests'[i] = requests[i] /\ requests[i] \in Request
      /\ requests'[Len(requests) + 1] = r
      /\ 1 \in 1 .. Len(requests) => Head(requests) = requests[1]
      /\ requests # <<>> => 1 \in 1 .. Len(requests)
  OBVIOUS
<1>2. \A i \in 1 .. Len(requests) : (i = 1 /\ step = "returning") \/ Fits(requests[i])
  BY DEF Asked
<1>3. \A i \in 1 .. Len(requests') : (i = 1 /\ step' = "returning") \/ Fits(requests[i])'
  <2> SUFFICES ASSUME NEW i \in 1 .. Len(requests'), NEW p \in Request, requests'[i] = p,
                      ~(i = 1 /\ step' = "returning")
               PROVE  Fits(p)'
    BY <1>1
  <2> QED
    BY <1>1, <1>2
<1>4. \A i \in 1 .. Len(requests) : requests[i] # r
  BY <1>1, <1>2
<1>5. \A i, j \in 1 .. Len(requests') : i < j => requests'[i] # requests'[j]
  BY <1>1, <1>4 DEF Asked
<1> QED
  BY <1>3, <1>5 DEF Asked

\* ... and when its head is taken.
LEMMA AskedTail ==
  ASSUME Asked, requests \in Seq(Request), requests # <<>>,
         requests' = Tail(requests), step' # "returning",
         \A p \in Request : Fits(p) /\ p # Head(requests) => Fits(p)'
  PROVE  Asked'
<1>1. /\ Len(requests') = Len(requests) - 1 /\ Len(requests) \in Nat \ {0}
      /\ \A i \in 1 .. Len(requests') : requests'[i] = requests[i + 1]
      /\ \A i \in 1 .. Len(requests) : requests[i] \in Request
      /\ Head(requests) = requests[1]
  OBVIOUS
<1>2. \A i \in 2 .. Len(requests) : Fits(requests[i]) /\ requests[i] # Head(requests)
  BY <1>1 DEF Asked
<1>3. \A i \in 1 .. Len(requests') : Fits(requests[i])'
  <2> SUFFICES ASSUME NEW i \in 1 .. Len(requests'), NEW p \in Request, requests'[i] = p
               PROVE  Fits(p)'
    BY <1>1
  <2>1. i + 1 \in 2 .. Len(requests) /\ p = requests[i + 1]
    BY <1>1
  <2> QED
    BY <1>2, <2>1
<1>4. \A i, j \in 1 .. Len(requests') : i < j => requests'[i] # requests'[j]
  BY <1>1 DEF Asked
<1> QED
  BY <1>3, <1>4 DEF Asked

\* A request stays requested when another is appended ...
LEMMA RequestedAppend ==
  ASSUME requests \in Seq(Request), NEW r \in Request, requests' = Append(requests, r)
  PROVE  Requested(r)' /\ \A p \in Request : Requested(p) => Requested(p)'
<1>1. /\ Len(requests') = Len(requests) + 1 /\ Len(requests) \in Nat
      /\ \A i \in 1 .. Len(requests) : requests'[i] = requests[i]
      /\ requests'[Len(requests) + 1] = r
  OBVIOUS
<1> QED
  BY <1>1 DEF Requested

\* ... or taken.
LEMMA RequestedTail ==
  ASSUME requests \in Seq(Request), requests # <<>>, requests' = Tail(requests)
  PROVE  \A p \in Request : Requested(p) /\ p # Head(requests) => Requested(p)'
<1>1. /\ Len(requests') = Len(requests) - 1 /\ Len(requests) \in Nat \ {0}
      /\ \A i \in 1 .. Len(requests') : requests'[i] = requests[i + 1]
      /\ Head(requests) = requests[1]
  OBVIOUS
<1> SUFFICES ASSUME NEW p \in Request, Requested(p), p # Head(requests)
             PROVE  Requested(p)'
  OBVIOUS
<1> PICK i \in 1 .. Len(requests) : requests[i] = p
  BY DEF Requested
<1>2. i - 1 \in 1 .. Len(requests') /\ requests'[i - 1] = p
  BY <1>1
<1> QED
  BY <1>2 DEF Requested

\* Every step keeps the queue orderly.
LEMMA AskedStep ==
  ASSUME TypeOK, Phases, Asked, Waiting, [Next]_vars
  PROVE  Asked'
<1> USE DEF connVars, managerVars, channelVars, Become, Ask
<1>0. /\ conn \in [Conns -> ConnState] /\ app \in [Conns -> Names \cup {None}]
      /\ kind \in [Conns -> Kinds \cup {"unknown"}]
      /\ answer \in [Conns -> Reply] /\ requests \in Seq(Request)
      /\ chan \in [Conns -> ChanState]
      /\ reader \in [Conns -> {"absent", "reading", "releasing", "ended", "lost"}]
      /\ \A p \in Request :
           p.by \in Conns /\ p.name \in Names /\ p.type \in {"Create", "Join", "Release"}
  BY DEF TypeOK, Request
<1>1. CASE Quiet
  <2>1. \A p \in Request : Fits(p) => Fits(p)'
    <3> SUFFICES ASSUME NEW p \in Request, Fits(p) PROVE Fits(p)'
      OBVIOUS
    <3>1. CASE p.type = "Create"
      BY <1>0, <1>1, <3>1 DEF Quiet, Fits, Phases
    <3>2. CASE p.type = "Join"
      BY <1>0, <1>1, <3>2 DEF Quiet, Fits
    <3>3. CASE p.type = "Release"
      BY <1>0, <1>1, <3>3 DEF Quiet, Fits
    <3> QED
      BY <1>0, <3>1, <3>2, <3>3
  <2> QED
    BY <1>0, <1>1, <2>1, AskedKept DEF Quiet
<1>2. ASSUME NEW c \in Conns, NEW n \in Names, Publish(c, n) PROVE Asked'
  <2>1. CreateReq(c, n) \in Request
    BY DEF CreateReq, Request
  <2>2. conn[c] = "new" /\ kind[c] = "unknown" /\ chan[c] = "absent" /\ reader[c] = "absent"
    BY <1>2 DEF Publish, Phases
  <2>3. /\ conn' = [conn EXCEPT ![c] = "creating"] /\ app' = [app EXCEPT ![c] = n]
        /\ kind' = [kind EXCEPT ![c] = "publisher"]
        /\ UNCHANGED <<answer, step, chan, reader>>
        /\ requests' = Append(requests, CreateReq(c, n))
    BY <1>2 DEF Publish
  <2>4. \A p \in Request : Fits(p) => p.by # c
    BY <1>0, <2>2 DEF Fits
  <2>5. \A p \in Request : Fits(p) => Fits(p)'
    BY <1>0, <2>3, <2>4 DEF Fits
  <2>6. Fits(CreateReq(c, n))' /\ ~Fits(CreateReq(c, n))
    BY <1>0, <2>2, <2>3 DEF Fits, CreateReq
  <2>7. step = "returning" => requests # <<>> /\ Head(requests) # CreateReq(c, n)
    BY <2>2 DEF Waiting, CreateReq
  <2> QED
    BY <1>0, <2>1, <2>3, <2>5, <2>6, <2>7, AskedAppend
<1>3. ASSUME NEW c \in Conns, NEW n \in Names, NEW k \in Kinds, Watch(c, n, k) PROVE Asked'
  <2>1. JoinReq(c, n) \in Request
    BY DEF JoinReq, Request
  <2>2. /\ conn[c] = "new" /\ kind[c] = "unknown" /\ chan[c] = "absent"
        /\ reader[c] = "absent" /\ answer[c] = Pending /\ k # "publisher"
    BY <1>3 DEF Watch, Phases
  <2>3. /\ conn' = [conn EXCEPT ![c] = "joining"] /\ app' = [app EXCEPT ![c] = n]
        /\ kind' = [kind EXCEPT ![c] = k]
        /\ UNCHANGED <<answer, step, chan, reader>>
        /\ requests' = Append(requests, JoinReq(c, n))
    BY <1>3 DEF Watch
  <2>4. \A p \in Request : Fits(p) => p.by # c
    BY <1>0, <2>2 DEF Fits
  <2>5. \A p \in Request : Fits(p) => Fits(p)'
    BY <1>0, <2>3, <2>4 DEF Fits
  <2>6. Fits(JoinReq(c, n))' /\ ~Fits(JoinReq(c, n))
    BY <1>0, <2>2, <2>3 DEF Fits, JoinReq
  <2>7. step = "returning" => requests # <<>> /\ Head(requests) # JoinReq(c, n)
    BY <2>2 DEF Waiting, JoinReq
  <2> QED
    BY <1>0, <2>1, <2>3, <2>5, <2>6, <2>7, AskedAppend
<1>4. ASSUME NEW d \in Conns, SendRelease(d) \/ ReaderReleases(d) PROVE Asked'
  <2>1. /\ app[d] \in Names
        /\ \/ conn[d] = "releasing" /\ kind[d] = "publisher" /\ reader[d] = "absent"
           \/ reader[d] = "releasing" /\ kind[d] # "publisher"
    BY <1>4 DEF SendRelease, ReaderReleases, Phases
  <2> PICK n \in Names : n = app[d]
    BY <2>1
  <2>2. ReleaseReq(d, n) \in Request
    BY DEF ReleaseReq, Request
  <2>3. /\ UNCHANGED <<app, kind, answer, step, chan>>
        /\ requests' = Append(requests, ReleaseReq(d, n))
        /\ \/ conn' = [conn EXCEPT ![d] = "ended"] /\ conn[d] = "releasing" /\ reader' = reader
           \/ conn' = conn /\ reader[d] = "releasing" /\ reader' = [reader EXCEPT ![d] = "ended"]
    BY <1>4 DEF SendRelease, ReaderReleases
  <2>4. \A p \in Request : Fits(p) => Fits(p)'
    <3>1. \A c \in Conns : /\ conn'[c] # conn[c] => conn[c] = "releasing" /\ conn'[c] = "ended"
                           /\ reader[c] = "ended" => reader'[c] = "ended"
      BY <1>0, <2>3
    <3> QED
      BY <1>0, <2>3, <3>1 DEF Fits
  <2>5. /\ ReleaseReq(d, n).type = "Release" /\ ReleaseReq(d, n).by = d
        /\ ReleaseReq(d, n).name = n
    BY DEF ReleaseReq
  <2>6. ~Fits(ReleaseReq(d, n))
    BY <2>1, <2>5 DEF Fits
  <2>7. (kind'[d] = "publisher" /\ conn'[d] = "ended") \/ reader'[d] = "ended"
    <3>1. CASE conn' = [conn EXCEPT ![d] = "ended"] /\ conn[d] = "releasing"
      BY <1>0, <2>1, <2>3, <3>1 DEF Phases
    <3>2. CASE reader' = [reader EXCEPT ![d] = "ended"]
      BY <1>0, <3>2
    <3> QED
      BY <2>3, <3>1, <3>2
  <2>8. Fits(ReleaseReq(d, n))'
    BY <2>3, <2>5, <2>7 DEF Fits, ReleaseReq
  <2>9. step = "returning" => requests # <<>> /\ Head(requests) # ReleaseReq(d, n)
    BY DEF Waiting, ReleaseReq
  <2> QED
    BY <1>0, <2>2, <2>3, <2>4, <2>6, <2>8, <2>9, AskedAppend
<1>5. CASE HandleCreate
  <2> DEFINE h == Head(requests)
  <2>1. /\ requests # <<>> /\ h \in Request /\ h.type = "Create" /\ Fits(h)
        /\ h.by \in Conns /\ conn[h.by] = "creating" /\ h.name = app[h.by]
    BY <1>0, <1>5, Created, HeadRequest DEF HandleCreate
  <2>2. kind[h.by] = "publisher"
    BY <2>1 DEF Phases
  <2>3. /\ chan' = [chan EXCEPT ![h.by] = "starting"] /\ step' = "returning"
        /\ UNCHANGED <<conn, app, kind, reader, requests>>
        /\ \A c \in Conns : c # h.by => answer'[c] = answer[c]
    BY <1>0, <1>5 DEF HandleCreate, RespondNew
  <2> HIDE DEF h
  <2>4. ASSUME NEW p \in Request, Fits(p), p # h PROVE Fits(p)'
    <3>1. CASE p.type = "Create"
      <4>1. p.by # h.by
        BY <2>1, <2>4, <3>1, SameRequest DEF Fits
      <4> QED
        BY <1>0, <2>3, <2>4, <3>1, <4>1 DEF Fits
    <3>2. CASE p.type = "Join"
      <4>1. p.by # h.by
        BY <2>2, <2>4, <3>2 DEF Fits
      <4> QED
        BY <1>0, <2>3, <2>4, <3>2, <4>1 DEF Fits
    <3>3. CASE p.type = "Release"
      BY <1>0, <2>3, <2>4, <3>3 DEF Fits
    <3> QED
      BY <1>0, <3>1, <3>2, <3>3
  <2> QED
    BY <1>0, <2>3, <2>4, AskedKept DEF h
<1>6. CASE HandleLocalJoin \/ PullFails
  <2> DEFINE h == Head(requests)
  <2>1. /\ requests # <<>> /\ h \in Request /\ h.type = "Join" /\ Fits(h)
        /\ h.name = app[h.by] /\ kind[h.by] # "publisher" /\ h.by \in Conns
    BY <1>0, <1>6, InHand, HeadRequest DEF HandleLocalJoin, PullFails
  <2>2. /\ requests' = Tail(requests) /\ step' = "idle"
        /\ UNCHANGED <<conn, app, kind, chan, reader>>
        /\ \A c \in Conns : c # h.by => answer'[c] = answer[c]
    BY <1>0, <1>6 DEF HandleLocalJoin, PullFails, Respond
  <2> HIDE DEF h
  <2>3. ASSUME NEW p \in Request, Fits(p), p # h PROVE Fits(p)'
    <3>1. CASE p.type = "Join"
      <4>1. p.by # h.by
        BY <2>1, <2>3, <3>1, SameRequest DEF Fits
      <4> QED
        BY <1>0, <2>2, <2>3, <3>1, <4>1 DEF Fits
    <3>2. CASE p.type \in {"Create", "Release"}
      BY <1>0, <2>2, <2>3, <3>2 DEF Fits
    <3> QED
      BY <1>0, <3>1, <3>2
  <2> QED
    BY <1>0, <2>1, <2>2, <2>3, AskedTail DEF h
<1>7. CASE Confirmed
  <2> DEFINE h == Head(requests)
  <2>1. /\ requests # <<>> /\ h \in Request /\ h.type = "Join" /\ Fits(h)
        /\ h.name = app[h.by] /\ kind[h.by] # "publisher" /\ h.by \in Conns
        /\ chan[h.by] = "absent"
    BY <1>0, <1>7, InHand, HeadRequest DEF Confirmed
  <2>2. reader[h.by] = "absent" /\ conn[h.by] # "creating"
    BY <2>1 DEF Phases
  <2>3. /\ chan' = [chan EXCEPT ![h.by] = "running"] /\ step' = "returning"
        /\ reader' = [reader EXCEPT ![h.by] = "reading"]
        /\ UNCHANGED <<conn, app, kind, requests>>
        /\ \A c \in Conns : c # h.by => answer'[c] = answer[c]
    BY <1>0, <1>7 DEF Confirmed, RespondNew
  <2> HIDE DEF h
  <2>4. ASSUME NEW p \in Request, Fits(p), p # h PROVE Fits(p)'
    <3>1. CASE p.type = "Join"
      <4>1. p.by # h.by
        BY <2>1, <2>4, <3>1, SameRequest DEF Fits
      <4> QED
        BY <1>0, <2>3, <2>4, <3>1, <4>1 DEF Fits
    <3>2. CASE p.type \in {"Create", "Release"}
      <4>1. p.by # h.by
        BY <2>1, <2>2, <2>4, <3>2 DEF Fits
      <4> QED
        BY <1>0, <2>3, <2>4, <3>2, <4>1 DEF Fits
    <3> QED
      BY <1>0, <3>1, <3>2
  <2> QED
    BY <1>0, <2>3, <2>4, AskedKept DEF h
<1>8. CASE HandleRelease \/ Return
  <2>1. requests # <<>> /\ requests' = Tail(requests) /\ step' # "returning"
    BY <1>8 DEF HandleRelease, Return, Take, Waiting
  <2>2. \A p \in Request : Fits(p) => Fits(p)'
    BY <1>8 DEF HandleRelease, Return, Fits
  <2> QED
    BY <1>0, <2>1, <2>2, AskedTail
<1> QED
  BY <1>1, <1>2, <1>3, <1>4, <1>5, <1>6, <1>7, <1>8, Steps

\* The request that is handled stays first.
LEMMA WaitingStep ==
  ASSUME TypeOK, Phases, Asked, Waiting, [Next]_vars
  PROVE  Waiting'
<1> USE DEF connVars, managerVars, channelVars, Ask
<1>0. requests \in Seq(Request) /\ chan \in [Conns -> ChanState]
  BY DEF TypeOK
<1>1. CASE Quiet /\ step' = step
  <2>1. requests # <<>> => Head(requests).by \in Conns
    BY <1>0, HeadRequest
  <2> QED
    BY <1>1, <2>1 DEF Quiet, Waiting
<1>2. CASE StartPull
  BY <1>2 DEF StartPull, Take, Waiting
<1>3. ASSUME NEW r \in Request, requests' = Append(requests, r), UNCHANGED <<step, chan>>
      PROVE  Waiting'
  <2>1. requests # <<>> => requests' # <<>> /\ Head(requests') = Head(requests)
    BY <1>0, <1>3
  <2> QED
    BY <1>3, <2>1 DEF Waiting
<1>4. ASSUME NEW c \in Conns, NEW n \in Names, Publish(c, n) PROVE Waiting'
  <2>1. CreateReq(c, n) \in Request
    BY DEF CreateReq, Request
  <2> QED
    BY <1>3, <1>4, <2>1 DEF Publish
<1>5. ASSUME NEW c \in Conns, NEW n \in Names, NEW k \in Kinds, Watch(c, n, k) PROVE Waiting'
  <2>1. JoinReq(c, n) \in Request
    BY DEF JoinReq, Request
  <2> QED
    BY <1>3, <1>5, <2>1 DEF Watch
<1>6. ASSUME NEW d \in Conns, SendRelease(d) \/ ReaderReleases(d) PROVE Waiting'
  <2>1. ReleaseReq(d, app[d]) \in Request
    BY <1>6 DEF SendRelease, ReaderReleases, ReleaseReq, Request, Phases
  <2> QED
    BY <1>3, <1>6, <2>1 DEF SendRelease, ReaderReleases
<1>7. CASE HandleCreate \/ Confirmed
  <2>1. /\ requests # <<>> /\ Head(requests).type \in {"Create", "Join"}
        /\ Head(requests).by \in Conns
    BY <1>0, <1>7, InHand, Created, HeadRequest DEF HandleCreate, Confirmed
  <2>2. /\ requests' = requests /\ step' = "returning"
        /\ chan'[Head(requests).by] \in {"starting", "running"}
    BY <1>0, <1>7, <2>1 DEF HandleCreate, Confirmed, RespondNew
  <2> QED
    BY <2>1, <2>2 DEF Waiting
<1>8. CASE HandleLocalJoin \/ PullFails \/ HandleRelease \/ Return
  BY <1>8 DEF HandleLocalJoin, PullFails, HandleRelease, Return, Take, Respond, Waiting
<1> QED
  BY <1>1, <1>2, <1>4, <1>5, <1>6, <1>7, <1>8, Steps

\* Whoever made an entry is there still, or its Release is on its way.
LEMMA MappedStep ==
  ASSUME TypeOK, Phases, Asked, Waiting, Mapped, [Next]_vars
  PROVE  Mapped'
<1> USE DEF connVars, managerVars, channelVars, Become, Ask
<1>0. /\ conn \in [Conns -> ConnState] /\ app \in [Conns -> Names \cup {None}]
      /\ kind \in [Conns -> Kinds \cup {"unknown"}]
      /\ requests \in Seq(Request)
      /\ channels \in [Names -> Conns \cup {None}]
      /\ chan \in [Conns -> ChanState]
      /\ reader \in [Conns -> {"absent", "reading", "releasing", "ended", "lost"}]
      /\ \A d \in Conns, n \in Names : ReleaseReq(d, n) \in Request
  BY DEF TypeOK, Request, ReleaseReq
<1>1. CASE Quiet
  <2> SUFFICES ASSUME NEW n \in Names, NEW d \in Conns, channels[n] = d
               PROVE  app[d] = n /\ chan'[d] # "absent" /\ Kept(d)'
    BY <1>1 DEF Quiet, Mapped, Kept
  <2>1. app[d] = n /\ chan[d] # "absent" /\ Kept(d)
    BY DEF Mapped
  <2>2. Kept(d)'
    <3>1. CASE kind[d] = "publisher" /\ conn[d] \in {"creating", "publishing", "vanished", "releasing"}
      BY <1>1, <3>1 DEF Quiet, Kept
    <3>2. CASE reader[d] \in {"reading", "lost", "releasing"}
      BY <1>1, <3>2 DEF Quiet, Kept
    <3>3. CASE Requested(ReleaseReq(d, app[d]))
      BY <1>1, <3>3 DEF Quiet, Kept, Requested
    <3> QED
      BY <2>1, <3>1, <3>2, <3>3 DEF Kept
  <2>3. chan'[d] # "absent"
    BY <1>1, <2>1 DEF Quiet
  <2> QED
    BY <2>1, <2>2, <2>3
<1>2. ASSUME NEW c \in Conns, NEW r \in Request, conn[c] = "new",
             requests' = Append(requests, r), UNCHANGED <<channels, chan, reader>>,
             \A d \in Conns : d # c =>
               conn'[d] = conn[d] /\ kind'[d] = kind[d] /\ app'[d] = app[d]
      PROVE  Mapped'
  <2> SUFFICES ASSUME NEW n \in Names, NEW d \in Conns, channels[n] = d
               PROVE  app'[d] = n /\ chan[d] # "absent" /\ Kept(d)'
    BY <1>2 DEF Mapped
  <2>1. app[d] = n /\ chan[d] # "absent" /\ Kept(d) /\ d # c
    BY <1>2 DEF Mapped, Phases
  <2>2. Requested(ReleaseReq(d, n)) => Requested(ReleaseReq(d, n))'
    BY <1>0, <1>2, RequestedAppend
  <2> QED
    BY <1>2, <2>1, <2>2 DEF Kept
<1>3. ASSUME NEW c \in Conns, NEW n \in Names, Publish(c, n) PROVE Mapped'
  <2>1. CreateReq(c, n) \in Request
    BY DEF CreateReq, Request
  <2>2. conn[c] = "new" /\ requests' = Append(requests, CreateReq(c, n))
        /\ UNCHANGED <<channels, chan, reader>>
    BY <1>3 DEF Publish
  <2>3. \A d \in Conns : d # c => conn'[d] = conn[d] /\ kind'[d] = kind[d] /\ app'[d] = app[d]
    BY <1>0, <1>3 DEF Publish
  <2> QED
    BY <1>2, <2>1, <2>2, <2>3
<1>4. ASSUME NEW c \in Conns, NEW n \in Names, NEW k \in Kinds, Watch(c, n, k) PROVE Mapped'
  <2>1. JoinReq(c, n) \in Request
    BY DEF JoinReq, Request
  <2>2. conn[c] = "new" /\ requests' = Append(requests, JoinReq(c, n))
        /\ UNCHANGED <<channels, chan, reader>>
    BY <1>4 DEF Watch
  <2>3. \A d \in Conns : d # c => conn'[d] = conn[d] /\ kind'[d] = kind[d] /\ app'[d] = app[d]
    BY <1>0, <1>4 DEF Watch
  <2> QED
    BY <1>2, <2>1, <2>2, <2>3
<1>5. ASSUME NEW c \in Conns, SendRelease(c) \/ ReaderReleases(c) PROVE Mapped'
  <2>1. app[c] \in Names
    BY <1>5 DEF SendRelease, ReaderReleases, Phases
  <2>2. /\ requests' = Append(requests, ReleaseReq(c, app[c]))
        /\ UNCHANGED <<app, kind, channels, chan>>
        /\ \A d \in Conns : d # c => conn'[d] = conn[d] /\ reader'[d] = reader[d]
    BY <1>0, <1>5 DEF SendRelease, ReaderReleases
  <2>3. /\ Requested(ReleaseReq(c, app[c]))'
        /\ \A p \in Request : Requested(p) => Requested(p)'
    BY <1>0, <2>1, <2>2, RequestedAppend
  <2> SUFFICES ASSUME NEW n \in Names, NEW d \in Conns, channels[n] = d
               PROVE  app[d] = n /\ chan[d] # "absent" /\ Kept(d)'
    BY <2>2 DEF Mapped
  <2>4. app[d] = n /\ chan[d] # "absent" /\ Kept(d)
    BY DEF Mapped
  <2>5. CASE d = c
    <3>1. ReleaseReq(d, app'[d]) = ReleaseReq(c, app[c])
      BY <2>2, <2>5
    <3>2. Requested(ReleaseReq(d, app[d]))'
      BY <2>2, <2>3, <3>1, Zenon
    <3> QED
      BY <2>4, <3>2 DEF Kept
  <2>6. CASE d # c
    BY <1>0, <2>2, <2>3, <2>4, <2>6 DEF Kept
  <2> QED
    BY <2>5, <2>6
<1>6. CASE HandleCreate \/ Confirmed
  <2> PICK b \in Conns : b = Head(requests).by
    BY <1>0, <1>6, InHand, Created, HeadRequest DEF HandleCreate, Confirmed
  <2> PICK n \in Names : n = Head(requests).name
    BY <1>0, <1>6, InHand, Created, HeadRequest DEF HandleCreate, Confirmed
  <2>1. chan[b] = "absent" /\ n = app[b]
    BY <1>6, InHand, Created DEF HandleCreate, Confirmed
  <2>2. /\ channels' = [channels EXCEPT ![n] = b]
        /\ UNCHANGED <<conn, kind, app, requests>>
        /\ \A d \in Conns : d # b => chan'[d] = chan[d] /\ reader'[d] = reader[d]
        /\ chan'[b] # "absent"
    BY <1>0, <1>6 DEF HandleCreate, Confirmed, RespondNew
  <2>3. \/ kind[b] = "publisher" /\ conn[b] = "creating"
        \/ reader'[b] = "reading"
    <3>1. CASE HandleCreate
      BY <3>1, Created DEF HandleCreate, Phases
    <3>2. CASE Confirmed
      BY <1>0, <3>2 DEF Confirmed
    <3> QED
      BY <1>6, <3>1, <3>2
  <2> SUFFICES ASSUME NEW m \in Names, NEW d \in Conns, channels'[m] = d
               PROVE  app[d] = m /\ chan'[d] # "absent" /\ Kept(d)'
    BY <2>2 DEF Mapped
  <2>4. CASE d = b
    <3>1. m = n
      BY <1>0, <2>1, <2>2, <2>4 DEF Mapped
    <3> QED
      BY <2>1, <2>2, <2>3, <2>4, <3>1 DEF Kept
  <2>5. CASE d # b
    <3>1. channels[m] = d
      BY <1>0, <2>2, <2>5
    <3>2. app[d] = m /\ chan[d] # "absent" /\ Kept(d)
      BY <3>1 DEF Mapped
    <3> QED
      BY <2>2, <2>5, <3>2 DEF Kept, Requested
  <2> QED
    BY <2>4, <2>5
<1>7. CASE HandleLocalJoin \/ PullFails \/ HandleRelease \/ Return
  <2>1. /\ requests # <<>> /\ requests' = Tail(requests)
        /\ UNCHANGED <<conn, kind, app, chan, reader>>
    BY <1>7, InHand DEF HandleLocalJoin, PullFails, HandleRelease, Return, Take, Respond, Waiting
  <2>2. \/ channels' = channels /\ Head(requests).type # "Release"
        \/ channels' = [channels EXCEPT ![Head(requests).name] = None]
    BY <1>7, InHand DEF HandleLocalJoin, PullFails, HandleRelease, Return, Take, Respond, Waiting
  <2> SUFFICES ASSUME NEW n \in Names, NEW d \in Conns, channels'[n] = d
               PROVE  app[d] = n /\ chan[d] # "absent" /\ Kept(d)'
    BY <2>1 DEF Mapped
  <2>3. channels[n] = d /\ (Head(requests).type # "Release" \/ Head(requests).name # n)
    BY <1>0, <2>2, NoneAssumption
  <2>4. app[d] = n /\ chan[d] # "absent" /\ Kept(d)
    BY <2>3 DEF Mapped
  <2>5. Requested(ReleaseReq(d, n)) => Requested(ReleaseReq(d, n))'
    <3>1. ReleaseReq(d, n) # Head(requests)
      BY <2>3 DEF ReleaseReq
    <3> QED
      BY <1>0, <2>1, <3>1, RequestedTail
  <2> QED
    BY <2>1, <2>4, <2>5 DEF Kept
<1> QED
  BY <1>1, <1>3, <1>4, <1>5, <1>6, <1>7, Steps

(***************************************************************************)
(* The queues of the channels.                                             *)
(***************************************************************************)

\* What was queued stays queued when a message is added ...
LEMMA QueuedTell ==
  ASSUME inbox \in [Conns -> Seq(Message)], NEW d \in Conns, NEW m \in Message,
         Tell(d, m)
  PROVE  /\ Queued(d, m)'
         /\ inbox'[d] # <<>>
         /\ \A e \in Conns : e # d => inbox'[e] = inbox[e]
         /\ \A p \in Message : Queued(d, p)' <=> Queued(d, p) \/ p = m
<1>1. inbox[d] \in Seq(Message) /\ inbox'[d] = Append(inbox[d], m)
  BY DEF Tell
<1>2. /\ Len(inbox'[d]) = Len(inbox[d]) + 1 /\ Len(inbox[d]) \in Nat
      /\ inbox'[d][Len(inbox[d]) + 1] = m
      /\ \A i \in 1 .. Len(inbox[d]) : inbox'[d][i] = inbox[d][i]
  BY <1>1
<1>3. \A e \in Conns : e # d => inbox'[e] = inbox[e]
  BY DEF Tell
<1>4. inbox'[d] # <<>>
  BY <1>1, SMTT(30)
<1>5. Queued(d, m)'
  BY <1>2, SMTT(30) DEF Queued
<1>6. ASSUME NEW p \in Message, Queued(d, p) PROVE Queued(d, p)'
  <2>1. PICK i \in 1 .. Len(inbox[d]) : inbox[d][i] = p
    BY <1>6 DEF Queued
  <2>2. i \in 1 .. Len(inbox'[d]) /\ inbox'[d][i] = p
    BY <1>2, <2>1
  <2> QED
    BY <2>2 DEF Queued
<1>7. ASSUME NEW p \in Message, Queued(d, p)' PROVE Queued(d, p) \/ p = m
  <2>1. PICK i \in 1 .. Len(inbox'[d]) : inbox'[d][i] = p
    BY <1>7 DEF Queued
  <2>2. CASE i = Len(inbox[d]) + 1
    BY <1>2, <2>1, <2>2
  <2>3. CASE i \in 1 .. Len(inbox[d])
    BY <1>2, <2>1, <2>3 DEF Queued
  <2> QED
    BY <1>2, <2>1, <2>2, <2>3
<1> QED
  BY <1>3, <1>4, <1>5, <1>6, <1>7

\* ... and, but for the first, when the channel takes one.
LEMMA QueuedTail ==
  ASSUME inbox \in [Conns -> Seq(Message)], NEW d \in Conns, inbox[d] # <<>>,
         inbox' = [inbox EXCEPT ![d] = Tail(@)]
  PROVE  \A p \in Message :
           /\ Queued(d, Head(inbox[d]))
           /\ Queued(d, p)' => Queued(d, p)
           /\ Queued(d, p) => Queued(d, p)' \/ p = Head(inbox[d])
<1>1. inbox[d] \in Seq(Message) /\ inbox'[d] = Tail(inbox[d])
  OBVIOUS
<1>2. /\ Len(inbox'[d]) = Len(inbox[d]) - 1 /\ Len(inbox[d]) \in Nat \ {0}
      /\ \A i \in 1 .. Len(inbox'[d]) : inbox'[d][i] = inbox[d][i + 1]
      /\ Head(inbox[d]) = inbox[d][1]
  BY <1>1
<1>3. Queued(d, Head(inbox[d]))
  BY <1>2 DEF Queued
<1>4. ASSUME NEW p \in Message, Queued(d, p)' PROVE Queued(d, p)
  <2> PICK i \in 1 .. Len(inbox'[d]) : inbox'[d][i] = p
    BY <1>4 DEF Queued
  <2>1. i + 1 \in 1 .. Len(inbox[d]) /\ inbox[d][i + 1] = p
    BY <1>2
  <2> QED
    BY <2>1 DEF Queued
<1>5. ASSUME NEW p \in Message, Queued(d, p), p # Head(inbox[d]) PROVE Queued(d, p)'
  <2> PICK i \in 1 .. Len(inbox[d]) : inbox[d][i] = p
    BY <1>5 DEF Queued
  <2>1. i - 1 \in 1 .. Len(inbox'[d]) /\ inbox'[d][i - 1] = p
    BY <1>2, <1>5
  <2> QED
    BY <2>1 DEF Queued
<1> QED
  BY <1>3, <1>4, <1>5

\* A message that is there once is there once still when another is added ...
LEMMA OnceTell ==
  ASSUME inbox \in [Conns -> Seq(Message)], NEW d \in Conns, NEW m \in Message,
         Tell(d, m)
  PROVE  \A p \in Message : Once(d, p) /\ (p # m \/ ~Queued(d, p)) => Once(d, p)'
<1>1. inbox[d] \in Seq(Message) /\ inbox'[d] = Append(inbox[d], m)
  BY DEF Tell
<1>2. /\ Len(inbox'[d]) = Len(inbox[d]) + 1 /\ Len(inbox[d]) \in Nat
      /\ inbox'[d][Len(inbox[d]) + 1] = m
      /\ \A i \in 1 .. Len(inbox[d]) : inbox'[d][i] = inbox[d][i]
  BY <1>1
<1> QED
  BY <1>2 DEF Once, Queued

\* ... and one that is taken is gone.
LEMMA OnceTail ==
  ASSUME inbox \in [Conns -> Seq(Message)], NEW d \in Conns, inbox[d] # <<>>,
         inbox' = [inbox EXCEPT ![d] = Tail(@)]
  PROVE  \A p \in Message :
           Once(d, p) => Once(d, p)' /\ (p = Head(inbox[d]) => ~Queued(d, p)')
<1>1. inbox[d] \in Seq(Message) /\ inbox'[d] = Tail(inbox[d])
  OBVIOUS
<1>2. /\ Len(inbox'[d]) = Len(inbox[d]) - 1 /\ Len(inbox[d]) \in Nat \ {0}
      /\ \A i \in 1 .. Len(inbox'[d]) :
           inbox'[d][i] = inbox[d][i + 1] /\ i + 1 \in 1 .. Len(inbox[d])
      /\ Head(inbox[d]) = inbox[d][1] /\ 1 \in 1 .. Len(inbox[d])
  BY <1>1
<1> SUFFICES ASSUME NEW p \in Message, Once(d, p)
             PROVE  Once(d, p)' /\ (p = Head(inbox[d]) => ~Queued(d, p)')
  OBVIOUS
<1>3. Once(d, p)'
  <2> SUFFICES ASSUME NEW i \in 1 .. Len(inbox'[d]), NEW j \in 1 .. Len(inbox'[d]),
                      inbox'[d][i] = p, inbox'[d][j] = p
               PROVE  i = j
    BY DEF Once
  <2>1. i + 1 = j + 1
    BY <1>2 DEF Once
  <2> QED
    BY <1>2, <2>1
<1>4. ASSUME p = Head(inbox[d]), Queued(d, p)' PROVE FALSE
  <2> PICK i \in 1 .. Len(inbox'[d]) : inbox'[d][i] = p
    BY <1>4 DEF Queued
  <2>1. i + 1 = 1
    BY <1>2, <1>4 DEF Once
  <2> QED
    BY <1>2, <2>1
<1> QED
  BY <1>3, <1>4

(***************************************************************************)
(* The end of a channel.                                                   *)
(***************************************************************************)

\* Who has left stays away.
LEMMA LeftKept ==
  ASSUME TypeOK, Phases, Asked, Waiting, [Next]_vars, NEW d \in Conns, Left(d)
  PROVE  Left(d)'
<1> USE DEF connVars, managerVars, channelVars, Become
<1>0. /\ conn \in [Conns -> ConnState] /\ kind \in [Conns -> Kinds \cup {"unknown"}]
      /\ reader \in [Conns -> {"absent", "reading", "releasing", "ended", "lost"}]
  BY DEF TypeOK
<1>1. CASE Quiet
  BY <1>1 DEF Quiet, Left
<1>2. ASSUME NEW c \in Conns, NEW n \in Names,
             Publish(c, n) \/ \E k \in Kinds : Watch(c, n, k)
      PROVE  Left(d)'
  <2>1. conn[c] = "new" /\ kind[c] = "unknown" /\ reader[c] = "absent"
    BY <1>2 DEF Publish, Watch, Phases
  <2>2. \A b \in Conns : b # c => conn'[b] = conn[b] /\ kind'[b] = kind[b]
    BY <1>0, <1>2 DEF Publish, Watch
  <2>3. reader' = reader
    BY <1>2 DEF Publish, Watch
  <2> QED
    BY <2>1, <2>2, <2>3 DEF Left
<1>3. ASSUME NEW c \in Conns, SendRelease(c) \/ ReaderReleases(c) PROVE Left(d)'
  BY <1>0, <1>3 DEF SendRelease, ReaderReleases, Left
<1>4. CASE Confirmed
  <2> PICK b \in Conns : b = Head(requests).by
    BY <1>4, InHand, HeadRequest DEF Confirmed, TypeOK
  <2>1. kind[b] # "publisher" /\ reader[b] = "absent"
    BY <1>4, InHand DEF Confirmed, Phases
  <2>2. UNCHANGED <<conn, kind>> /\ \A c \in Conns : c # b => reader'[c] = reader[c]
    BY <1>0, <1>4 DEF Confirmed
  <2> QED
    BY <2>1, <2>2 DEF Left
<1>5. CASE HandleCreate \/ HandleLocalJoin \/ PullFails \/ HandleRelease \/ Return
  BY <1>5 DEF HandleCreate, HandleLocalJoin, PullFails, HandleRelease, Return, Left
<1> QED
  BY <1>1, <1>2, <1>3, <1>4, <1>5, Steps

\* A publisher stays, or vanishes, until it tells its channel.
LEMMA PublisherKept ==
  ASSUME TypeOK, Phases, Asked, Waiting, [Next]_vars,
         NEW d \in Conns, chan[d] # "absent"
  PROVE  /\ kind'[d] = kind[d]
         /\ kind[d] = "publisher" /\ conn[d] \in {"creating", "publishing", "vanished"} =>
              conn'[d] \in {"creating", "publishing", "vanished"} \/ PublisherGone(d)
<1> USE DEF connVars, managerVars, channelVars, Become
<1>0. conn \in [Conns -> ConnState] /\ kind \in [Conns -> Kinds \cup {"unknown"}]
  BY DEF TypeOK
<1>1. CASE Quiet
  BY <1>1 DEF Quiet
<1>2. ASSUME NEW c \in Conns, NEW n \in Names,
             Publish(c, n) \/ \E k \in Kinds : Watch(c, n, k)
      PROVE  kind'[d] = kind[d] /\ conn'[d] = conn[d]
  <2>1. d # c
    BY <1>2 DEF Publish, Watch, Phases
  <2> QED
    BY <1>0, <1>2, <2>1 DEF Publish, Watch
<1>3. ASSUME NEW c \in Conns, SendRelease(c) \/ ReaderReleases(c)
      PROVE  kind'[d] = kind[d] /\ (conn'[d] = conn[d] \/ conn[d] = "releasing")
  BY <1>0, <1>3 DEF SendRelease, ReaderReleases
<1>4. CASE HandleCreate \/ HandleLocalJoin \/ PullFails \/ Confirmed \/ HandleRelease \/ Return
  BY <1>4 DEF HandleCreate, HandleLocalJoin, PullFails, Confirmed, HandleRelease, Return
<1> QED
  BY <1>1, <1>2, <1>3, <1>4, Steps

Running(d) == chan[d] \in {"starting", "running", "sending"}

\* A channel is told to end only by who then leaves, and ends only when told; one
\* that runs ran before, with what was told, or was made for a publisher that is
\* there or with a reader.
EndMoves(d) ==
  /\ chan'[d] \in {"closing", "dead"} \/ Queued(d, DisconnectMsg)' =>
       chan[d] \in {"closing", "dead"} \/ Queued(d, DisconnectMsg) \/ Left(d)'
  /\ Running(d)' =>
       \/ Running(d) /\ (Queued(d, DisconnectMsg) => Queued(d, DisconnectMsg)')
       \/ IF kind'[d] = "publisher" THEN conn'[d] = "creating" ELSE reader'[d] = "reading"

LEMMA EndMovesStep ==
  ASSUME TypeOK, Phases, Asked, Waiting, [Next]_vars, NEW e \in Conns
  PROVE  EndMoves(e)
<1> USE DEF connVars, managerVars, channelVars, Become, Turn
<1>0. /\ inbox \in [Conns -> Seq(Message)] /\ chan \in [Conns -> ChanState]
      /\ conn \in [Conns -> ConnState] /\ kind \in [Conns -> Kinds \cup {"unknown"}]
      /\ reader \in [Conns -> {"absent", "reading", "releasing", "ended", "lost"}]
  BY DEF TypeOK
<1>1. CASE chan'[e] = chan[e] /\ inbox'[e] = inbox[e]
  BY <1>1 DEF EndMoves, Queued, Running
<1>2. ASSUME NEW d \in Conns, NEW m \in Message, Tell(d, m), chan' = chan, m # DisconnectMsg
      PROVE  EndMoves(e)
  <2>1. CASE e # d
    BY <1>0, <1>1, <1>2, <2>1, QueuedTell
  <2>2. CASE e = d
    <3>1. Queued(d, DisconnectMsg)' <=> Queued(d, DisconnectMsg)
      BY <1>0, <1>2, QueuedTell, Messages
    <3> QED
      BY <1>2, <2>2, <3>1 DEF EndMoves, Running
  <2> QED
    BY <2>1, <2>2
<1>3. ASSUME NEW d \in Conns, Tell(d, DisconnectMsg), chan' = chan, Left(d)'
      PROVE  EndMoves(e)
  <2>1. CASE e # d
    BY <1>0, <1>1, <1>3, <2>1, QueuedTell, Messages
  <2>2. CASE e = d
    <3>1. Queued(d, DisconnectMsg)'
      BY <1>0, <1>3, QueuedTell, Messages
    <3> QED
      BY <1>3, <2>2, <3>1 DEF EndMoves, Running
  <2> QED
    BY <2>1, <2>2
<1>4. ASSUME NEW c \in Conns, PublishPacket(c) \/ UpstreamPacket(c) PROVE EndMoves(e)
  <2>1. chan' = chan
    BY <1>4 DEF PublishPacket, UpstreamPacket
  <2>2. Tell(c, PacketMsg) \/ Tell(c, OriginMsg) \/ UNCHANGED inbox
    BY <1>4 DEF PublishPacket, UpstreamPacket
  <2> QED
    BY <1>1, <1>2, <2>1, <2>2, Messages
<1>5. ASSUME NEW c \in Conns, PublisherGone(c) PROVE EndMoves(e)
  <2>1. CASE UNCHANGED inbox
    BY <1>1, <1>5, <2>1 DEF PublisherGone
  <2>2. CASE Tell(c, DisconnectMsg) /\ Become(c, "releasing")
    <3>1. Left(c)'
      BY <1>0, <1>5, <2>2 DEF PublisherGone, Phases, Left
    <3> QED
      BY <1>3, <1>5, <2>2, <3>1 DEF PublisherGone
  <2> QED
    BY <1>5, <2>1, <2>2 DEF PublisherGone
<1>6. ASSUME NEW c \in Conns, UpstreamErrors(c) PROVE EndMoves(e)
  <2>1. Left(c)'
    BY <1>0, <1>6 DEF UpstreamErrors, Left
  <2> QED
    BY <1>1, <1>3, <1>6, <2>1 DEF UpstreamErrors
<1>7. ASSUME NEW c \in Conns, RequestInit(c) PROVE EndMoves(e)
  <2>1. PICK d \in Conns : Tell(d, InitDataMsg(c)) \/ UNCHANGED inbox
    BY <1>7 DEF RequestInit
  <2>2. chan' = chan
    BY <1>7 DEF RequestInit
  <2> QED
    BY <1>1, <1>2, <2>1, <2>2, Messages
<1>8. ASSUME NEW d \in Conns, OriginConnects(d) PROVE EndMoves(e)
  BY <1>0, <1>8 DEF OriginConnects, EndMoves, Queued, Running
<1>9. ASSUME NEW d \in Conns, inbox[d] # <<>>, DropHead(d),
             \A b \in Conns : b # d => chan'[b] = chan[b],
             chan[d] = "running",
             IF Head(inbox[d]) = DisconnectMsg
             THEN chan'[d] = "closing" ELSE chan'[d] \in {"running", "sending"}
      PROVE  EndMoves(e)
  <2>1. CASE e # d
    BY <1>0, <1>1, <1>9, <2>1 DEF DropHead
  <2>2. CASE e = d
    <3>1. /\ Queued(d, Head(inbox[d]))
          /\ Queued(d, DisconnectMsg)' => Queued(d, DisconnectMsg)
          /\ Queued(d, DisconnectMsg) =>
               Queued(d, DisconnectMsg)' \/ DisconnectMsg = Head(inbox[d])
      BY <1>0, <1>9, QueuedTail, Messages DEF DropHead
    <3> QED
      BY <1>9, <2>2, <3>1 DEF EndMoves, Running
  <2> QED
    BY <2>1, <2>2
<1>10. ASSUME NEW d \in Conns, HandlePacket(d) PROVE EndMoves(e)
  <2>1. inbox[d] # <<>> /\ DropHead(d) /\ chan[d] = "running"
    BY <1>10 DEF HandlePacket, Handles
  <2>2. Head(inbox[d]) # DisconnectMsg
    BY <1>10 DEF HandlePacket, Handles, DisconnectMsg
  <2>3. chan'[d] \in {"running", "sending"} /\ \A b \in Conns : b # d => chan'[b] = chan[b]
    BY <1>0, <1>10 DEF HandlePacket
  <2> QED
    BY <1>9, <2>1, <2>2, <2>3
<1>11. ASSUME NEW d \in Conns, HandleDisconnect(d) PROVE EndMoves(e)
  <2>1. inbox[d] # <<>> /\ DropHead(d) /\ chan[d] = "running"
    BY <1>11 DEF HandleDisconnect, Handles
  <2>2. Head(inbox[d]) = DisconnectMsg
    BY <1>0, <1>11, <2>1, HeadMessage, MessageTypes DEF HandleDisconnect, Handles
  <2>3. chan'[d] = "closing" /\ \A b \in Conns : b # d => chan'[b] = chan[b]
    BY <1>0, <1>11 DEF HandleDisconnect
  <2> QED
    BY <1>9, <2>1, <2>2, <2>3
<1>12. ASSUME NEW d \in Conns, chan' = [chan EXCEPT ![d] = "failed"], Drops(d) PROVE EndMoves(e)
  <2>1. CASE e # d
    BY <1>0, <1>1, <1>12, <2>1 DEF Drops
  <2>2. CASE e = d
    <3>1. inbox'[d] = <<>> /\ chan'[d] = "failed"
      BY <1>0, <1>12 DEF Drops
    <3> QED
      BY <2>2, <3>1 DEF EndMoves, Running, Queued
  <2> QED
    BY <2>1, <2>2
<1>13. ASSUME NEW d \in Conns, OriginFails(d) PROVE EndMoves(e)
  BY <1>12, <1>13 DEF OriginFails
<1>14. ASSUME NEW d \in Conns, BroadcastPacket(d) PROVE EndMoves(e)
  <2>1. CASE Drops(d) /\ chan' = [chan EXCEPT ![d] = "failed"]
    BY <1>12, <2>1
  <2>2. CASE inbox' = inbox /\ chan' = [chan EXCEPT ![d] = "running"]
    BY <1>0, <1>14, <2>2 DEF BroadcastPacket, EndMoves, Running, Queued
  <2> QED
    BY <1>14, <2>1, <2>2 DEF BroadcastPacket
<1>15. ASSUME NEW d \in Conns, HandleInitData(d) PROVE EndMoves(e)
  <2>1. inbox[d] # <<>> /\ chan[d] = "running" /\ Head(inbox[d]).type = "InitData"
    BY <1>15 DEF HandleInitData, Handles
  <2>2. Head(inbox[d]) # DisconnectMsg
    BY <2>1 DEF DisconnectMsg
  <2>3. CASE DropHead(d) /\ chan' = chan
    BY <1>9, <2>1, <2>2, <2>3
  <2>4. CASE Drops(d) /\ chan' = [chan EXCEPT ![d] = "failed"]
    BY <1>12, <2>4
  <2> QED
    BY <1>15, <2>3, <2>4 DEF HandleInitData
<1>16. ASSUME NEW d \in Conns, ChannelExit(d) PROVE EndMoves(e)
  <2>1. CASE e # d
    BY <1>0, <1>1, <1>16, <2>1 DEF ChannelExit, Drops
  <2>2. CASE e = d
    <3>1. chan[d] = "closing" /\ chan'[d] = "dead" /\ inbox'[d] = <<>>
      BY <1>0, <1>16 DEF ChannelExit, Drops
    <3> QED
      BY <2>2, <3>1 DEF EndMoves, Running
  <2> QED
    BY <2>1, <2>2
<1>17. CASE HandleCreate \/ Confirmed
  <2> PICK b \in Conns : b = Head(requests).by
    BY <1>17, InHand, Created, HeadRequest DEF HandleCreate, Confirmed, TypeOK
  <2>1. IF kind'[b] = "publisher" THEN conn'[b] = "creating" ELSE reader'[b] = "reading"
    BY <1>0, <1>17, InHand, Created DEF HandleCreate, Confirmed, Phases
  <2>2. /\ UNCHANGED <<conn, kind, inbox>> /\ chan'[b] \in {"starting", "running"}
        /\ \A c \in Conns : c # b => chan'[c] = chan[c]
    BY <1>0, <1>17 DEF HandleCreate, Confirmed
  <2> QED
    BY <1>1, <2>1, <2>2 DEF EndMoves, Queued
<1>18. ASSUME NEW c \in Conns, NEW n \in Names,
              Publish(c, n) \/ \E k \in Kinds : Watch(c, n, k)
       PROVE  EndMoves(e)
  BY <1>1, <1>18 DEF Publish, Watch
<1>19. ASSUME NEW c \in Conns,
              CreateAnswered(c) \/ SendRelease(c) \/ Vanish(c) \/ JoinAnswered(c)
              \/ InitAnswered(c) \/ PlayerGone(c) \/ Receive(c) \/ Closed(c)
              \/ ReaderReleases(c) \/ UpstreamEof(c)
       PROVE  EndMoves(e)
  BY <1>1, <1>19 DEF CreateAnswered, SendRelease, Vanish, JoinAnswered, InitAnswered,
                     PlayerGone, Receive, Closed, ReaderReleases, UpstreamEof
<1>20. CASE HandleLocalJoin \/ StartPull \/ PullFails \/ HandleRelease \/ Return
  BY <1>1, <1>20 DEF HandleLocalJoin, StartPull, PullFails, HandleRelease, Return
<1>21. CASE UNCHANGED vars
  BY <1>1, <1>21 DEF vars
<1> QED
  BY <1>4, <1>5, <1>6, <1>7, <1>8, <1>10, <1>11, <1>13, <1>14, <1>15, <1>16, <1>17,
     <1>18, <1>19, <1>20, <1>21
     DEF Next, Environment, Answers, Manager, Connection, Channel

\* So channels end by their owners, and are told when a publisher leaves.
LEMMA EndedStep ==
  ASSUME TypeOK, Phases, Asked, Waiting, EndedByOwner, NoOrphanChannel, [Next]_vars
  PROVE  EndedByOwner' /\ NoOrphanChannel'
<1>0. \A d \in Conns : /\ Told(d) <=> Queued(d, DisconnectMsg)
                       /\ Told(d)' <=> Queued(d, DisconnectMsg)'
  BY DEF Told, Queued
<1>1. EndedByOwner'
  <2> SUFFICES ASSUME NEW d \in Conns,
                      chan'[d] \in {"closing", "dead"} \/ Queued(d, DisconnectMsg)'
               PROVE  Left(d)'
    BY DEF EndedByOwner
  <2>1. chan[d] \in {"closing", "dead"} \/ Queued(d, DisconnectMsg) \/ Left(d)'
    BY EndMovesStep DEF EndMoves
  <2> QED
    BY <2>1, LeftKept DEF EndedByOwner
<1>2. NoOrphanChannel'
  <2> SUFFICES ASSUME NEW d \in Conns, Running(d)', kind'[d] = "publisher",
                      conn'[d] \notin {"creating", "publishing", "vanished"}
               PROVE  Queued(d, DisconnectMsg)'
    BY <1>0 DEF NoOrphanChannel, Running
  <2>1. Running(d) /\ (Queued(d, DisconnectMsg) => Queued(d, DisconnectMsg)')
    BY EndMovesStep DEF EndMoves
  <2>2. CASE conn[d] \in {"creating", "publishing", "vanished"}
    <3>1. PublisherGone(d)
      BY <2>1, <2>2, PublisherKept DEF Running
    <3>2. Tell(d, DisconnectMsg)
      <4>1. conn' # [conn EXCEPT ![d] = "vanished"]
        BY DEF TypeOK
      <4> QED
        BY <3>1, <4>1 DEF PublisherGone, Become
    <3> QED
      BY <3>2, QueuedTell, Messages DEF TypeOK
  <2>3. CASE conn[d] \notin {"creating", "publishing", "vanished"}
    <3>1. kind[d] = "publisher"
      BY <2>1, PublisherKept DEF Running
    <3> QED
      BY <1>0, <2>1, <2>3, <3>1 DEF NoOrphanChannel, Running
  <2> QED
    BY <2>2, <2>3
<1> QED
  BY <1>1, <1>2

(***************************************************************************)
(* InitData messages and their replies.                                    *)
(***************************************************************************)

\* A step keeps Inits when whoever has an InitData queued had it queued before,
\* and waits on unless it is an HTTP player, or has just sent it.
LEMMA InitsFrom ==
  ASSUME Inits,
         \A c \in Conns : conn'[c] \in {"new", "joining", "requesting"} =>
           conn[c] \in {"new", "joining", "requesting"} /\ initReply'[c] = initReply[c],
         \A c, d \in Conns : Queued(d, InitDataMsg(c))' =>
           \/ /\ Queued(d, InitDataMsg(c))
              /\ Once(d, InitDataMsg(c)) => Once(d, InitDataMsg(c))'
              /\ answer'[c] = answer[c] /\ kind'[c] = kind[c]
              /\ \/ conn'[c] = conn[c] /\ initReply'[c] = initReply[c]
                 \/ conn'[c] \in {"waiting", "playing", "ended"} /\ kind[c] = "http"
           \/ /\ answer'[c] = Local(d) /\ conn'[c] = "waiting" /\ initReply'[c] = "pending"
              /\ Once(d, InitDataMsg(c))'
  PROVE  Inits'
<1>1. ASSUME NEW c \in Conns, conn'[c] \in {"new", "joining", "requesting"}
      PROVE  initReply'[c] = "pending"
  BY <1>1 DEF Inits
<1>2. ASSUME NEW c \in Conns, NEW d \in Conns, Queued(d, InitDataMsg(c))'
      PROVE  /\ answer'[c] = Local(d) /\ conn'[c] \in {"waiting", "playing", "ended"}
             /\ Once(d, InitDataMsg(c))'
             /\ kind'[c] # "http" => conn'[c] = "waiting" /\ initReply'[c] = "pending"
  <2>1. CASE Queued(d, InitDataMsg(c))
    <3>1. /\ answer[c] = Local(d) /\ conn[c] \in {"waiting", "playing", "ended"}
          /\ Once(d, InitDataMsg(c))
          /\ kind[c] # "http" => conn[c] = "waiting" /\ initReply[c] = "pending"
      BY <2>1 DEF Inits
    <3> QED
      BY <1>2, <3>1
  <2>2. CASE ~Queued(d, InitDataMsg(c))
    BY <1>2, <2>2
  <2> QED
    BY <2>1, <2>2
<1>3. \A c \in Conns : conn'[c] \in {"new", "joining", "requesting"} => initReply'[c] = "pending"
  BY <1>1
<1>4. \A c, d \in Conns : Queued(d, InitDataMsg(c))' =>
             /\ answer'[c] = Local(d) /\ conn'[c] \in {"waiting", "playing", "ended"}
             /\ Once(d, InitDataMsg(c))'
             /\ kind'[c] # "http" => conn'[c] = "waiting" /\ initReply'[c] = "pending"
  BY <1>2
<1> QED
  BY <1>3, <1>4, Zenon DEF Inits

\* Every step keeps Inits.
LEMMA InitsStep ==
  ASSUME TypeOK, Phases, Asked, Waiting, Inits, [Next]_vars
  PROVE  Inits'
<1> USE DEF connVars, managerVars, channelVars, Become, Turn
<1>0. /\ inbox \in [Conns -> Seq(Message)] /\ conn \in [Conns -> ConnState]
      /\ kind \in [Conns -> Kinds \cup {"unknown"}]
      /\ answer \in [Conns -> Reply]
      /\ initReply \in [Conns -> {"pending", "dropped", "ready"}]
  BY DEF TypeOK
<1>1. ASSUME UNCHANGED <<inbox, initReply>>,
             \A c \in Conns : conn'[c] \in {"new", "joining", "requesting"} =>
               conn[c] \in {"new", "joining", "requesting"},
             \A c, d \in Conns : Queued(d, InitDataMsg(c)) =>
               /\ answer'[c] = answer[c] /\ kind'[c] = kind[c]
               /\ \/ conn'[c] = conn[c]
                  \/ conn'[c] \in {"waiting", "playing", "ended"} /\ kind[c] = "http"
      PROVE  Inits'
  <2>1. \A c, d \in Conns : /\ Queued(d, InitDataMsg(c))' <=> Queued(d, InitDataMsg(c))
                            /\ Once(d, InitDataMsg(c))' <=> Once(d, InitDataMsg(c))
    BY <1>1 DEF Queued, Once
  <2>2. \A c, d \in Conns : Queued(d, InitDataMsg(c))' =>
           \/ /\ Queued(d, InitDataMsg(c))
              /\ Once(d, InitDataMsg(c)) => Once(d, InitDataMsg(c))'
              /\ answer'[c] = answer[c] /\ kind'[c] = kind[c]
              /\ \/ conn'[c] = conn[c] /\ initReply'[c] = initReply[c]
                 \/ conn'[c] \in {"waiting", "playing", "ended"} /\ kind[c] = "http"
           \/ /\ answer'[c] = Local(d) /\ conn'[c] = "waiting" /\ initReply'[c] = "pending"
              /\ Once(d, InitDataMsg(c))'
    BY <1>1, <2>1
  <2> QED
    BY <1>1, <2>2, InitsFrom
<1>2. ASSUME NEW d \in Conns, NEW m \in Message, Tell(d, m),
             \A c \in Conns : m # InitDataMsg(c),
             UNCHANGED <<answer, kind, initReply>>,
             \A c \in Conns : conn'[c] # conn[c] =>
               conn[c] = "publishing" /\ conn'[c] \in {"releasing", "vanished"}
      PROVE  Inits'
  <2>1. ASSUME NEW c \in Conns, NEW e \in Conns
        PROVE  /\ Queued(e, InitDataMsg(c))' => Queued(e, InitDataMsg(c))
               /\ Once(e, InitDataMsg(c)) => Once(e, InitDataMsg(c))'
    <3>1. CASE e = d
      BY <1>0, <1>2, <3>1, QueuedTell, OnceTell, Messages
    <3>2. CASE e # d
      <4>1. inbox'[e] = inbox[e]
        BY <1>0, <1>2, <3>2, QueuedTell
      <4> QED
        BY <4>1 DEF Queued, Once
    <3> QED
      BY <3>1, <3>2
  <2>2. \A c, e \in Conns : Queued(e, InitDataMsg(c)) => conn'[c] = conn[c]
    BY <1>2 DEF Inits
  <2>3. \A c \in Conns : conn'[c] \in {"new", "joining", "requesting"} =>
               conn[c] \in {"new", "joining", "requesting"}
    BY <1>2
  <2> QED
    BY <1>2, <2>1, <2>2, <2>3, InitsFrom
<1>3. ASSUME NEW d \in Conns, inbox[d] # <<>>, DropHead(d),
             UNCHANGED <<answer, kind, conn>>,
             \A c \in Conns : initReply'[c] # initReply[c] =>
               conn[c] = "waiting" /\ Head(inbox[d]) = InitDataMsg(c)
      PROVE  Inits'
  <2>1. ASSUME NEW c \in Conns, NEW e \in Conns, Queued(e, InitDataMsg(c))'
        PROVE  /\ Queued(e, InitDataMsg(c))
               /\ Once(e, InitDataMsg(c)) => Once(e, InitDataMsg(c))'
               /\ initReply'[c] = initReply[c]
    <3>1. CASE e = d
      <4>1. /\ Queued(d, InitDataMsg(c))
            /\ Once(d, InitDataMsg(c)) => /\ Once(d, InitDataMsg(c))'
                                          /\ InitDataMsg(c) # Head(inbox[d])
        BY <1>0, <1>3, <2>1, <3>1, QueuedTail, OnceTail, Messages DEF DropHead
      <4>2. Once(d, InitDataMsg(c))
        BY <4>1 DEF Inits
      <4> QED
        BY <1>3, <3>1, <4>1, <4>2
    <3>2. CASE e # d
      <4>1. inbox'[e] = inbox[e]
        BY <1>0, <1>3, <3>2 DEF DropHead
      <4>2. /\ Queued(e, InitDataMsg(c))
            /\ Once(e, InitDataMsg(c)) => Once(e, InitDataMsg(c))'
        BY <2>1, <4>1 DEF Queued, Once
      <4>3. Head(inbox[d]) # InitDataMsg(c)
        <5> SUFFICES ASSUME Head(inbox[d]) = InitDataMsg(c) PROVE FALSE
          OBVIOUS
        <5>1. Queued(d, InitDataMsg(c))
          BY <1>0, <1>3, QueuedTail, Messages DEF DropHead
        <5>2. answer[c] = Local(d) /\ answer[c] = Local(e)
          BY <4>2, <5>1 DEF Inits
        <5> QED
          BY <3>2, <5>2 DEF Local
      <4> QED
        BY <1>3, <4>2, <4>3
    <3> QED
      BY <3>1, <3>2
  <2>2. \A c \in Conns : conn'[c] \in {"new", "joining", "requesting"} =>
          conn[c] \in {"new", "joining", "requesting"} /\ initReply'[c] = initReply[c]
    BY <1>3
  <2> QED
    BY <1>3, <2>1, <2>2, InitsFrom
<1>4. ASSUME NEW d \in Conns, Drops(d), UNCHANGED <<answer, kind, conn>> PROVE Inits'
  <2>1. \A c \in Conns : initReply'[c] # initReply[c] =>
          conn[c] = "waiting" /\ Queued(d, InitDataMsg(c))
    BY <1>0, <1>4 DEF Drops, Queued
  <2>2. inbox'[d] = <<>> /\ \A e \in Conns : e # d => inbox'[e] = inbox[e]
    BY <1>0, <1>4 DEF Drops
  <2>3. ASSUME NEW c \in Conns, NEW e \in Conns, Queued(e, InitDataMsg(c))'
        PROVE  /\ Queued(e, InitDataMsg(c))
               /\ Once(e, InitDataMsg(c)) => Once(e, InitDataMsg(c))'
               /\ initReply'[c] = initReply[c]
    <3>1. e # d
      BY <2>2, <2>3 DEF Queued
    <3>2. /\ Queued(e, InitDataMsg(c))
          /\ Once(e, InitDataMsg(c)) => Once(e, InitDataMsg(c))'
      BY <2>2, <2>3, <3>1 DEF Queued, Once
    <3>3. ~Queued(d, InitDataMsg(c))
      <4> SUFFICES ASSUME Queued(d, InitDataMsg(c)) PROVE FALSE
        OBVIOUS
      <4>1. answer[c] = Local(d) /\ answer[c] = Local(e)
        BY <3>2 DEF Inits
      <4> QED
        BY <3>1, <4>1 DEF Local
    <3> QED
      BY <2>1, <3>2, <3>3
  <2>4. \A c \in Conns : conn'[c] \in {"new", "joining", "requesting"} =>
          conn[c] \in {"new", "joining", "requesting"} /\ initReply'[c] = initReply[c]
    BY <1>4, <2>1
  <2> QED
    BY <1>4, <2>3, <2>4, InitsFrom
<1>5. ASSUME NEW c \in Conns, RequestInit(c) PROVE Inits'
  <2>1. /\ conn[c] = "requesting" /\ UNCHANGED <<answer, kind, initReply>>
        /\ \A b \in Conns : b # c => conn'[b] = conn[b]
        /\ conn'[c] \in {"waiting", "ended"}
        /\ initReply[c] = "pending"
        /\ \A e \in Conns : ~Queued(e, InitDataMsg(c))
    BY <1>0, <1>5 DEF RequestInit, Inits
  <2>2. CASE UNCHANGED inbox
    BY <1>1, <2>1, <2>2
  <2>3. CASE ~UNCHANGED inbox
    <3>1. PICK d \in Conns : answer[c] = Local(d) /\ Tell(d, InitDataMsg(c)) /\ conn'[c] = "waiting"
      BY <1>0, <1>5, <2>3 DEF RequestInit
    <3>2. Once(d, InitDataMsg(c))' /\ \A e \in Conns : e # d => inbox'[e] = inbox[e]
      <4>1. Once(d, InitDataMsg(c))
        BY <2>1 DEF Once, Queued
      <4> QED
        BY <1>0, <2>1, <3>1, <4>1, OnceTell, QueuedTell, Messages
    <3>3. ASSUME NEW b \in Conns, NEW e \in Conns, Queued(e, InitDataMsg(b))'
          PROVE  \/ b = c /\ e = d
                 \/ /\ b # c /\ Queued(e, InitDataMsg(b))
                    /\ Once(e, InitDataMsg(b)) => Once(e, InitDataMsg(b))'
      <4>1. CASE e = d
        <5>1. InitDataMsg(b) = InitDataMsg(c) <=> b = c
          BY Messages
        <5>2. Queued(d, InitDataMsg(b)) \/ b = c
          BY <1>0, <3>1, <3>3, <4>1, <5>1, QueuedTell, Messages
        <5>3. b # c => (Once(d, InitDataMsg(b)) => Once(d, InitDataMsg(b))')
          BY <1>0, <3>1, <5>1, OnceTell, Messages
        <5> QED
          BY <4>1, <5>2, <5>3
      <4>2. CASE e # d
        <5>1. /\ Queued(e, InitDataMsg(b))
              /\ Once(e, InitDataMsg(b)) => Once(e, InitDataMsg(b))'
          BY <3>2, <3>3, <4>2 DEF Queued, Once
        <5> QED
          BY <2>1, <5>1
      <4> QED
        BY <4>1, <4>2
    <3>4. \A b \in Conns : conn'[b] \in {"new", "joining", "requesting"} =>
            conn[b] \in {"new", "joining", "requesting"} /\ initReply'[b] = initReply[b]
      BY <2>1
    <3> QED
      BY <2>1, <3>1, <3>2, <3>3, <3>4, InitsFrom
  <2> QED
    BY <2>2, <2>3
<1>6. ASSUME NEW c \in Conns, PublishPacket(c) \/ PublisherGone(c) PROVE Inits'
  <2>1. /\ UNCHANGED <<answer, kind, initReply>>
        /\ \A b \in Conns : conn'[b] # conn[b] =>
             conn[b] = "publishing" /\ conn'[b] \in {"releasing", "vanished"}
    BY <1>0, <1>6 DEF PublishPacket, PublisherGone
  <2>2. \/ Tell(c, PacketMsg) \/ Tell(c, DisconnectMsg) \/ UNCHANGED inbox
    BY <1>6 DEF PublishPacket, PublisherGone
  <2>3. CASE UNCHANGED inbox
    <3>1. \A b, d \in Conns : Queued(d, InitDataMsg(b)) => conn'[b] = conn[b]
      BY <2>1 DEF Inits
    <3> QED
      BY <1>1, <2>1, <2>3, <3>1
  <2> QED
    BY <1>2, <2>1, <2>2, <2>3, Messages
<1>7. ASSUME NEW c \in Conns, UpstreamPacket(c) \/ UpstreamErrors(c) PROVE Inits'
  <2>1. UNCHANGED <<conn, answer, kind, initReply>>
    BY <1>7 DEF UpstreamPacket, UpstreamErrors
  <2>2. \/ Tell(c, OriginMsg) \/ Tell(c, DisconnectMsg) \/ UNCHANGED inbox
    BY <1>7 DEF UpstreamPacket, UpstreamErrors
  <2> QED
    BY <1>1, <1>2, <2>1, <2>2, Messages
<1>8. ASSUME NEW d \in Conns, HandlePacket(d) \/ HandleDisconnect(d) PROVE Inits'
  BY <1>3, <1>8 DEF HandlePacket, HandleDisconnect, Handles
<1>9. ASSUME NEW d \in Conns, HandleInitData(d) PROVE Inits'
  <2>1. inbox[d] # <<>> /\ Head(inbox[d]).type = "InitData" /\ UNCHANGED <<conn, answer, kind>>
    BY <1>9 DEF HandleInitData, Handles
  <2>2. Head(inbox[d]).by \in Conns /\ Head(inbox[d]) = InitDataMsg(Head(inbox[d]).by)
    BY <1>0, <2>1, HeadMessage, MessageTypes
  <2>3. CASE /\ conn[Head(inbox[d]).by] = "waiting" /\ DropHead(d)
             /\ initReply' = [initReply EXCEPT ![Head(inbox[d]).by] = "ready"]
    BY <1>0, <1>3, <2>1, <2>2, <2>3
  <2>4. CASE Drops(d)
    BY <1>4, <2>1, <2>4
  <2> QED
    BY <1>9, <2>3, <2>4 DEF HandleInitData
<1>10. ASSUME NEW d \in Conns, OriginFails(d) \/ ChannelExit(d) PROVE Inits'
  BY <1>4, <1>10 DEF OriginFails, ChannelExit
<1>11. ASSUME NEW d \in Conns, BroadcastPacket(d) PROVE Inits'
  <2>1. UNCHANGED <<conn, answer, kind>> /\ (UNCHANGED <<inbox, initReply>> \/ Drops(d))
    BY <1>11 DEF BroadcastPacket
  <2> QED
    BY <1>1, <1>4, <2>1
<1>12. ASSUME NEW c \in Conns, InitAnswered(c) \/ PlayerGone(c) \/ Receive(c) \/ Closed(c)
       PROVE  Inits'
  <2>1. /\ UNCHANGED <<inbox, initReply, answer, kind>>
        /\ \A b \in Conns : b # c => conn'[b] = conn[b]
        /\ conn'[c] \in {"playing", "ended"}
        /\ conn[c] = "waiting" => initReply[c] # "pending" \/ kind[c] = "http"
    BY <1>0, <1>12 DEF InitAnswered, PlayerGone, Receive, Closed
  <2>2. conn[c] \in {"joining", "waiting", "playing"}
    BY <1>12 DEF InitAnswered, PlayerGone, Receive, Closed
  <2>3. \A d \in Conns : Queued(d, InitDataMsg(c)) => kind[c] = "http"
    BY <2>1, <2>2 DEF Inits
  <2> QED
    BY <1>1, <2>1, <2>3
<1>13. ASSUME NEW c \in Conns, NEW n \in Names, Publish(c, n) \/ \E k \in Kinds : Watch(c, n, k)
       PROVE  Inits'
  <2>1. /\ conn[c] = "new" /\ UNCHANGED <<inbox, initReply, answer>>
        /\ \A b \in Conns : b # c => conn'[b] = conn[b] /\ kind'[b] = kind[b]
    BY <1>0, <1>13 DEF Publish, Watch
  <2>2. \A d \in Conns : ~Queued(d, InitDataMsg(c))
    BY <2>1 DEF Inits
  <2> QED
    BY <1>1, <2>1, <2>2
<1>14. ASSUME NEW c \in Conns,
              CreateAnswered(c) \/ SendRelease(c) \/ Vanish(c) \/ JoinAnswered(c)
       PROVE  Inits'
  <2>1. /\ conn[c] \in {"creating", "publishing", "releasing", "joining"}
        /\ UNCHANGED <<inbox, initReply, answer, kind>>
        /\ \A b \in Conns : b # c => conn'[b] = conn[b]
    BY <1>0, <1>14 DEF CreateAnswered, SendRelease, Vanish, JoinAnswered
  <2>2. \A d \in Conns : ~Queued(d, InitDataMsg(c))
    BY <2>1 DEF Inits
  <2>3. conn'[c] \in {"new", "joining", "requesting"} => conn[c] = "joining"
    BY <1>0, <1>14 DEF CreateAnswered, SendRelease, Vanish, JoinAnswered
  <2> QED
    BY <1>1, <2>1, <2>2, <2>3
<1>15. CASE HandleLocalJoin \/ PullFails \/ Confirmed \/ HandleCreate
  <2> PICK b \in Conns : b = Head(requests).by
    BY <1>15, InHand, Created, HeadRequest
       DEF HandleLocalJoin, PullFails, Confirmed, HandleCreate, TypeOK
  <2>1. answer[b] = Pending \/ conn[b] = "creating"
    BY <1>15, InHand, Created DEF HandleLocalJoin, PullFails, Confirmed, HandleCreate
  <2>2. \A d \in Conns : ~Queued(d, InitDataMsg(b))
    <3>1. \A d \in Conns : Local(d).status # Pending.status
      BY DEF Local, Pending
    <3> QED
      BY <2>1, <3>1 DEF Inits
  <2>3. /\ UNCHANGED <<inbox, initReply, conn, kind>>
        /\ \A c \in Conns : c # b => answer'[c] = answer[c]
    BY <1>0, <1>15 DEF HandleLocalJoin, PullFails, Confirmed, HandleCreate, Respond, RespondNew
  <2> QED
    BY <1>1, <2>2, <2>3
<1>16. ASSUME UNCHANGED <<inbox, initReply, conn, kind, answer>> PROVE Inits'
  BY <1>1, <1>16
<1>17. ASSUME NEW d \in Conns, ReaderReleases(d) \/ UpstreamEof(d) \/ OriginConnects(d)
       PROVE  Inits'
  BY <1>16, <1>17 DEF ReaderReleases, UpstreamEof, OriginConnects
<1>18. CASE StartPull \/ HandleRelease \/ Return
  BY <1>16, <1>18 DEF StartPull, HandleRelease, Return
<1>19. CASE UNCHANGED vars
  BY <1>16, <1>19 DEF vars
<1> QED
  BY <1>5, <1>6, <1>7, <1>8, <1>9, <1>10, <1>11, <1>12, <1>13, <1>14, <1>15, <1>17,
     <1>18, <1>19
     DEF Next, Environment, Answers, Manager, Connection, Channel

\* A channel fails under its players by its origin, or by an HTTP player that left.
LEMMA FailsStep ==
  ASSUME TypeOK, Inits, [Next]_vars, NEW d \in Conns,
         chan[d] # "failed", chan'[d] = "failed", \E c \in Conns : Subscribed(c, d)
  PROVE  \/ chan[d] = "starting" \/ Head(inbox[d]) = PacketMsg
         \/ \E c \in Conns : kind[c] = "http" /\ Head(inbox[d]) = InitDataMsg(c)
<1> USE DEF connVars, managerVars, channelVars, Become, Turn
<1>0. inbox \in [Conns -> Seq(Message)] /\ chan \in [Conns -> ChanState]
  BY DEF TypeOK
<1>1. CASE OriginFails(d)
  BY <1>0, <1>1, HeadMessage, MessageTypes DEF OriginFails, Handles
<1>2. ~BroadcastPacket(d)
  BY <1>0 DEF BroadcastPacket, Watched
<1>3. CASE HandleInitData(d)
  <2> DEFINE c == Head(inbox[d]).by
  <2>1. inbox[d] # <<>> /\ Head(inbox[d]).type = "InitData"
    BY <1>3 DEF HandleInitData, Handles
  <2>2. c \in Conns /\ Head(inbox[d]) = InitDataMsg(c)
    BY <1>0, <2>1, HeadMessage, MessageTypes
  <2>3. conn[c] # "waiting"
    BY <1>3 DEF HandleInitData
  <2>4. Queued(d, InitDataMsg(c))
    <3>1. inbox[d] \in Seq(Message) /\ 1 \in 1 .. Len(inbox[d]) /\ inbox[d][1] = Head(inbox[d])
      BY <1>0, <2>1
    <3> QED
      BY <2>2, <3>1 DEF Queued
  <2>5. kind[c] = "http"
    BY <2>2, <2>3, <2>4 DEF Inits
  <2> QED
    BY <2>2, <2>5
<1>4. ASSUME NEW e \in Conns,
             OriginConnects(e) \/ OriginFails(e) \/ HandlePacket(e) \/ BroadcastPacket(e)
             \/ HandleInitData(e) \/ HandleDisconnect(e) \/ ChannelExit(e)
      PROVE  OriginFails(d) \/ HandleInitData(d)
  <2>1. e = d
    BY <1>0, <1>4 DEF OriginConnects, OriginFails, HandlePacket, BroadcastPacket,
                      HandleInitData, HandleDisconnect, ChannelExit
  <2> QED
    BY <1>0, <1>2, <1>4, <2>1 DEF OriginConnects, HandlePacket, HandleDisconnect, ChannelExit
<1>5. ~HandleCreate /\ ~Confirmed
  BY <1>0 DEF HandleCreate, Confirmed
<1>6. \A c \in Conns :
        ~(ReaderReleases(c) \/ Connection(c) \/ PublishPacket(c) \/ PublisherGone(c)
          \/ Vanish(c) \/ PlayerGone(c) \/ UpstreamPacket(c) \/ UpstreamErrors(c)
          \/ UpstreamEof(c) \/ \E n \in Names : Publish(c, n) \/ \E k \in Kinds : Watch(c, n, k))
  BY DEF ReaderReleases, Connection, PublishPacket, PublisherGone, Vanish, PlayerGone,
         UpstreamPacket, UpstreamErrors, UpstreamEof, Publish, Watch, CreateAnswered,
         SendRelease, JoinAnswered, RequestInit, InitAnswered, Receive, Closed
<1>7. ~(HandleLocalJoin \/ StartPull \/ PullFails \/ HandleRelease \/ Return \/ UNCHANGED vars)
  BY DEF HandleLocalJoin, StartPull, PullFails, HandleRelease, Return, vars
<1> QED
  BY <1>1, <1>3, <1>4, <1>5, <1>6, <1>7
     DEF Next, Environment, Answers, Manager, Channel

(***************************************************************************)
(* What the node owes to those who wait.                                   *)
(***************************************************************************)

\* A player that has gone on has been given a handle, and whoever is replied to with a new
\* channel has its reply before the handler returns.
Watching ==
  /\ \A c \in Conns :
       conn[c] \in {"requesting", "waiting", "playing"} => answer[c] \notin {Pending, Dropped}
  /\ step = "returning" => answer[Head(requests).by] # Pending

\* A channel that runs for no publisher has its reader, or one that ended without a word.
PulledOrTold ==
  \A d \in Conns :
    Running(d) /\ kind[d] # "publisher" =>
      reader[d] \in {"reading", "lost"} \/ Queued(d, DisconnectMsg)

\* What is owed to one connection, by the manager and by a channel.
OwedReply(c) ==
  conn[c] \in {"creating", "joining"} /\ answer[c] = Pending =>
    Requested(CreateReq(c, app[c])) \/ Requested(JoinReq(c, app[c]))

OwedInit(c) ==
  conn[c] = "waiting" /\ initReply[c] = "pending" =>
    \E d \in Conns : answer[c] = Local(d) /\ Alive(d) /\ Queued(d, InitDataMsg(c))

\* The manager replies to the connection whose request is the first, and to no other.
LEMMA AnswerStep ==
  ASSUME TypeOK, Phases, Asked, Waiting, [Next]_vars, NEW c \in Conns
  PROVE  \/ answer'[c] = answer[c]
         \/ /\ requests # <<>> /\ Head(requests).by = c /\ step # "returning"
            /\ conn[c] \in {"creating", "joining", "ended"}
            /\ answer'[c] # Pending /\ conn' = conn
<1>0. answer \in [Conns -> Reply] /\ requests \in Seq(Request)
  BY DEF TypeOK
<1>1. CASE Quiet
  BY <1>1 DEF Quiet
<1>2. ASSUME NEW e \in Conns, NEW n \in Names,
             Publish(e, n) \/ \E k \in Kinds : Watch(e, n, k)
      PROVE  answer' = answer
  BY <1>2 DEF Publish, Watch
<1>3. ASSUME NEW d \in Conns, SendRelease(d) \/ ReaderReleases(d) PROVE answer' = answer
  BY <1>3 DEF SendRelease, ReaderReleases, connVars
<1>4. CASE HandleRelease \/ Return
  BY <1>4 DEF HandleRelease, Return, connVars
<1>5. CASE HandleCreate \/ HandleLocalJoin \/ PullFails \/ Confirmed
  <2>1. /\ requests # <<>> /\ step # "returning"
        /\ conn[Head(requests).by] \in {"creating", "joining", "ended"}
    BY <1>5, InHand, Created DEF HandleCreate, HandleLocalJoin, PullFails, Confirmed
  <2>2. PICK b \in Conns : b = Head(requests).by
    BY <1>0, <2>1, HeadRequest
  <2>3. PICK r : answer' = [answer EXCEPT ![b] = r] /\ conn' = conn /\ r # Pending
    <3>1. \A d : Local(d) # Pending /\ Origin(d) # Pending /\ Dropped # Pending
      BY DEF Local, Origin, Dropped, Pending
    <3> QED
      BY <1>5, <2>2, <3>1
         DEF HandleCreate, HandleLocalJoin, PullFails, Confirmed, Respond, RespondNew
  <2> QED
    BY <1>0, <2>1, <2>2, <2>3
<1> QED
  BY <1>1, <1>2, <1>3, <1>4, <1>5, Steps

\* A player goes on when it has a handle.
LEMMA PlayerStep ==
  ASSUME TypeOK, [Next]_vars, NEW c \in Conns,
         conn'[c] \in {"requesting", "waiting", "playing"}
  PROVE  \/ conn[c] \in {"requesting", "waiting", "playing"}
         \/ conn[c] = "joining" /\ answer[c] \notin {Pending, Dropped} /\ answer' = answer
<1> USE DEF connVars, managerVars, channelVars, Become
<1>0. conn \in [Conns -> ConnState] /\ answer \in [Conns -> Reply]
  BY DEF TypeOK
<1>1. ASSUME NEW e \in Conns,
             \/ CreateAnswered(e) \/ PublishPacket(e) \/ PublisherGone(e) \/ Vanish(e)
             \/ SendRelease(e) \/ PlayerGone(e) \/ Receive(e) \/ Closed(e)
      PROVE  conn'[c] = conn[c]
  BY <1>0, <1>1 DEF CreateAnswered, PublishPacket, PublisherGone, Vanish, SendRelease,
                    PlayerGone, Receive, Closed
<1>2. ASSUME NEW e \in Conns, NEW n \in Names,
             Publish(e, n) \/ \E k \in Kinds : Watch(e, n, k)
      PROVE  conn'[c] = conn[c]
  BY <1>0, <1>2 DEF Publish, Watch
<1>3. ASSUME NEW e \in Conns, RequestInit(e) \/ InitAnswered(e)
      PROVE  conn'[c] = conn[c] \/ conn[c] \in {"requesting", "waiting"}
  BY <1>0, <1>3 DEF RequestInit, InitAnswered
<1>4. ASSUME NEW e \in Conns, JoinAnswered(e)
      PROVE  \/ conn'[c] = conn[c]
             \/ conn[c] = "joining" /\ answer[c] \notin {Pending, Dropped} /\ answer' = answer
  BY <1>0, <1>4 DEF JoinAnswered, Dropped
<1>5. ASSUME NEW d \in Conns,
             UpstreamPacket(d) \/ UpstreamErrors(d) \/ UpstreamEof(d) \/ Channel(d)
      PROVE  conn' = conn
  BY <1>5 DEF UpstreamPacket, UpstreamErrors, UpstreamEof, Channel, OriginConnects, OriginFails,
              HandlePacket, BroadcastPacket, HandleInitData, HandleDisconnect, ChannelExit,
              ReaderReleases
<1>6. CASE Answers \/ Manager
  BY <1>6 DEF Answers, PullFails, Confirmed, Manager, HandleCreate, HandleLocalJoin, StartPull,
              HandleRelease, Return
<1> QED
  BY <1>1, <1>2, <1>3, <1>4, <1>5, <1>6 DEF vars, Next, Environment, Connection

\* Every step keeps the players watching.
LEMMA WatchingStep ==
  ASSUME TypeOK, Phases, Asked, Waiting, Watching, [Next]_vars
  PROVE  Watching'
<1>1. ASSUME NEW c \in Conns, conn'[c] \in {"requesting", "waiting", "playing"}
      PROVE  answer'[c] \notin {Pending, Dropped}
  <2>1. \/ conn[c] \in {"requesting", "waiting", "playing"}
        \/ conn[c] = "joining" /\ answer[c] \notin {Pending, Dropped} /\ answer' = answer
    BY <1>1, PlayerStep
  <2>2. answer'[c] = answer[c]
    BY <1>1, <2>1, AnswerStep
  <2> QED
    BY <2>1, <2>2 DEF Watching
<1>2. ASSUME step' = "returning" PROVE answer'[Head(requests').by] # Pending
  <2>0. requests \in Seq(Request) /\ answer \in [Conns -> Reply]
    BY DEF TypeOK
  <2>1. CASE Quiet
    BY <1>2, <2>1 DEF Quiet, Watching
  <2>2. ASSUME NEW r \in Request, requests' = Append(requests, r), step' = step, answer' = answer
        PROVE  answer'[Head(requests').by] # Pending
    <3>1. requests # <<>>
      BY <1>2, <2>2 DEF Waiting
    <3>2. Head(requests') = Head(requests)
      BY <2>0, <2>2, <3>1
    <3> QED
      BY <1>2, <2>2, <3>2 DEF Watching
  <2>3. ASSUME NEW e \in Conns, NEW n \in Names,
               Publish(e, n) \/ \E k \in Kinds : Watch(e, n, k)
        PROVE  answer'[Head(requests').by] # Pending
    <3>1. CreateReq(e, n) \in Request /\ JoinReq(e, n) \in Request
      BY DEF CreateReq, JoinReq, Request
    <3> QED
      BY <2>2, <2>3, <3>1 DEF Publish, Watch, Ask
  <2>4. ASSUME NEW d \in Conns, SendRelease(d) \/ ReaderReleases(d)
        PROVE  answer'[Head(requests').by] # Pending
    <3>1. ReleaseReq(d, app[d]) \in Request
      BY <2>4 DEF SendRelease, ReaderReleases, ReleaseReq, Request, Phases
    <3> QED
      BY <2>2, <2>4, <3>1 DEF SendRelease, ReaderReleases, Ask, connVars
  <2>5. CASE HandleCreate \/ Confirmed
    <3>1. PICK b \in Conns : b = Head(requests).by
      BY <2>0, <2>5, InHand, Created, HeadRequest DEF HandleCreate, Confirmed
    <3>2. requests' = requests /\ answer' = [answer EXCEPT ![b] = Origin(b)]
      BY <2>5, <3>1 DEF HandleCreate, Confirmed, RespondNew
    <3>3. answer'[b] = Origin(b)
      BY <2>0, <3>2
    <3> QED
      BY <3>1, <3>2, <3>3 DEF Origin, Pending
  <2>6. ~(HandleLocalJoin \/ PullFails \/ HandleRelease \/ Return)
    BY <1>2 DEF HandleLocalJoin, PullFails, HandleRelease, Return, Respond, Take
  <2> QED
    BY <2>1, <2>3, <2>4, <2>5, <2>6, Steps
<1> QED
  BY <1>1, <1>2 DEF Watching, Pending, Dropped

\* A reader goes on, ends without a word, or tells its channel.
LEMMA ReaderKept ==
  ASSUME TypeOK, Phases, Asked, Waiting, [Next]_vars,
         NEW d \in Conns, reader[d] \in {"reading", "lost"}
  PROVE  reader'[d] \in {"reading", "lost"} \/ UpstreamErrors(d)
<1> USE DEF connVars, managerVars, channelVars
<1>0. reader \in [Conns -> {"absent", "reading", "releasing", "ended", "lost"}]
  BY DEF TypeOK
<1>1. ASSUME NEW e \in Conns,
             UpstreamPacket(e) \/ UpstreamEof(e) \/ ReaderReleases(e)
      PROVE  reader'[d] \in {"reading", "lost"}
  BY <1>0, <1>1 DEF UpstreamPacket, UpstreamEof, ReaderReleases
<1>2. ASSUME NEW e \in Conns, UpstreamErrors(e), e # d PROVE reader'[d] \in {"reading", "lost"}
  BY <1>0, <1>2 DEF UpstreamErrors
<1>3. CASE Confirmed
  BY <1>0, <1>3 DEF Confirmed
<1>4. ASSUME NEW c \in Conns, NEW n \in Names,
             Publish(c, n) \/ \E k \in Kinds : Watch(c, n, k)
      PROVE  reader' = reader
  BY <1>4 DEF Publish, Watch
<1>5. ASSUME NEW c \in Conns,
             Connection(c) \/ PublishPacket(c) \/ PublisherGone(c) \/ Vanish(c) \/ PlayerGone(c)
      PROVE  reader' = reader
  BY <1>5 DEF Connection, PublishPacket, PublisherGone, Vanish, PlayerGone, CreateAnswered,
              SendRelease, JoinAnswered, RequestInit, InitAnswered, Receive, Closed
<1>6. ASSUME NEW e \in Conns, Channel(e), ~ReaderReleases(e) PROVE reader' = reader
  BY <1>6 DEF Channel, OriginConnects, OriginFails, HandlePacket, BroadcastPacket,
              HandleInitData, HandleDisconnect, ChannelExit
<1>7. CASE Manager \/ PullFails
  BY <1>7 DEF Manager, HandleCreate, HandleLocalJoin, StartPull, HandleRelease, Return, PullFails
<1> QED
  BY <1>1, <1>2, <1>3, <1>4, <1>5, <1>6, <1>7 DEF vars, Next, Environment, Answers

\* So a channel that is pulled has its reader, or is told to end.
LEMMA PulledStep ==
  ASSUME TypeOK, Phases, Asked, Waiting, PulledOrTold, [Next]_vars
  PROVE  PulledOrTold'
<1> SUFFICES ASSUME NEW d \in Conns, Running(d)', kind'[d] # "publisher",
                    reader'[d] \notin {"reading", "lost"}
             PROVE  Queued(d, DisconnectMsg)'
  BY DEF PulledOrTold
<1>1. Running(d) /\ (Queued(d, DisconnectMsg) => Queued(d, DisconnectMsg)')
  BY EndMovesStep DEF EndMoves
<1>2. kind[d] # "publisher"
  BY <1>1, PublisherKept DEF Running
<1>3. CASE reader[d] \in {"reading", "lost"}
  <2>1. UpstreamErrors(d)
    BY <1>3, ReaderKept
  <2>2. Tell(d, DisconnectMsg)
    BY <1>1, <2>1 DEF UpstreamErrors, Running, Alive
  <2> QED
    BY <2>2, QueuedTell, Messages DEF TypeOK
<1>4. CASE reader[d] \notin {"reading", "lost"}
  BY <1>1, <1>2, <1>4 DEF PulledOrTold
<1> QED
  BY <1>3, <1>4

\* A Create or Join stays in the manager's queue until it is answered.
LEMMA OwedReplyStep ==
  ASSUME TypeOK, Phases, Asked, Waiting, Watching, [Next]_vars, NEW c \in Conns, OwedReply(c)
  PROVE  OwedReply(c)'
<1>0. /\ conn \in [Conns -> ConnState] /\ app \in [Conns -> Names \cup {None}]
      /\ answer \in [Conns -> Reply] /\ requests \in Seq(Request)
  BY DEF TypeOK
<1>1. PICK p, q : p = CreateReq(c, app[c]) /\ q = JoinReq(c, app[c])
  OBVIOUS
<1>2. conn[c] \in {"creating", "joining"} => p \in Request /\ q \in Request
  BY <1>1 DEF Phases, CreateReq, JoinReq, Request
<1>3. ASSUME app'[c] = app[c], answer'[c] = answer[c],
             conn'[c] \in {"creating", "joining"} => conn[c] \in {"creating", "joining"},
             \A r \in {p, q} : answer[c] = Pending /\ r \in Request /\ Requested(r) => Requested(r)'
      PROVE  OwedReply(c)'
  <2>1. p = CreateReq(c, app'[c]) /\ q = JoinReq(c, app'[c])
    BY <1>1, <1>3
  <2> QED
    BY <1>1, <1>2, <1>3, <2>1, Zenon DEF OwedReply, Pending, CreateReq, JoinReq
<1>4. CASE Quiet
  BY <1>3, <1>4 DEF Quiet, Requested
<1>5. ASSUME NEW e \in Conns, NEW n \in Names,
             Publish(e, n) \/ \E k \in Kinds : Watch(e, n, k)
      PROVE  OwedReply(c)'
  <2>1. PICK r \in Request : /\ r \in {CreateReq(e, n), JoinReq(e, n)}
                             /\ requests' = Append(requests, r)
    BY <1>5 DEF Publish, Watch, Ask, CreateReq, JoinReq, Request
  <2>2. Requested(r)' /\ \A x \in Request : Requested(x) => Requested(x)'
    BY <1>0, <2>1, RequestedAppend
  <2>3. CASE e = c
    <3>1. app'[c] = n
      BY <1>0, <1>5, <2>3 DEF Publish, Watch
    <3>2. r \in {CreateReq(c, app'[c]), JoinReq(c, app'[c])}
      BY <2>1, <2>3, <3>1
    <3> QED
      BY <2>2, <3>2 DEF OwedReply
  <2>4. CASE e # c
    <3>1. conn'[c] = conn[c] /\ app'[c] = app[c] /\ answer' = answer
      BY <1>0, <1>5, <2>4 DEF Publish, Watch, Become
    <3> QED
      BY <1>3, <2>2, <3>1
  <2> QED
    BY <2>3, <2>4
<1>6. ASSUME NEW d \in Conns, SendRelease(d) \/ ReaderReleases(d) PROVE OwedReply(c)'
  <2>1. PICK r \in Request : requests' = Append(requests, r)
    BY <1>6 DEF SendRelease, ReaderReleases, ReleaseReq, Request, Phases, Ask
  <2>2. \A x \in Request : Requested(x) => Requested(x)'
    BY <1>0, <2>1, RequestedAppend
  <2>3. /\ app' = app /\ answer' = answer
        /\ conn'[c] \in {"creating", "joining"} => conn[c] \in {"creating", "joining"}
    BY <1>0, <1>6 DEF SendRelease, ReaderReleases, Become, connVars
  <2> QED
    BY <1>3, <2>2, <2>3
<1>7. CASE HandleCreate \/ Confirmed
  <2>1. UNCHANGED <<conn, app, requests>>
    BY <1>7 DEF HandleCreate, Confirmed, RespondNew
  <2>2. CASE answer'[c] = answer[c]
    BY <1>3, <2>1, <2>2 DEF Requested
  <2>3. CASE answer'[c] # answer[c]
    BY <2>3, AnswerStep DEF OwedReply, Pending
  <2> QED
    BY <2>2, <2>3
<1>8. CASE HandleLocalJoin \/ PullFails \/ HandleRelease \/ Return
  <2>1. /\ requests # <<>> /\ requests' = Tail(requests) /\ conn' = conn /\ app' = app
    BY <1>8, InHand
       DEF HandleLocalJoin, PullFails, HandleRelease, Return, Respond, Take, Waiting, connVars
  <2>2. CASE answer'[c] # answer[c]
    BY <2>2, AnswerStep DEF OwedReply, Pending
  <2>3. CASE answer'[c] = answer[c]
    <3>1. ASSUME answer[c] = Pending PROVE Head(requests) \notin {p, q}
      <4> SUFFICES ASSUME Head(requests).type \in {"Create", "Join"}, Head(requests).by = c
                   PROVE  FALSE
        BY <1>1 DEF CreateReq, JoinReq
      <4>1. HandleLocalJoin \/ PullFails
        BY <1>8, <3>1 DEF HandleRelease, Return, Take, Watching
      <4>2. \E x : answer'[c] \in {Dropped, Local(x)}
        BY <1>0, <4>1 DEF HandleLocalJoin, PullFails, Respond
      <4> QED
        BY <2>3, <3>1, <4>2 DEF Dropped, Local, Pending
    <3>2. \A r \in {p, q} : answer[c] = Pending /\ r \in Request /\ Requested(r) => Requested(r)'
      BY <1>0, <2>1, <3>1, RequestedTail
    <3> QED
      BY <1>3, <2>1, <2>3, <3>2
  <2> QED
    BY <2>2, <2>3
<1> QED
  BY <1>4, <1>5, <1>6, <1>7, <1>8, Steps

\* A connection comes to wait by asking for the cached packets.
LEMMA WaitStep ==
  ASSUME TypeOK, [Next]_vars, NEW c \in Conns, conn'[c] = "waiting"
  PROVE  conn[c] = "waiting" \/ RequestInit(c)
<1> USE DEF connVars, managerVars, channelVars, Become
<1>0. conn \in [Conns -> ConnState] /\ answer \in [Conns -> Reply]
  BY DEF TypeOK
<1>1. ASSUME NEW e \in Conns, NEW n \in Names,
             Publish(e, n) \/ \E k \in Kinds : Watch(e, n, k)
      PROVE  conn[c] = "waiting"
  BY <1>0, <1>1 DEF Publish, Watch
<1>2. ASSUME NEW e \in Conns,
             \/ CreateAnswered(e) \/ PublishPacket(e) \/ PublisherGone(e) \/ Vanish(e)
             \/ SendRelease(e) \/ PlayerGone(e) \/ InitAnswered(e) \/ Receive(e) \/ Closed(e)
      PROVE  conn[c] = "waiting"
  BY <1>0, <1>2 DEF CreateAnswered, PublishPacket, PublisherGone, Vanish, SendRelease,
                    PlayerGone, InitAnswered, Receive, Closed
<1>3. ASSUME NEW e \in Conns, JoinAnswered(e) PROVE conn[c] = "waiting"
  <2>1. answer[e].status \in {"dropped", "local", "origin"}
    BY <1>0, <1>3 DEF JoinAnswered, Reply, Pending, Dropped, Local, Origin
  <2> QED
    BY <1>0, <1>3, <2>1 DEF JoinAnswered
<1>4. ASSUME NEW e \in Conns, RequestInit(e), e # c PROVE conn[c] = "waiting"
  BY <1>0, <1>4 DEF RequestInit
<1>5. ASSUME NEW d \in Conns,
             UpstreamPacket(d) \/ UpstreamErrors(d) \/ UpstreamEof(d) \/ Channel(d)
      PROVE  conn[c] = "waiting"
  BY <1>5 DEF UpstreamPacket, UpstreamErrors, UpstreamEof, Channel, OriginConnects, OriginFails,
              HandlePacket, BroadcastPacket, HandleInitData, HandleDisconnect, ChannelExit,
              ReaderReleases
<1>6. CASE Answers \/ Manager
  BY <1>6 DEF Answers, PullFails, Confirmed, Manager, HandleCreate, HandleLocalJoin, StartPull,
              HandleRelease, Return
<1> QED
  BY <1>1, <1>2, <1>3, <1>4, <1>5, <1>6 DEF vars, Next, Environment, Connection

\* The steps of a channel's own task but its connecting to the origin.
ChannelWorks(d) ==
  \/ OriginFails(d) \/ HandlePacket(d) \/ BroadcastPacket(d) \/ HandleInitData(d)
  \/ HandleDisconnect(d) \/ ChannelExit(d)

\* A step that answers no InitData and takes none from a channel that lives.
Undisturbed ==
  /\ initReply' = initReply
  /\ \A d \in Conns, m \in Message :
       Alive(d) /\ Queued(d, m) => Alive(d)' /\ Queued(d, m)'

\* Other steps leave a channel alive, an InitData where it is queued and its reply alone.
LEMMA ChannelAlone ==
  ASSUME TypeOK, Phases, Asked, Waiting, [Next]_vars, \A e \in Conns : ~ChannelWorks(e)
  PROVE  Undisturbed
<1> USE DEF connVars, managerVars, channelVars, Turn
<1>0. /\ inbox \in [Conns -> Seq(Message)] /\ requests \in Seq(Request)
      /\ chan \in [Conns -> ChanState]
  BY DEF TypeOK
<1>1. ASSUME UNCHANGED <<inbox, initReply>>, \A d \in Conns : Alive(d) => Alive(d)' PROVE Undisturbed
  BY <1>1 DEF Queued, Undisturbed
<1>2. ASSUME NEW e \in Conns, NEW x \in Message, Tell(e, x), UNCHANGED <<chan, initReply>>
      PROVE  Undisturbed
  <2> SUFFICES ASSUME NEW d \in Conns, NEW m \in Message, Queued(d, m) PROVE Queued(d, m)'
    BY <1>2 DEF Alive, Undisturbed
  <2>1. CASE e = d
    BY <1>0, <1>2, <2>1, QueuedTell
  <2>2. CASE e # d
    BY <1>0, <1>2, <2>2, QueuedTell DEF Queued
  <2> QED
    BY <2>1, <2>2
<1>3. ASSUME UNCHANGED <<inbox, chan, initReply>> PROVE Undisturbed
  BY <1>1, <1>3 DEF Alive
<1>4. ASSUME NEW e \in Conns, NEW n \in Names,
             Publish(e, n) \/ \E k \in Kinds : Watch(e, n, k)
      PROVE  Undisturbed
  BY <1>3, <1>4 DEF Publish, Watch
<1>5. ASSUME NEW e \in Conns,
             \/ CreateAnswered(e) \/ Vanish(e) \/ SendRelease(e) \/ JoinAnswered(e)
             \/ InitAnswered(e) \/ PlayerGone(e) \/ Receive(e) \/ Closed(e)
             \/ UpstreamEof(e) \/ ReaderReleases(e)
      PROVE  Undisturbed
  <2>1. UNCHANGED <<inbox, chan, initReply>>
    BY <1>5 DEF CreateAnswered, Vanish, SendRelease, JoinAnswered, InitAnswered, PlayerGone,
                Receive, Closed, UpstreamEof, ReaderReleases
  <2> QED
    BY <1>3, <2>1
<1>6. ASSUME NEW e \in Conns,
             \/ PublishPacket(e) \/ PublisherGone(e) \/ RequestInit(e)
             \/ UpstreamPacket(e) \/ UpstreamErrors(e)
      PROVE  Undisturbed
  <2>1. UNCHANGED <<chan, initReply>>
    BY <1>6 DEF PublishPacket, PublisherGone, RequestInit, UpstreamPacket, UpstreamErrors
  <2>2. UNCHANGED inbox \/ \E d \in Conns, m \in Message : Tell(d, m)
    BY <1>6, Messages DEF PublishPacket, PublisherGone, RequestInit, UpstreamPacket,
                          UpstreamErrors
  <2> QED
    BY <1>2, <1>3, <2>1, <2>2
<1>7. CASE StartPull \/ PullFails \/ HandleLocalJoin \/ HandleRelease \/ Return
  BY <1>3, <1>7 DEF StartPull, PullFails, HandleLocalJoin, HandleRelease, Return
<1>8. CASE HandleCreate \/ Confirmed
  <2>1. PICK b \in Conns : b = Head(requests).by
    BY <1>0, <1>8, InHand, Created, HeadRequest DEF HandleCreate, Confirmed
  <2>2. /\ UNCHANGED <<inbox, initReply>> /\ chan'[b] \in {"starting", "running"}
        /\ \A d \in Conns : d # b => chan'[d] = chan[d]
    BY <1>0, <1>8, <2>1 DEF HandleCreate, Confirmed
  <2> QED
    BY <1>1, <2>2 DEF Alive
<1>9. ASSUME NEW e \in Conns, OriginConnects(e) PROVE Undisturbed
  <2>1. /\ UNCHANGED <<inbox, initReply>> /\ chan'[e] = "running"
        /\ \A d \in Conns : d # e => chan'[d] = chan[d]
    BY <1>0, <1>9 DEF OriginConnects
  <2> QED
    BY <1>1, <2>1 DEF Alive
<1>10. CASE UNCHANGED vars
  BY <1>3, <1>10 DEF vars
<1> QED
  BY <1>4, <1>5, <1>6, <1>7, <1>8, <1>9, <1>10
     DEF Next, Environment, Answers, Manager, Connection, Channel, ChannelWorks

\* A connection's InitData was not answered, and stays where it is.
InitKept(c) ==
  /\ initReply[c] = "pending"
  /\ \A d \in Conns :
       Alive(d) /\ Queued(d, InitDataMsg(c)) => Alive(d)' /\ Queued(d, InitDataMsg(c))'

\* A channel's own task answers an InitData, drops it with its queue or leaves it there.
LEMMA InitReplied ==
  ASSUME TypeOK, NEW e \in Conns, ChannelWorks(e),
         NEW c \in Conns, conn[c] = "waiting", initReply'[c] = "pending"
  PROVE  InitKept(c)
<1> USE DEF Turn
<1> DEFINE m == InitDataMsg(c)
<1>0. /\ chan \in [Conns -> ChanState] /\ inbox \in [Conns -> Seq(Message)]
      /\ initReply \in [Conns -> {"pending", "dropped", "ready"}] /\ m \in Message
  BY DEF TypeOK, Message
<1>1. ASSUME Drops(e), \A d \in Conns : d # e => chan'[d] = chan[d] PROVE InitKept(c)
  <2>1. initReply[c] = "pending" /\ ~Queued(e, m)
    BY <1>1 DEF Drops, Queued
  <2>2. \A d \in Conns : d # e => inbox'[d] = inbox[d]
    BY <1>0, <1>1 DEF Drops
  <2> QED
    BY <1>1, <2>1, <2>2 DEF Alive, Queued, InitKept
<1>2. ASSUME inbox[e] # <<>>, DropHead(e), Head(inbox[e]) # m, initReply[c] = "pending",
             \A d \in Conns : Alive(d) => Alive(d)'
      PROVE  InitKept(c)
  <2>1. Head(inbox[e]) \in Message /\ inbox' = [inbox EXCEPT ![e] = Tail(@)]
    BY <1>0, <1>2, HeadMessage DEF DropHead
  <2>2. Queued(e, m) => Queued(e, m)'
    BY <1>0, <1>2, <2>1, QueuedTail
  <2>3. \A d \in Conns : d # e => inbox'[d] = inbox[d]
    BY <1>0, <2>1
  <2> QED
    BY <1>2, <2>2, <2>3 DEF Queued, InitKept
<1>3. CASE OriginFails(e) \/ ChannelExit(e)
  BY <1>0, <1>1, <1>3 DEF OriginFails, ChannelExit
<1>4. CASE HandlePacket(e) \/ HandleDisconnect(e)
  <2>1. /\ inbox[e] # <<>> /\ DropHead(e) /\ initReply' = initReply
        /\ Head(inbox[e]).type # "InitData"
    BY <1>4 DEF HandlePacket, HandleDisconnect, Handles, connVars
  <2>2. \A d \in Conns : Alive(d) => Alive(d)'
    BY <1>0, <1>4 DEF HandlePacket, HandleDisconnect, Alive
  <2> QED
    BY <1>2, <2>1, <2>2 DEF InitDataMsg
<1>5. CASE BroadcastPacket(e)
  <2>1. CASE Drops(e) /\ chan' = [chan EXCEPT ![e] = "failed"]
    BY <1>0, <1>1, <2>1
  <2>2. CASE UNCHANGED <<inbox, initReply>> /\ chan' = [chan EXCEPT ![e] = "running"]
    <3>1. \A d \in Conns : Alive(d) => Alive(d)'
      BY <1>0, <2>2 DEF Alive
    <3> QED
      BY <2>2, <3>1 DEF InitKept, Queued
  <2> QED
    BY <1>5, <2>1, <2>2 DEF BroadcastPacket
<1>6. CASE HandleInitData(e)
  <2>1. inbox[e] # <<>>
    BY <1>6 DEF HandleInitData, Handles
  <2>2. CASE Drops(e) /\ chan' = [chan EXCEPT ![e] = "failed"]
    BY <1>0, <1>1, <2>2
  <2>3. CASE /\ initReply' = [initReply EXCEPT ![Head(inbox[e]).by] = "ready"]
             /\ DropHead(e) /\ UNCHANGED chan
    <3>1. Head(inbox[e]) # m /\ initReply[c] = "pending"
      BY <1>0, <2>3 DEF InitDataMsg
    <3> QED
      BY <1>2, <2>1, <2>3, <3>1 DEF Alive
  <2> QED
    BY <1>6, <2>2, <2>3 DEF HandleInitData
<1> QED
  BY <1>3, <1>4, <1>5, <1>6 DEF ChannelWorks

\* A player's InitData stays in the queue of a channel that lives until it is answered.
LEMMA OwedInitStep ==
  ASSUME TypeOK, Phases, Asked, Waiting, [Next]_vars, NEW c \in Conns, OwedInit(c)
  PROVE  OwedInit(c)'
<1> DEFINE m == InitDataMsg(c)
<1> SUFFICES ASSUME conn'[c] = "waiting", initReply'[c] = "pending"
             PROVE  \E d \in Conns : answer'[c] = Local(d) /\ Alive(d)' /\ Queued(d, m)'
  BY DEF OwedInit, Local
<1>1. m \in Message
  BY DEF Message
<1>2. CASE RequestInit(c)
  <2>1. PICK d \in Conns :
          /\ answer[c] = Local(d)
          /\ (Alive(d) /\ Tell(d, m)) \/ Become(c, "ended")
    BY <1>2 DEF RequestInit
  <2>2. Alive(d) /\ Tell(d, m) /\ answer' = answer /\ chan' = chan
    BY <1>2, <2>1 DEF RequestInit, Become, TypeOK
  <2>3. Queued(d, m)'
    BY <1>1, <2>2, QueuedTell DEF TypeOK
  <2> QED
    BY <2>1, <2>2, <2>3 DEF Alive
<1>3. CASE ~RequestInit(c)
  <2>1. conn[c] = "waiting"
    BY <1>3, WaitStep
  <2>2. answer'[c] = answer[c]
    BY <2>1, AnswerStep
  <2>3. /\ initReply[c] = "pending"
        /\ \A d \in Conns : Alive(d) /\ Queued(d, m) => Alive(d)' /\ Queued(d, m)'
    <3>1. CASE \E e \in Conns : ChannelWorks(e)
      BY <2>1, <3>1, InitReplied DEF InitKept
    <3>2. CASE ~\E e \in Conns : ChannelWorks(e)
      BY <1>1, <2>1, <3>2, ChannelAlone DEF Undisturbed
    <3> QED
      BY <3>1, <3>2
  <2> QED
    BY <2>1, <2>2, <2>3 DEF OwedInit
<1> QED
  BY <1>2, <1>3

(***************************************************************************)
(* The theorems.                                                           *)
(***************************************************************************)

\* A node that starts has nothing yet.
LEMMA InitInv ==
  ASSUME Init
  PROVE  Inv
<1>1. TypeOK
  <2>1. <<>> \in Seq(Request) /\ <<>> \in Seq(Message)
    OBVIOUS
  <2> QED
    BY <2>1, BoundsAssumption DEF Init, TypeOK, ConnState, ChanState, Reply
<1>2. Phases /\ EndedByOwner /\ NoOrphanChannel /\ Inits
  BY DEF Init, Phases, EndedByOwner, NoOrphanChannel, Inits, Queued
<1>3. Asked /\ Waiting
  BY DEF Init, Asked, Waiting
<1>4. Mapped
  BY NoneAssumption DEF Init, Mapped
<1> QED
  BY <1>1, <1>2, <1>3, <1>4 DEF Inv

\* The invariant holds, whatever goes wrong outside the edge.
THEOREM Invariant == Spec => []Inv
<1>1. Init => Inv
  BY InitInv
<1>2. Inv /\ [Next]_vars => Inv'
  BY TypeStep, PhasesStep, AskedStep, WaitingStep, MappedStep, EndedStep, InitsStep DEF Inv
<1> QED
  BY <1>1, <1>2, PTL DEF Spec

\* Every variable stays in its type.
THEOREM TypeCorrect == Spec => []TypeOK
BY Invariant, PTL DEF Inv

\* A published stream's channel, with its connection to the origin, does not
\* outlive its publisher, unless the publisher's task ended without disconnect().
THEOREM NoOrphan == Spec => []NoOrphanChannel
BY Invariant, PTL DEF Inv

\* The manager's map keeps an entry whose channel was closed only until the
\* Release that is on its way is handled, whoever else made or released the name.
THEOREM NoPoisoned == Spec => []NoPoisonedEntry
<1>1. Inv => NoPoisonedEntry
  <2> SUFFICES ASSUME Inv, NEW n \in Names, NEW d \in Conns,
                      channels[n] = d, chan[d] \in {"closing", "dead"}
               PROVE  \/ conn[d] = "releasing" \/ reader[d] = "releasing"
                      \/ \E i \in 1 .. Len(requests) : requests[i] = ReleaseReq(d, n)
    BY DEF NoPoisonedEntry
  <2>1. Left(d) /\ Kept(d) /\ app[d] = n
    BY DEF Inv, EndedByOwner, Mapped
  <2>2. kind[d] = "publisher" => reader[d] = "absent"
    BY DEF Inv, Phases
  <2> QED
    BY <2>1, <2>2 DEF Left, Kept, Requested
<1> QED
  BY <1>1, Invariant, PTL

\* RTMP players cannot harm each other: a channel that has players fails only by
\* its origin, or when the reply to an HTTP player's InitData finds nobody.
THEOREM FailsAloneAlways == Spec => FailsAlone
<1>1. Inv /\ [Next]_vars =>
        [\A d \in Conns :
           chan[d] # "failed" /\ chan'[d] = "failed" /\ (\E c \in Conns : Subscribed(c, d)) =>
             \/ chan[d] = "starting" \/ Head(inbox[d]) = PacketMsg
             \/ \E c \in Conns : kind[c] = "http" /\ Head(inbox[d]) = InitDataMsg(c)]_vars
  BY FailsStep DEF Inv
<1> QED
  BY <1>1, Invariant, PTL DEF Spec, FailsAlone

(***************************************************************************)
(* What is owed, and what is left when the tasks have done what they can.  *)
(***************************************************************************)

\* The invariant of what is owed.
Owed == Watching /\ PulledOrTold /\ NobodyForgotten

\* It holds with the invariant of the node.
THEOREM InvariantOwed == Spec => [](Inv /\ Owed)
<1>1. Init => Inv /\ Owed
  <2>1. Init => Owed
    BY DEF Init, Owed, Watching, PulledOrTold, Running, NobodyForgotten
  <2> QED
    BY <2>1, InitInv
<1>2. Inv /\ Owed /\ [Next]_vars => (Inv /\ Owed)'
  <2> SUFFICES ASSUME Inv, Owed, [Next]_vars PROVE Inv' /\ Owed'
    BY DEF Inv, Owed
  <2>1. Inv'
    BY TypeStep, PhasesStep, AskedStep, WaitingStep, MappedStep, EndedStep, InitsStep DEF Inv
  <2>2. Watching' /\ PulledOrTold'
    BY WatchingStep, PulledStep DEF Inv, Owed
  <2>3. \A c \in Conns : OwedReply(c) /\ OwedInit(c)
    BY DEF Owed, NobodyForgotten, OwedReply, OwedInit, Requested, Queued
  <2>4. \A c \in Conns : OwedReply(c)' /\ OwedInit(c)'
    BY <2>3, OwedReplyStep, OwedInitStep DEF Inv, Owed
  <2>5. NobodyForgotten'
    BY <2>4 DEF NobodyForgotten, OwedReply, OwedInit, Requested, Queued
  <2> QED
    BY <2>1, <2>2, <2>5 DEF Owed
<1> QED
  BY <1>1, <1>2, PTL DEF Spec

\* Whoever waits for a reply of the manager or of a channel, publisher or player, is in the
\* queue of a task that is there to give it, even where a channel fails and drops its queue.
THEOREM Remembered == Spec => []NobodyForgotten
BY InvariantOwed, PTL DEF Owed

\* At rest nobody waits ...
LEMMA RestNobodyWaits ==
  ASSUME Inv, Owed, AtRest, NEW c \in Conns
  PROVE  conn[c] \in {"new", "publishing", "vanished", "playing", "ended"}
<1>1. conn[c] \in ConnState /\ conn[c] \notin {"releasing", "requesting"}
  BY DEF Inv, TypeOK, AtRest
<1>2. conn[c] \notin {"creating", "joining"}
  BY DEF AtRest, Owed, NobodyForgotten
<1>3. conn[c] # "waiting"
  <2> SUFFICES ASSUME conn[c] = "waiting" PROVE FALSE
    OBVIOUS
  <2>1. PICK d \in Conns : Alive(d) /\ Queued(d, InitDataMsg(c))
    BY DEF AtRest, Owed, NobodyForgotten, Queued
  <2>2. inbox[d] = <<>>
    BY <2>1 DEF AtRest, Alive
  <2> QED
    BY <2>1, <2>2 DEF Queued
<1> QED
  BY <1>1, <1>2, <1>3 DEF ConnState

\* ... a channel that lives is of a stream that is fed ...
LEMMA RestChannels ==
  ASSUME Inv, Owed, AtRest, NEW d \in Conns, Alive(d)
  PROVE  Fed(d)
<1>1. chan[d] = "running" /\ inbox[d] = <<>>
  BY DEF AtRest, Alive
<1>2. ~Queued(d, DisconnectMsg) /\ ~Told(d)
  BY <1>1 DEF Queued, Told
<1>3. CASE kind[d] = "publisher"
  BY <1>1, <1>2, <1>3, RestNobodyWaits DEF Inv, NoOrphanChannel, Fed
<1>4. CASE kind[d] # "publisher"
  BY <1>1, <1>2, <1>4 DEF Owed, PulledOrTold, Running, Fed
<1> QED
  BY <1>3, <1>4

\* ... and so is every entry of the map.
LEMMA RestEntries ==
  ASSUME Inv, Owed, AtRest, NEW n \in Names, NEW d \in Conns, channels[n] = d
  PROVE  Fed(d)
<1>1. Kept(d)
  BY DEF Inv, Mapped
<1>2. ~Requested(ReleaseReq(d, app[d])) /\ reader[d] # "releasing"
  BY DEF AtRest, Requested
<1> QED
  BY <1>1, <1>2, RestNobodyWaits DEF Kept, Fed

\* When the tasks of the edge have nothing left to do, nobody waits, and only the streams that
\* are published or pulled, or whose publisher or reader ended without a word, have an entry,
\* a channel or a player.
THEOREM CleanAtRest == Spec => []RestIsClean
<1>1. Inv /\ Owed => RestIsClean
  <2> SUFFICES ASSUME Inv, Owed, AtRest
               PROVE  \A c \in Conns : conn[c] = "playing" =>
                        \E d \in Conns : answer[c] \in {Local(d), Origin(d)} /\ Fed(d)
    BY RestNobodyWaits, RestChannels, RestEntries DEF RestIsClean, Alive
  <2> SUFFICES ASSUME NEW c \in Conns, conn[c] = "playing"
               PROVE  \E d \in Conns : answer[c] \in {Local(d), Origin(d)} /\ Fed(d)
    OBVIOUS
  <2>1. PICK d \in Conns : answer[c] \in {Local(d), Origin(d)}
    <3>1. answer[c] \in Reply /\ answer[c] \notin {Pending, Dropped}
      BY DEF Inv, TypeOK, Owed, Watching
    <3> QED
      BY <3>1 DEF Reply
  <2>2. ~RingClosed(d)
    BY <2>1 DEF AtRest
  <2> QED
    BY <2>1, <2>2, RestChannels, RestEntries DEF RingClosed
<1> QED
  BY <1>1, InvariantOwed, PTL
=============================================================================
