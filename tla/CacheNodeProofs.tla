-------------------------- MODULE CacheNodeProofs --------------------------
(***************************************************************************)
(* Theorems about CacheNode, for any connections, names, faults and bounds *)
(* and either kind of upstream.                                            *)
(***************************************************************************)
EXTENDS CacheNode, TLAPS, SequenceTheorems

(***************************************************************************)
(* The inductive invariant.                                                *)
(***************************************************************************)
Queued(d, m) == \E i \in 1 .. Len(inbox[d]) : inbox[d][i] = m

Requested(r) == \E i \in 1 .. Len(requests) : requests[i] = r

\* A reader that has not told its channel to end.
Untold == {"reading", "failed", "spinning"}

\* A channel and its reader are made together, for a connection that has asked.
Phases ==
  \A c \in Conns :
    /\ conn[c] = "new" => answer[c] = Pending /\ chan[c] = "absent"
    /\ conn[c] = "joining" => app[c] \in Names
    /\ chan[c] = "absent" <=> reader[c] = "absent"
    /\ chan[c] # "absent" => app[c] \in Names /\ answer[c] = Origin(c)

\* A channel runs until its reader ends it, and is told nothing before it is made.
Sourced ==
  \A d \in Conns :
    /\ chan[d] = "absent" => inbox[d] = <<>>
    /\ reader[d] \in Untold => chan[d] = "running" /\ ~Queued(d, DisconnectMsg)
    /\ chan[d] = "running" =>
         reader[d] \in Untold \/ Queued(d, DisconnectMsg)

\* What is in the manager's queue: a Join that was not answered, or the Release
\* of a reader that is over while its entry is still there.
Fits(r) ==
  /\ r.name = app[r.by]
  /\ r.type = "Join" =>
       conn[r.by] \in {"joining", "ended"} /\ chan[r.by] = "absent" /\ answer[r.by] = Pending
  /\ r.type = "Release" => reader[r.by] = "ended" /\ channels[r.name] = r.by

Asked ==
  /\ \A i \in 1 .. Len(requests) : Fits(requests[i])
  /\ \A i, j \in 1 .. Len(requests) : i < j => requests[i] # requests[j]

\* The Join for which the manager waits stays first, and its name is not there.
Waiting ==
  step \in {"asking", "connecting", "confirming"} =>
    requests # <<>> /\ Head(requests).type = "Join" /\ channels[Head(requests).name] = None

\* An entry leads to a channel of that name; when the reader is over the Release
\* is on its way.
Mapped ==
  \A n \in Names, d \in Conns :
    channels[n] = d =>
      /\ app[d] = n /\ chan[d] # "absent"
      /\ reader[d] = "ended" => Requested(ReleaseReq(d, n))

\* A reader that has not sent Release has the entry of its name.
Owner ==
  step # "panicked" =>
    \A d \in Conns : reader[d] \notin {"absent", "ended"} => channels[app[d]] = d

\* A manager that has panicked leaves neither queue nor map.
Quits ==
  step = "panicked" => requests = <<>> /\ \A n \in Names : channels[n] = None

Inv ==
  /\ TypeOK /\ Phases /\ Sourced /\ Asked /\ Waiting /\ Mapped /\ Owner /\ Quits
  /\ PulledOnce

(***************************************************************************)
(* Type correctness.                                                       *)
(***************************************************************************)

\* Sending a message to a channel keeps the types of the queues.
LEMMA TellType ==
  ASSUME inbox \in [Conns -> Seq(Message)], NEW d \in Conns, NEW m \in Message,
         Tell(d, m)
  PROVE  inbox' \in [Conns -> Seq(Message)]
<1>1. Append(inbox[d], m) \in Seq(Message)
  OBVIOUS
<1> QED
  BY <1>1 DEF Tell

\* What the manager takes, and what it leaves.
LEMMA HeadRequest ==
  ASSUME requests \in Seq(Request), requests # <<>>
  PROVE  /\ Head(requests) \in Request
         /\ Head(requests).by \in Conns /\ Head(requests).name \in Names
         /\ Head(requests) = requests[1] /\ 1 \in 1 .. Len(requests)
         /\ Tail(requests) \in Seq(Request)
<1>1. /\ Head(requests) \in Request /\ Tail(requests) \in Seq(Request)
      /\ Head(requests) = requests[1] /\ 1 \in 1 .. Len(requests)
  OBVIOUS
<1> QED
  BY <1>1 DEF Request

\* What a channel takes, and what it leaves.
LEMMA HeadMessage ==
  ASSUME inbox \in [Conns -> Seq(Message)], NEW d \in Conns, inbox[d] # <<>>
  PROVE  Head(inbox[d]) \in Message /\ Tail(inbox[d]) \in Seq(Message)
<1>1. inbox[d] \in Seq(Message)
  OBVIOUS
<1> QED
  BY <1>1

\* Only a Disconnect has its type.
LEMMA MessageTypes ==
  ASSUME NEW m \in Message
  PROVE  m.type = "Disconnect" <=> m = DisconnectMsg
BY DEF Message, PacketMsg, DisconnectMsg, InitDataMsg

\* The manager waits only while it has a Join in hand.
LEMMA InHand ==
  ASSUME TypeOK, Asked, Waiting, step \in {"asking", "connecting", "confirming"} \/ Take("Join")
  PROVE  /\ requests # <<>> /\ Head(requests).type = "Join"
         /\ Fits(Head(requests))
         /\ conn[Head(requests).by] \in {"joining", "ended"}
         /\ chan[Head(requests).by] = "absent"
         /\ answer[Head(requests).by] = Pending
         /\ Head(requests).name = app[Head(requests).by]
<1>1. requests # <<>> /\ Head(requests).type = "Join"
  BY DEF Waiting, Take
<1>2. Fits(Head(requests))
  BY <1>1, HeadRequest DEF TypeOK, Asked
<1> QED
  BY <1>1, <1>2 DEF Fits

\* Every step keeps the types.
LEMMA TypeStep ==
  ASSUME TypeOK, Phases, Asked, Waiting, [Next]_vars
  PROVE  TypeOK'
<1> USE BoundsAssumption DEF connVars, managerVars, channelVars, Become
<1>1. ASSUME NEW c \in Conns, RefusePublisher(c) \/ ConnectFails(c) PROVE TypeOK'
  BY <1>1 DEF RefusePublisher, ConnectFails, TypeOK, ConnState
<1>2. ASSUME NEW c \in Conns, NEW n \in Names, Connect(c, n) PROVE TypeOK'
  <2>1. JoinReq(c, n) \in Request
    BY DEF JoinReq, Request
  <2>2. requests' \in Seq(Request)
    BY <1>2, <2>1 DEF Connect, TypeOK
  <2> QED
    BY <1>2, <2>2 DEF Connect, TypeOK, ConnState
<1>3. ASSUME NEW c \in Conns, PlayerGone(c) PROVE TypeOK'
  BY <1>3 DEF PlayerGone, TypeOK, ConnState
<1>4. ASSUME NEW c \in Conns, JoinAnswered(c) PROVE TypeOK'
  <2>1. answer[c].status \in {"dropped", "local", "origin"}
    BY <1>4 DEF JoinAnswered, TypeOK, Reply, Pending, Dropped, Local, Origin
  <2> QED
    BY <1>4, <2>1 DEF JoinAnswered, TypeOK, ConnState
<1>5. ASSUME NEW c \in Conns, RequestInit(c) PROVE TypeOK'
  <2>1. InitDataMsg(c) \in Message
    BY DEF InitDataMsg, Message
  <2>2. inbox' \in [Conns -> Seq(Message)]
    BY <1>5, <2>1, TellType DEF RequestInit, TypeOK
  <2>3. conn' \in [Conns -> ConnState]
    BY <1>5, ZenonT(40) DEF RequestInit, TypeOK, ConnState
  <2> QED
    BY <1>5, <2>2, <2>3 DEF RequestInit, TypeOK
<1>6. ASSUME NEW c \in Conns, InitAnswered(c) PROVE TypeOK'
  BY <1>6 DEF InitAnswered, TypeOK, ConnState
<1>7. ASSUME NEW c \in Conns, Receive(c) PROVE TypeOK'
  BY <1>7 DEF Receive, TypeOK
<1>8. ASSUME NEW c \in Conns, Closed(c) PROVE TypeOK'
  BY <1>8 DEF Closed, TypeOK, ConnState
<1>9. ASSUME NEW d \in Conns, UpstreamPacket(d) PROVE TypeOK'
  <2>1. PacketMsg \in Message
    BY DEF PacketMsg, Message
  <2>2. inbox' \in [Conns -> Seq(Message)]
    BY <1>9, <2>1, TellType DEF UpstreamPacket, TypeOK
  <2>3. carried' \in [Conns -> 0 .. MaxPackets]
    BY <1>9 DEF UpstreamPacket, TypeOK
  <2> QED
    BY <1>9, <2>2, <2>3 DEF UpstreamPacket, TypeOK
<1>10. ASSUME NEW d \in Conns, UpstreamErrors(d) \/ UpstreamBreaks(d) PROVE TypeOK'
  <2>1. DisconnectMsg \in Message
    BY DEF DisconnectMsg, Message
  <2>2. inbox' \in [Conns -> Seq(Message)]
    BY <1>10, <2>1, TellType DEF UpstreamErrors, UpstreamBreaks, TypeOK
  <2> QED
    BY <1>10, <2>2 DEF UpstreamErrors, UpstreamBreaks, TypeOK, ReaderState
<1>11. ASSUME NEW d \in Conns, UpstreamGarbles(d) \/ UpstreamEof(d) PROVE TypeOK'
  BY <1>11 DEF UpstreamGarbles, UpstreamEof, TypeOK, ReaderState
<1>12. ASSUME NEW d \in Conns, ReaderReleases(d) PROVE TypeOK'
  <2>1. ReleaseReq(d, app[d]) \in Request
    BY <1>12 DEF ReaderReleases, ReleaseReq, Request, TypeOK, Phases
  <2>2. requests' \in Seq(Request)
    BY <1>12, <2>1 DEF ReaderReleases, TypeOK
  <2> QED
    BY <1>12, <2>2 DEF ReaderReleases, TypeOK, ReaderState
<1>13. ASSUME NEW d \in Conns, ChannelHandle(d) PROVE TypeOK'
  <2>1. Head(inbox[d]) \in Message /\ Tail(inbox[d]) \in Seq(Message)
    BY <1>13, HeadMessage DEF ChannelHandle, TypeOK
  <2>2. inbox' \in [Conns -> Seq(Message)]
    BY <1>13, <2>1 DEF ChannelHandle, TypeOK
  <2>3. initReply' \in [Conns -> {"pending", "dropped", "ready"}]
    BY <1>13 DEF ChannelHandle, Effect, TypeOK
  <2>4. unread' \in [Conns -> 0 .. Capacity]
    BY <1>13 DEF ChannelHandle, Effect, TypeOK
  <2>5. chan' \in [Conns -> {"absent", "running", "closing", "dead"}]
    BY <1>13 DEF ChannelHandle, Effect, TypeOK
  <2> QED
    BY <1>13, <2>2, <2>3, <2>4, <2>5 DEF ChannelHandle, TypeOK
<1>14. ASSUME NEW d \in Conns, ChannelExit(d) PROVE TypeOK'
  <2>1. <<>> \in Seq(Message)
    OBVIOUS
  <2>2. inbox' \in [Conns -> Seq(Message)]
    BY <1>14, <2>1 DEF ChannelExit, TypeOK
  <2>3. initReply' \in [Conns -> {"pending", "dropped", "ready"}]
    BY <1>14 DEF ChannelExit, TypeOK
  <2> QED
    BY <1>14, <2>2, <2>3 DEF ChannelExit, TypeOK
<1>15. CASE HandleLocalJoin
  <2>1. /\ Head(requests).by \in Conns /\ Head(requests).name \in Names
        /\ requests' \in Seq(Request)
    BY <1>15, HeadRequest DEF HandleLocalJoin, Take, Respond, TypeOK
  <2>2. Local(channels[Head(requests).name]) \in Reply
    BY <1>15, <2>1 DEF HandleLocalJoin, TypeOK, Reply
  <2> QED
    BY <1>15, <2>1, <2>2 DEF HandleLocalJoin, Respond, TypeOK
<1>16. CASE StartPull \/ PullGoesOn
  BY <1>16 DEF StartPull, PullGoesOn, TypeOK
<1>17. CASE PullFails
  <2>1. requests # <<>>
    BY <1>17, InHand DEF PullFails
  <2>2. Head(requests).by \in Conns /\ requests' \in Seq(Request)
    BY <1>17, <2>1, HeadRequest DEF PullFails, Respond, TypeOK
  <2>3. Dropped \in Reply
    BY DEF Reply
  <2> QED
    BY <1>17, <2>2, <2>3 DEF PullFails, Respond, TypeOK
<1>18. CASE Confirmed
  <2>1. requests # <<>>
    BY <1>18, InHand DEF Confirmed
  <2>2. /\ Head(requests).by \in Conns /\ Head(requests).name \in Names
        /\ requests' \in Seq(Request)
    BY <1>18, <2>1, HeadRequest DEF Confirmed, Respond, TypeOK
  <2>3. Origin(Head(requests).by) \in Reply
    BY <2>2 DEF Reply
  <2> QED
    BY <1>18, <2>2, <2>3 DEF Confirmed, Respond, TypeOK, ReaderState
<1>19. CASE HandleRelease
  <2>1. Head(requests).name \in Names /\ requests' \in Seq(Request)
    BY <1>19, HeadRequest DEF HandleRelease, Take, TypeOK
  <2> QED
    BY <1>19, <2>1 DEF HandleRelease, TypeOK
<1>20. CASE ManagerPanics
  <2>1. <<>> \in Seq(Request) /\ Dropped \in Reply
    BY DEF Reply
  <2> QED
    BY <1>20, <2>1 DEF ManagerPanics, TypeOK
<1>21. CASE UNCHANGED vars
  BY <1>21 DEF vars, TypeOK
<1> QED
  BY <1>1, <1>2, <1>3, <1>4, <1>5, <1>6, <1>7, <1>8, <1>9, <1>10, <1>11,
     <1>12, <1>13, <1>14, <1>15, <1>16, <1>17, <1>18, <1>19, <1>20, <1>21
     DEF Next, Environment, Answers, Manager, Connection, Channel

(***************************************************************************)
(* Most steps leave the manager's queue and its map as they are, and move  *)
(* connections, channels and readers only forward.                         *)
(***************************************************************************)
Quiet ==
  /\ UNCHANGED <<app, answer, requests, channels>>
  /\ step' = "panicked" <=> step = "panicked"
  /\ \A c \in Conns :
       /\ conn'[c] # conn[c] =>
            /\ conn[c] # "ended" /\ conn'[c] \notin {"new", "joining"}
            /\ conn[c] = "joining" => conn'[c] = "ended" \/ answer[c] # Pending
       /\ chan'[c] = "absent" <=> chan[c] = "absent"
       /\ reader'[c] # reader[c] =>
            reader[c] = "reading" /\ reader'[c] \in {"releasing", "broken", "failed", "spinning"}

\* Which steps are quiet, and which are not.
LEMMA Steps ==
  ASSUME TypeOK, [Next]_vars
  PROVE  \/ Quiet
         \/ \E c \in Conns, n \in Names : Connect(c, n)
         \/ \E d \in Conns : ReaderReleases(d)
         \/ HandleLocalJoin \/ PullFails \/ Confirmed \/ HandleRelease \/ ManagerPanics
<1> USE DEF connVars, managerVars, channelVars, Become
<1>0. /\ conn \in [Conns -> ConnState] /\ answer \in [Conns -> Reply]
      /\ chan \in [Conns -> {"absent", "running", "closing", "dead"}]
      /\ reader \in [Conns -> ReaderState]
  BY DEF TypeOK
<1>1. ASSUME NEW c \in Conns, RefusePublisher(c) \/ ConnectFails(c) \/ PlayerGone(c)
      PROVE  Quiet
  BY <1>0, <1>1 DEF RefusePublisher, ConnectFails, PlayerGone, Quiet
<1>2. ASSUME NEW c \in Conns, JoinAnswered(c) PROVE Quiet
  <2>1. answer[c].status \in {"dropped", "local", "origin"}
    BY <1>0, <1>2 DEF JoinAnswered, Reply, Pending, Dropped, Local, Origin
  <2>2. \A b \in Conns : conn'[b] # conn[b] =>
          /\ conn[b] = "joining" /\ conn'[b] \in {"ended", "requesting", "playing"}
          /\ answer[b] # Pending
    BY <1>0, <1>2, <2>1 DEF JoinAnswered
  <2> QED
    BY <1>2, <2>2 DEF JoinAnswered, Quiet
<1>3. ASSUME NEW c \in Conns, RequestInit(c) PROVE Quiet
  BY <1>0, <1>3 DEF RequestInit, Quiet
<1>4. ASSUME NEW c \in Conns, InitAnswered(c) \/ Receive(c) \/ Closed(c) PROVE Quiet
  BY <1>0, <1>4 DEF InitAnswered, Receive, Closed, Quiet
<1>5. ASSUME NEW d \in Conns, UpstreamPacket(d) \/ UpstreamErrors(d) PROVE Quiet
  BY <1>0, <1>5 DEF UpstreamPacket, UpstreamErrors, Quiet
<1>6. ASSUME NEW d \in Conns, UpstreamBreaks(d) \/ UpstreamGarbles(d) \/ UpstreamEof(d)
      PROVE  Quiet
  BY <1>0, <1>6 DEF UpstreamBreaks, UpstreamGarbles, UpstreamEof, Quiet
<1>7. ASSUME NEW d \in Conns, ChannelHandle(d) PROVE Quiet
  BY <1>0, <1>7 DEF ChannelHandle, Effect, Quiet
<1>8. ASSUME NEW d \in Conns, ChannelExit(d) PROVE Quiet
  BY <1>0, <1>8 DEF ChannelExit, Quiet
<1>9. CASE StartPull \/ PullGoesOn
  BY <1>9 DEF StartPull, PullGoesOn, Take, Quiet
<1>10. CASE UNCHANGED vars
  BY <1>10 DEF vars, Quiet
<1> QED
  BY <1>1, <1>2, <1>3, <1>4, <1>5, <1>6, <1>7, <1>8, <1>9, <1>10
     DEF Next, Environment, Answers, Manager, Connection, Channel

(***************************************************************************)
(* Connections, channels and readers.                                      *)
(***************************************************************************)

\* The replies that a panic drops are those to the Joins in the queue.
LEMMA PanicDrops ==
  ASSUME TypeOK, Asked, ManagerPanics, NEW c \in Conns, answer'[c] # answer[c]
  PROVE  /\ Requested(JoinReq(c, app[c])) /\ answer'[c] = Dropped
         /\ conn[c] \in {"joining", "ended"} /\ chan[c] = "absent"
<1>1. Requested(JoinReq(c, app[c])) /\ answer'[c] = Dropped
  BY DEF ManagerPanics, Requested
<1>2. PICK i \in 1 .. Len(requests) : requests[i] = JoinReq(c, app[c])
  BY <1>1 DEF Requested
<1>3. Fits(requests[i]) /\ requests[i].by = c /\ requests[i].type = "Join"
  BY <1>2 DEF Asked, JoinReq
<1> QED
  BY <1>1, <1>3 DEF Fits

\* Connections and channels stay in step.
LEMMA PhasesStep ==
  ASSUME TypeOK, Phases, Asked, Waiting, [Next]_vars
  PROVE  Phases'
<1> USE DEF connVars, managerVars, channelVars, Become, Respond, Phases
<1>0. /\ conn \in [Conns -> ConnState] /\ app \in [Conns -> Names \cup {None}]
      /\ answer \in [Conns -> Reply] /\ requests \in Seq(Request)
      /\ chan \in [Conns -> {"absent", "running", "closing", "dead"}]
      /\ reader \in [Conns -> ReaderState]
  BY DEF TypeOK
<1>1. CASE Quiet
  BY <1>1 DEF Quiet
<1>2. ASSUME NEW c \in Conns, NEW n \in Names, Connect(c, n) PROVE Phases'
  BY <1>0, <1>2 DEF Connect
<1>3. ASSUME NEW d \in Conns, ReaderReleases(d) PROVE Phases'
  BY <1>0, <1>3 DEF ReaderReleases
<1>4. CASE HandleLocalJoin \/ PullFails
  <2> PICK b \in Conns : b = Head(requests).by
    BY <1>0, <1>4, InHand, HeadRequest DEF HandleLocalJoin, PullFails
  <2>1. conn[b] \in {"joining", "ended"} /\ chan[b] = "absent"
    BY <1>4, InHand DEF HandleLocalJoin, PullFails
  <2>2. /\ conn' = conn /\ app' = app /\ chan' = chan /\ reader' = reader
        /\ \A c \in Conns : c # b => answer'[c] = answer[c]
    BY <1>0, <1>4 DEF HandleLocalJoin, PullFails
  <2> QED
    BY <2>1, <2>2
<1>5. CASE Confirmed
  <2> PICK b \in Conns : b = Head(requests).by
    BY <1>0, <1>5, InHand, HeadRequest DEF Confirmed
  <2>1. conn[b] \in {"joining", "ended"} /\ app[b] \in Names
    BY <1>0, <1>5, InHand, HeadRequest DEF Confirmed
  <2>2. /\ conn' = conn /\ app' = app
        /\ chan' = [chan EXCEPT ![b] = "running"]
        /\ reader' = [reader EXCEPT ![b] = "reading"]
        /\ answer' = [answer EXCEPT ![b] = Origin(b)]
    BY <1>5 DEF Confirmed
  <2> QED
    BY <1>0, <2>1, <2>2
<1>6. CASE HandleRelease
  BY <1>6 DEF HandleRelease
<1>7. CASE ManagerPanics
  <2>1. \A c \in Conns : answer'[c] # answer[c] =>
          conn[c] \in {"joining", "ended"} /\ chan[c] = "absent"
    BY <1>0, <1>7, PanicDrops
  <2>2. UNCHANGED <<conn, app, chan, reader>>
    BY <1>7 DEF ManagerPanics
  <2> QED
    BY <2>1, <2>2
<1> QED
  BY <1>1, <1>2, <1>3, <1>4, <1>5, <1>6, <1>7, Steps

\* What was queued stays queued when a message is added ...
LEMMA QueuedTell ==
  ASSUME inbox \in [Conns -> Seq(Message)], NEW d \in Conns, NEW m \in Message,
         Tell(d, m)
  PROVE  /\ Queued(d, m)'
         /\ inbox'[d] # <<>>
         /\ \A e \in Conns : e # d => inbox'[e] = inbox[e]
         /\ \A p \in Message : Queued(d, p)' <=> Queued(d, p) \/ p = m
<1>1. inbox[d] \in Seq(Message) /\ inbox'[d] = Append(inbox[d], m)
  BY DEF Tell
<1>2. /\ Len(inbox'[d]) = Len(inbox[d]) + 1 /\ Len(inbox[d]) \in Nat
      /\ inbox'[d][Len(inbox[d]) + 1] = m
      /\ \A i \in 1 .. Len(inbox[d]) : inbox'[d][i] = inbox[d][i]
  BY <1>1
<1>3. \A e \in Conns : e # d => inbox'[e] = inbox[e]
  BY DEF Tell
<1>4. inbox'[d] # <<>>
  BY <1>2
<1>5. Queued(d, m)'
  BY <1>2 DEF Queued
<1>6. ASSUME NEW p \in Message, Queued(d, p)' PROVE Queued(d, p) \/ p = m
  <2>1. PICK i \in 1 .. Len(inbox'[d]) : inbox'[d][i] = p
    BY <1>6 DEF Queued
  <2> QED
    BY <1>2, <2>1 DEF Queued
<1>7. ASSUME NEW p \in Message, Queued(d, p) PROVE Queued(d, p)'
  BY <1>2, <1>7 DEF Queued
<1> QED
  BY <1>3, <1>4, <1>5, <1>6, <1>7

\* ... and, but for the first, when the channel takes one.
LEMMA QueuedTail ==
  ASSUME inbox \in [Conns -> Seq(Message)], NEW d \in Conns, inbox[d] # <<>>,
         inbox' = [inbox EXCEPT ![d] = Tail(@)]
  PROVE  \A p \in Message :
           /\ Queued(d, Head(inbox[d]))
           /\ Queued(d, p)' => Queued(d, p)
           /\ Queued(d, p) => Queued(d, p)' \/ p = Head(inbox[d])
<1>1. inbox[d] \in Seq(Message) /\ inbox'[d] = Tail(inbox[d])
  OBVIOUS
<1>2. /\ Len(inbox'[d]) = Len(inbox[d]) - 1 /\ Len(inbox[d]) \in Nat \ {0}
      /\ \A i \in 1 .. Len(inbox'[d]) : inbox'[d][i] = inbox[d][i + 1]
      /\ Head(inbox[d]) = inbox[d][1]
  BY <1>1
<1>3. Queued(d, Head(inbox[d]))
  BY <1>2 DEF Queued
<1>4. ASSUME NEW p \in Message, Queued(d, p)' PROVE Queued(d, p)
  <2> PICK i \in 1 .. Len(inbox'[d]) : inbox'[d][i] = p
    BY <1>4 DEF Queued
  <2>1. i + 1 \in 1 .. Len(inbox[d]) /\ inbox[d][i + 1] = p
    BY <1>2
  <2> QED
    BY <2>1 DEF Queued
<1>5. ASSUME NEW p \in Message, Queued(d, p), p # Head(inbox[d]) PROVE Queued(d, p)'
  <2> PICK i \in 1 .. Len(inbox[d]) : inbox[d][i] = p
    BY <1>5 DEF Queued
  <2>1. i - 1 \in 1 .. Len(inbox'[d]) /\ inbox'[d][i - 1] = p
    BY <1>2, <1>5
  <2> QED
    BY <2>1 DEF Queued
<1> QED
  BY <1>3, <1>4, <1>5

\* A channel keeps its source until it is told to end.
LEMMA SourcedStep ==
  ASSUME TypeOK, Phases, Sourced, Asked, Waiting, [Next]_vars
  PROVE  Sourced'
<1> USE DEF connVars, managerVars, channelVars, Become, Respond, Untold
<1>0. /\ inbox \in [Conns -> Seq(Message)]
      /\ chan \in [Conns -> {"absent", "running", "closing", "dead"}]
      /\ reader \in [Conns -> ReaderState]
      /\ PacketMsg \in Message /\ DisconnectMsg \in Message /\ PacketMsg # DisconnectMsg
      /\ \A c \in Conns : InitDataMsg(c) \in Message /\ InitDataMsg(c) # DisconnectMsg
  BY DEF TypeOK, Message, PacketMsg, DisconnectMsg, InitDataMsg
<1>1. CASE UNCHANGED <<inbox, chan, reader>>
  BY <1>1 DEF Sourced, Queued
<1>2. ASSUME NEW c \in Conns, RequestInit(c) PROVE Sourced'
  <2>1. PICK d \in Conns : \/ Alive(d) /\ Tell(d, InitDataMsg(c))
                           \/ UNCHANGED inbox
    BY <1>2 DEF RequestInit
  <2>2. chan' = chan /\ reader' = reader
    BY <1>2 DEF RequestInit
  <2>3. CASE UNCHANGED inbox
    BY <1>1, <2>2, <2>3
  <2>4. CASE Alive(d) /\ Tell(d, InitDataMsg(c))
    <3>1. /\ \A e \in Conns : e # d => inbox'[e] = inbox[e]
          /\ Queued(d, DisconnectMsg)' <=> Queued(d, DisconnectMsg)
          /\ chan[d] # "absent"
      BY <1>0, <2>4, QueuedTell DEF Alive
    <3> QED
      BY <2>2, <3>1 DEF Sourced, Queued
  <2> QED
    BY <2>1, <2>3, <2>4
<1>3. ASSUME NEW d \in Conns, UpstreamPacket(d) PROVE Sourced'
  <2>1. /\ \A e \in Conns : e # d => inbox'[e] = inbox[e]
        /\ Queued(d, DisconnectMsg)' <=> Queued(d, DisconnectMsg)
    BY <1>0, <1>3, QueuedTell DEF UpstreamPacket
  <2>2. chan' = chan /\ reader' = reader /\ chan[d] # "absent"
    BY <1>3 DEF UpstreamPacket, Sourced
  <2> QED
    BY <2>1, <2>2 DEF Sourced, Queued
<1>4. ASSUME NEW d \in Conns, UpstreamErrors(d) \/ UpstreamBreaks(d) PROVE Sourced'
  <2>1. \A e \in Conns : e # d => inbox'[e] = inbox[e] /\ reader'[e] = reader[e]
    BY <1>0, <1>4, QueuedTell DEF UpstreamErrors, UpstreamBreaks
  <2>2. /\ Queued(d, DisconnectMsg)' /\ chan' = chan /\ chan[d] # "absent"
        /\ reader'[d] \in {"releasing", "broken"}
    BY <1>0, <1>4, QueuedTell DEF UpstreamErrors, UpstreamBreaks, Sourced
  <2> QED
    BY <2>1, <2>2 DEF Sourced, Queued
<1>5. ASSUME NEW d \in Conns, UpstreamGarbles(d) \/ UpstreamEof(d) PROVE Sourced'
  <2>1. /\ inbox' = inbox /\ chan' = chan
        /\ reader[d] = "reading" /\ reader'[d] \in {"failed", "spinning"}
        /\ \A e \in Conns : e # d => reader'[e] = reader[e]
    BY <1>0, <1>5 DEF UpstreamGarbles, UpstreamEof
  <2> QED
    BY <2>1 DEF Sourced, Queued
<1>6. ASSUME NEW d \in Conns, ReaderReleases(d) PROVE Sourced'
  BY <1>0, <1>6 DEF ReaderReleases, Sourced, Queued
<1>7. ASSUME NEW d \in Conns, ChannelHandle(d) PROVE Sourced'
  <2>1. /\ Head(inbox[d]) \in Message
        /\ chan[d] = "running" /\ reader' = reader
        /\ inbox' = [inbox EXCEPT ![d] = Tail(@)]
    BY <1>0, <1>7, HeadMessage DEF ChannelHandle
  <2>2. /\ Queued(d, Head(inbox[d]))
        /\ Queued(d, DisconnectMsg)' => Queued(d, DisconnectMsg)
        /\ Queued(d, DisconnectMsg) =>
             Queued(d, DisconnectMsg)' \/ Head(inbox[d]) = DisconnectMsg
    BY <1>0, <1>7, <2>1, QueuedTail DEF ChannelHandle
  <2>3. /\ \A e \in Conns : e # d => chan'[e] = chan[e] /\ inbox'[e] = inbox[e]
        /\ chan'[d] = IF Head(inbox[d]) = DisconnectMsg THEN "closing" ELSE "running"
    BY <1>0, <1>7, <2>1, MessageTypes DEF ChannelHandle, Effect
  <2>4. reader[d] \in Untold => ~Queued(d, DisconnectMsg)
    BY DEF Sourced
  <2>5. chan[d] = "running" => reader[d] \in Untold \/ Queued(d, DisconnectMsg)
    BY DEF Sourced
  <2>6. ASSUME NEW e \in Conns, e # d
        PROVE  /\ chan'[e] = "absent" => inbox'[e] = <<>>
               /\ reader'[e] \in Untold =>
                    chan'[e] = "running" /\ ~Queued(e, DisconnectMsg)'
               /\ chan'[e] = "running" =>
                    reader'[e] \in Untold \/ Queued(e, DisconnectMsg)'
    BY <2>1, <2>3, <2>6 DEF Sourced, Queued
  <2>7. /\ chan'[d] # "absent"
        /\ reader'[d] \in Untold =>
             chan'[d] = "running" /\ ~Queued(d, DisconnectMsg)'
        /\ chan'[d] = "running" =>
             reader'[d] \in Untold \/ Queued(d, DisconnectMsg)'
    BY <2>1, <2>2, <2>3, <2>4, <2>5
  <2> QED
    BY <2>6, <2>7 DEF Sourced
<1>8. ASSUME NEW d \in Conns, ChannelExit(d) PROVE Sourced'
  <2>1. /\ reader' = reader /\ chan[d] = "closing" /\ chan'[d] = "dead"
        /\ \A e \in Conns : e # d => chan'[e] = chan[e] /\ inbox'[e] = inbox[e]
    BY <1>0, <1>8 DEF ChannelExit
  <2> QED
    BY <2>1 DEF Sourced, Queued
<1>9. CASE Confirmed
  <2> PICK b \in Conns : b = Head(requests).by
    BY <1>9, InHand, HeadRequest DEF Confirmed, TypeOK
  <2>1. chan[b] = "absent"
    BY <1>9, InHand DEF Confirmed
  <2>2. inbox[b] = <<>>
    BY <2>1 DEF Sourced
  <2>3. /\ chan' = [chan EXCEPT ![b] = "running"]
        /\ reader' = [reader EXCEPT ![b] = "reading"]
        /\ inbox' = inbox
    BY <1>9 DEF Confirmed
  <2>4. ~Queued(b, DisconnectMsg)'
    BY <2>2, <2>3 DEF Queued
  <2> QED
    BY <1>0, <2>1, <2>3, <2>4 DEF Sourced, Queued
<1>10. ASSUME NEW c \in Conns,
              RefusePublisher(c) \/ ConnectFails(c) \/ PlayerGone(c)
              \/ (\E n \in Names : Connect(c, n)) \/ JoinAnswered(c) \/ InitAnswered(c)
              \/ Receive(c) \/ Closed(c)
       PROVE  Sourced'
  BY <1>1, <1>10 DEF RefusePublisher, ConnectFails, PlayerGone, Connect, JoinAnswered, InitAnswered,
                     Receive, Closed
<1>11. CASE \/ HandleLocalJoin \/ StartPull \/ PullGoesOn \/ PullFails \/ HandleRelease
            \/ ManagerPanics
  BY <1>1, <1>11 DEF HandleLocalJoin, StartPull, PullGoesOn, PullFails, HandleRelease,
                     ManagerPanics
<1>12. CASE UNCHANGED vars
  BY <1>1, <1>12 DEF vars
<1> QED
  BY <1>2, <1>3, <1>4, <1>5, <1>6, <1>7, <1>8, <1>9, <1>10, <1>11, <1>12
     DEF Next, Environment, Answers, Manager, Connection, Channel

(***************************************************************************)
(* The manager's queue and its map.                                        *)
(***************************************************************************)

\* A request is its three fields.
LEMMA SameRequest ==
  ASSUME NEW p \in Request, NEW q \in Request,
         p.type = q.type, p.by = q.by, p.name = q.name
  PROVE  p = q
BY DEF Request

\* The queue stays orderly when what is in it still fits ...
LEMMA AskedKept ==
  ASSUME Asked, requests \in Seq(Request), requests' = requests,
         \A p \in Request : Fits(p) => Fits(p)'
  PROVE  Asked'
<1>1. \A i \in 1 .. Len(requests) : requests[i] \in Request /\ Fits(requests[i])
  BY DEF Asked
<1>2. \A i \in 1 .. Len(requests) : Fits(requests[i])'
  <2> SUFFICES ASSUME NEW i \in 1 .. Len(requests), NEW p \in Request,
                      p = requests[i], requests'[i] = p
               PROVE  Fits(p)'
    BY <1>1
  <2> QED
    BY <1>1
<1> QED
  BY <1>2 DEF Asked

\* ... when a request that fits now and did not before is appended ...
LEMMA AskedAppend ==
  ASSUME Asked, requests \in Seq(Request), NEW r \in Request,
         requests' = Append(requests, r),
         \A p \in Request : Fits(p) => Fits(p)',
         Fits(r)', ~Fits(r)
  PROVE  Asked'
<1>1. /\ Len(requests') = Len(requests) + 1 /\ Len(requests) \in Nat
      /\ \A i \in 1 .. Len(requests) : requests'[i] = requests[i] /\ requests[i] \in Request
      /\ requests'[Len(requests) + 1] = r
  OBVIOUS
<1>2. \A i \in 1 .. Len(requests) : Fits(requests[i])
  BY DEF Asked
<1>3. \A i \in 1 .. Len(requests') : Fits(requests[i])'
  <2> SUFFICES ASSUME NEW i \in 1 .. Len(requests'), NEW p \in Request, requests'[i] = p
               PROVE  Fits(p)'
    BY <1>1
  <2> QED
    BY <1>1, <1>2
<1>4. \A i \in 1 .. Len(requests) : requests[i] # r
  BY <1>2
<1>5. \A i, j \in 1 .. Len(requests') : i < j => requests'[i] # requests'[j]
  BY <1>1, <1>4 DEF Asked
<1> QED
  BY <1>3, <1>5 DEF Asked

\* ... and when its head is taken.
LEMMA AskedTail ==
  ASSUME Asked, requests \in Seq(Request), requests # <<>>,
         requests' = Tail(requests),
         \A p \in Request : Fits(p) /\ p # Head(requests) => Fits(p)'
  PROVE  Asked'
<1>1. /\ Len(requests') = Len(requests) - 1 /\ Len(requests) \in Nat \ {0}
      /\ \A i \in 1 .. Len(requests') : requests'[i] = requests[i + 1]
      /\ \A i \in 1 .. Len(requests) : requests[i] \in Request
      /\ Head(requests) = requests[1]
  OBVIOUS
<1>2. \A i \in 2 .. Len(requests) : Fits(requests[i]) /\ requests[i] # Head(requests)
  BY <1>1 DEF Asked
<1>3. \A i \in 1 .. Len(requests') : Fits(requests[i])'
  <2> SUFFICES ASSUME NEW i \in 1 .. Len(requests'), NEW p \in Request, requests'[i] = p
               PROVE  Fits(p)'
    BY <1>1
  <2>1. i + 1 \in 2 .. Len(requests) /\ p = requests[i + 1]
    BY <1>1
  <2> QED
    BY <1>2, <2>1
<1>4. \A i, j \in 1 .. Len(requests') : i < j => requests'[i] # requests'[j]
  BY <1>1 DEF Asked
<1> QED
  BY <1>3, <1>4 DEF Asked

\* A request stays requested when another is appended ...
LEMMA RequestedAppend ==
  ASSUME requests \in Seq(Request), NEW r \in Request, requests' = Append(requests, r)
  PROVE  Requested(r)' /\ \A p \in Request : Requested(p) => Requested(p)'
<1>1. /\ Len(requests') = Len(requests) + 1 /\ Len(requests) \in Nat
      /\ \A i \in 1 .. Len(requests) : requests'[i] = requests[i]
      /\ requests'[Len(requests) + 1] = r
  OBVIOUS
<1> QED
  BY <1>1 DEF Requested

\* ... or taken.
LEMMA RequestedTail ==
  ASSUME requests \in Seq(Request), requests # <<>>, requests' = Tail(requests)
  PROVE  \A p \in Request : Requested(p) /\ p # Head(requests) => Requested(p)'
<1>1. /\ Len(requests') = Len(requests) - 1 /\ Len(requests) \in Nat \ {0}
      /\ \A i \in 1 .. Len(requests') : requests'[i] = requests[i + 1]
      /\ Head(requests) = requests[1]
  OBVIOUS
<1> SUFFICES ASSUME NEW p \in Request, Requested(p), p # Head(requests)
             PROVE  Requested(p)'
  OBVIOUS
<1> PICK i \in 1 .. Len(requests) : requests[i] = p
  BY DEF Requested
<1>2. i - 1 \in 1 .. Len(requests') /\ requests'[i - 1] = p
  BY <1>1
<1> QED
  BY <1>2 DEF Requested

\* Every step keeps the queue orderly.
LEMMA AskedStep ==
  ASSUME TypeOK, Phases, Asked, Waiting, Owner, Quits, [Next]_vars
  PROVE  Asked'
<1> USE DEF connVars, managerVars, channelVars, Become
<1>0. /\ conn \in [Conns -> ConnState] /\ app \in [Conns -> Names \cup {None}]
      /\ answer \in [Conns -> Reply] /\ requests \in Seq(Request)
      /\ channels \in [Names -> Conns \cup {None}]
      /\ chan \in [Conns -> {"absent", "running", "closing", "dead"}]
      /\ reader \in [Conns -> ReaderState]
      /\ \A p \in Request : p.by \in Conns /\ p.name \in Names /\ p.type \in {"Join", "Release"}
  BY DEF TypeOK, Request
<1>1. CASE Quiet
  <2>1. \A p \in Request : Fits(p) => Fits(p)'
    BY <1>0, <1>1 DEF Quiet, Fits
  <2> QED
    BY <1>0, <1>1, <2>1, AskedKept DEF Quiet
<1>2. ASSUME NEW c \in Conns, NEW n \in Names, Connect(c, n) PROVE Asked'
  <2>1. JoinReq(c, n) \in Request
    BY DEF JoinReq, Request
  <2>2. conn[c] = "new" /\ chan[c] = "absent" /\ reader[c] = "absent" /\ answer[c] = Pending
    BY <1>2 DEF Connect, Phases
  <2>3. /\ conn' = [conn EXCEPT ![c] = "joining"] /\ app' = [app EXCEPT ![c] = n]
        /\ UNCHANGED <<answer, channels, chan, reader>>
        /\ requests' = Append(requests, JoinReq(c, n))
    BY <1>2 DEF Connect
  <2>4. \A p \in Request : Fits(p) => p.by # c
    BY <1>0, <2>2 DEF Fits
  <2>5. \A p \in Request : Fits(p) => Fits(p)'
    BY <1>0, <2>3, <2>4 DEF Fits
  <2>6. Fits(JoinReq(c, n))' /\ ~Fits(JoinReq(c, n))
    BY <1>0, <2>2, <2>3 DEF Fits, JoinReq
  <2> QED
    BY <1>0, <2>1, <2>3, <2>5, <2>6, AskedAppend
<1>3. ASSUME NEW d \in Conns, ReaderReleases(d), step # "panicked" PROVE Asked'
  <2>1. app[d] \in Names /\ channels[app[d]] = d /\ reader[d] = "releasing"
    BY <1>3 DEF ReaderReleases, Phases, Owner
  <2> PICK n \in Names : n = app[d]
    BY <2>1
  <2>2. ReleaseReq(d, n) \in Request
    BY DEF ReleaseReq, Request
  <2>3. /\ reader' = [reader EXCEPT ![d] = "ended"]
        /\ UNCHANGED <<conn, app, answer, channels, chan>>
        /\ requests' = Append(requests, ReleaseReq(d, n))
    BY <1>3 DEF ReaderReleases
  <2>4. \A p \in Request : Fits(p) => Fits(p)'
    BY <1>0, <2>1, <2>3 DEF Fits
  <2>5. Fits(ReleaseReq(d, n))' /\ ~Fits(ReleaseReq(d, n))
    BY <1>0, <2>1, <2>3 DEF Fits, ReleaseReq
  <2> QED
    BY <1>0, <2>2, <2>3, <2>4, <2>5, AskedAppend
<1>4. CASE HandleLocalJoin \/ PullFails
  <2> DEFINE h == Head(requests)
  <2>1. /\ requests # <<>> /\ h \in Request /\ h.type = "Join" /\ Fits(h)
        /\ h.name = app[h.by]
    BY <1>0, <1>4, InHand, HeadRequest DEF HandleLocalJoin, PullFails
  <2>2. /\ requests' = Tail(requests) /\ UNCHANGED <<conn, app, channels, chan, reader>>
        /\ \A c \in Conns : c # h.by => answer'[c] = answer[c]
    BY <1>0, <1>4 DEF HandleLocalJoin, PullFails, Respond
  <2> HIDE DEF h
  <2>3. ASSUME NEW p \in Request, Fits(p), p # h PROVE Fits(p)'
    <3>1. CASE p.type = "Join"
      <4>1. p.by # h.by
        BY <2>1, <2>3, <3>1, SameRequest DEF Fits
      <4> QED
        BY <1>0, <2>2, <2>3, <3>1, <4>1 DEF Fits
    <3>2. CASE p.type = "Release"
      BY <1>0, <2>2, <2>3, <3>2 DEF Fits
    <3> QED
      BY <1>0, <3>1, <3>2
  <2> QED
    BY <1>0, <2>1, <2>2, <2>3, AskedTail DEF h
<1>5. CASE Confirmed
  <2> DEFINE h == Head(requests)
  <2>1. /\ requests # <<>> /\ h \in Request /\ h.type = "Join" /\ Fits(h)
        /\ h.name = app[h.by] /\ h.by \in Conns /\ h.name \in Names
        /\ chan[h.by] = "absent" /\ channels[h.name] = None
    BY <1>0, <1>5, InHand, HeadRequest DEF Confirmed, Waiting
  <2>2. /\ requests' = Tail(requests) /\ UNCHANGED <<conn, app>>
        /\ channels' = [channels EXCEPT ![h.name] = h.by]
        /\ chan' = [chan EXCEPT ![h.by] = "running"]
        /\ reader' = [reader EXCEPT ![h.by] = "reading"]
        /\ answer' = [answer EXCEPT ![h.by] = Origin(h.by)]
    BY <1>5 DEF Confirmed, Respond
  <2>3. reader[h.by] = "absent"
    BY <2>1 DEF Phases
  <2> HIDE DEF h
  <2>4. ASSUME NEW p \in Request, Fits(p), p # h PROVE Fits(p)'
    <3>1. CASE p.type = "Join"
      <4>1. p.by # h.by
        BY <2>1, <2>4, <3>1, SameRequest DEF Fits
      <4> QED
        BY <1>0, <2>2, <2>4, <3>1, <4>1 DEF Fits
    <3>2. CASE p.type = "Release"
      <4>1. p.by # h.by /\ p.name # h.name
        BY <1>0, <2>1, <2>3, <2>4, <3>2, NoneAssumption DEF Fits
      <4> QED
        BY <1>0, <2>2, <2>4, <3>2, <4>1 DEF Fits
    <3> QED
      BY <1>0, <3>1, <3>2
  <2> QED
    BY <1>0, <2>1, <2>2, <2>4, AskedTail DEF h
<1>6. CASE HandleRelease
  <2> DEFINE h == Head(requests)
  <2>1. /\ requests # <<>> /\ h \in Request /\ h.type = "Release"
        /\ h = requests[1] /\ 1 \in 1 .. Len(requests)
    BY <1>0, <1>6, HeadRequest DEF HandleRelease, Take
  <2>2. Fits(h)
    BY <2>1 DEF Asked
  <2>3. /\ requests' = Tail(requests) /\ UNCHANGED <<conn, app, answer, chan, reader>>
        /\ channels' = [channels EXCEPT ![h.name] = None]
    BY <1>6 DEF HandleRelease
  <2> HIDE DEF h
  <2>4. ASSUME NEW p \in Request, Fits(p), p # h PROVE Fits(p)'
    <3>1. CASE p.type = "Join"
      BY <1>0, <2>3, <2>4, <3>1 DEF Fits
    <3>2. CASE p.type = "Release"
      <4>1. p.name # h.name
        BY <2>1, <2>2, <2>4, <3>2, SameRequest DEF Fits
      <4> QED
        BY <1>0, <2>3, <2>4, <3>2, <4>1 DEF Fits
    <3> QED
      BY <1>0, <3>1, <3>2
  <2> QED
    BY <1>0, <2>1, <2>3, <2>4, AskedTail DEF h
<1>7. ASSUME NEW d \in Conns, ReaderReleases(d), step = "panicked" PROVE Asked'
  BY <1>7 DEF ReaderReleases, Quits, Asked
<1>8. CASE ManagerPanics
  BY <1>8 DEF ManagerPanics, Asked
<1> QED
  BY <1>1, <1>2, <1>3, <1>4, <1>5, <1>6, <1>7, <1>8, Steps

\* The Join in hand stays first, and its name stays away.
LEMMA WaitingStep ==
  ASSUME TypeOK, Phases, Asked, Waiting, [Next]_vars
  PROVE  Waiting'
<1> USE DEF connVars, managerVars, channelVars
<1>0. requests \in Seq(Request)
  BY DEF TypeOK
<1>1. CASE UNCHANGED managerVars
  BY <1>1 DEF Waiting
<1>2. ASSUME NEW r, requests' = Append(requests, r), r \in Request, UNCHANGED <<step, channels>>
      PROVE  Waiting'
  <2>1. requests # <<>> => requests' # <<>> /\ Head(requests') = Head(requests)
    BY <1>0, <1>2
  <2> QED
    BY <1>2, <2>1 DEF Waiting
<1>3. ASSUME NEW c \in Conns, NEW n \in Names, Connect(c, n) PROVE Waiting'
  <2>1. JoinReq(c, n) \in Request
    BY DEF JoinReq, Request
  <2> QED
    BY <1>2, <1>3, <2>1 DEF Connect
<1>4. ASSUME NEW d \in Conns, ReaderReleases(d) PROVE Waiting'
  <2>1. ReleaseReq(d, app[d]) \in Request
    BY <1>4 DEF ReaderReleases, ReleaseReq, Request, Phases
  <2> QED
    BY <1>2, <1>4, <2>1 DEF ReaderReleases, Waiting
<1>5. CASE HandleLocalJoin \/ PullFails \/ Confirmed \/ HandleRelease \/ ManagerPanics
  BY <1>5 DEF HandleLocalJoin, PullFails, Confirmed, HandleRelease, ManagerPanics, Take,
              Respond, Waiting
<1>6. CASE StartPull \/ PullGoesOn
  BY <1>6 DEF StartPull, PullGoesOn, Take, Waiting
<1>7. ASSUME NEW c \in Conns,
             Connection(c) \/ RefusePublisher(c) \/ ConnectFails(c) \/ PlayerGone(c)
      PROVE  Waiting'
  BY <1>1, <1>7 DEF Connection, RefusePublisher, ConnectFails, PlayerGone, JoinAnswered,
                    RequestInit, InitAnswered, Receive, Closed
<1>8. ASSUME NEW d \in Conns,
             UpstreamPacket(d) \/ UpstreamErrors(d) \/ UpstreamBreaks(d)
             \/ UpstreamGarbles(d) \/ UpstreamEof(d) \/ ChannelHandle(d) \/ ChannelExit(d)
      PROVE  Waiting'
  BY <1>1, <1>8 DEF UpstreamPacket, UpstreamErrors, UpstreamBreaks, UpstreamGarbles, UpstreamEof,
                    ChannelHandle, ChannelExit
<1>9. CASE UNCHANGED vars
  BY <1>1, <1>9 DEF vars
<1> QED
  BY <1>3, <1>4, <1>5, <1>6, <1>7, <1>8, <1>9
     DEF Next, Environment, Answers, Manager, Channel

\* The map leads to channels of the right name, and readers keep their entries.
LEMMA MappedStep ==
  ASSUME TypeOK, Phases, Asked, Waiting, Mapped, Owner, Quits, [Next]_vars
  PROVE  Mapped' /\ Owner'
<1> USE DEF connVars, managerVars, channelVars, Become
<1>0. /\ conn \in [Conns -> ConnState] /\ app \in [Conns -> Names \cup {None}]
      /\ requests \in Seq(Request)
      /\ channels \in [Names -> Conns \cup {None}]
      /\ chan \in [Conns -> {"absent", "running", "closing", "dead"}]
      /\ reader \in [Conns -> ReaderState]
      /\ \A d \in Conns, n \in Names : ReleaseReq(d, n) \in Request
  BY DEF TypeOK, Request, ReleaseReq
<1>1. CASE Quiet
  <2>1. Mapped'
    <3> SUFFICES ASSUME NEW n \in Names, NEW d \in Conns, channels[n] = d
                 PROVE  /\ app[d] = n /\ chan'[d] # "absent"
                        /\ reader'[d] = "ended" => Requested(ReleaseReq(d, n))
      BY <1>1 DEF Quiet, Mapped, Requested
    <3>1. reader'[d] = "ended" => reader[d] = "ended"
      BY <1>1 DEF Quiet
    <3>2. chan[d] # "absent" => chan'[d] # "absent"
      BY <1>1 DEF Quiet
    <3> QED
      BY <3>1, <3>2 DEF Mapped
  <2>2. Owner'
    BY <1>1 DEF Quiet, Owner
  <2> QED
    BY <2>1, <2>2
<1>2. ASSUME NEW c \in Conns, NEW n \in Names, Connect(c, n) PROVE Mapped' /\ Owner'
  <2>1. chan[c] = "absent" /\ reader[c] = "absent"
    BY <1>2 DEF Connect, Phases
  <2>2. /\ app' = [app EXCEPT ![c] = n] /\ UNCHANGED <<step, channels, chan, reader>>
        /\ requests' = Append(requests, JoinReq(c, n))
    BY <1>2 DEF Connect
  <2>3. \A p \in Request : Requested(p) => Requested(p)'
    <3>1. JoinReq(c, n) \in Request
      BY DEF JoinReq, Request
    <3> QED
      BY <1>0, <2>2, <3>1, RequestedAppend
  <2>4. Mapped'
    BY <1>0, <2>1, <2>2, <2>3 DEF Mapped
  <2>5. Owner'
    BY <1>0, <2>1, <2>2 DEF Owner
  <2> QED
    BY <2>4, <2>5
<1>3. ASSUME NEW d \in Conns, ReaderReleases(d), step # "panicked"
      PROVE  Mapped' /\ Owner'
  <2>1. app[d] \in Names
    BY <1>3 DEF ReaderReleases, Phases
  <2>2. /\ reader' = [reader EXCEPT ![d] = "ended"] /\ UNCHANGED <<app, step, channels, chan>>
        /\ requests' = Append(requests, ReleaseReq(d, app[d]))
    BY <1>3 DEF ReaderReleases
  <2>3. /\ Requested(ReleaseReq(d, app[d]))'
        /\ \A p \in Request : Requested(p) => Requested(p)'
    BY <1>0, <2>1, <2>2, RequestedAppend
  <2>4. ASSUME NEW n \in Names, NEW e \in Conns, channels'[n] = e
        PROVE  /\ app'[e] = n /\ chan'[e] # "absent"
               /\ reader'[e] = "ended" => Requested(ReleaseReq(e, n))'
    <3>1. app[e] = n /\ chan[e] # "absent"
      BY <2>2, <2>4 DEF Mapped
    <3>2. CASE e = d
      <4>1. ReleaseReq(e, n) = ReleaseReq(d, app[d])
        BY <3>1, <3>2
      <4> QED
        BY <2>2, <2>3, <3>1, <4>1, Zenon
    <3>3. CASE e # d
      BY <1>0, <2>2, <2>3, <2>4, <3>3 DEF Mapped
    <3> QED
      BY <3>2, <3>3
  <2>5. Owner'
    BY <1>0, <2>2 DEF Owner
  <2>6. Mapped'
    BY <2>4, Zenon DEF Mapped
  <2> QED
    BY <2>5, <2>6
<1>4. CASE HandleLocalJoin \/ PullFails
  <2>1. requests # <<>> /\ Head(requests).type = "Join"
    BY <1>4, InHand DEF HandleLocalJoin, PullFails
  <2>2. /\ requests' = Tail(requests) /\ UNCHANGED <<app, channels, chan, reader>>
        /\ step # "panicked"
    BY <1>4 DEF HandleLocalJoin, PullFails, Take, Respond
  <2>3. \A d \in Conns, n \in Names :
          Requested(ReleaseReq(d, n)) => Requested(ReleaseReq(d, n))'
    <3>1. \A d \in Conns, n \in Names : ReleaseReq(d, n) # Head(requests)
      BY <2>1 DEF ReleaseReq
    <3> QED
      BY <1>0, <2>1, <2>2, <3>1, RequestedTail
  <2> QED
    BY <2>2, <2>3 DEF Mapped, Owner
<1>5. CASE Confirmed
  <2> PICK b \in Conns : b = Head(requests).by
    BY <1>0, <1>5, InHand, HeadRequest DEF Confirmed
  <2> PICK n \in Names : n = Head(requests).name
    BY <1>0, <1>5, InHand, HeadRequest DEF Confirmed
  <2>1. /\ requests # <<>> /\ Head(requests).type = "Join" /\ n = app[b]
        /\ chan[b] = "absent" /\ channels[n] = None
    BY <1>5, InHand DEF Confirmed, Waiting
  <2>2. /\ requests' = Tail(requests) /\ app' = app /\ step # "panicked"
        /\ channels' = [channels EXCEPT ![n] = b]
        /\ chan' = [chan EXCEPT ![b] = "running"]
        /\ reader' = [reader EXCEPT ![b] = "reading"]
    BY <1>5 DEF Confirmed, Respond
  <2>3. \A d \in Conns, m \in Names :
          Requested(ReleaseReq(d, m)) => Requested(ReleaseReq(d, m))'
    <3>1. \A d \in Conns, m \in Names : ReleaseReq(d, m) # Head(requests)
      BY <2>1 DEF ReleaseReq
    <3> QED
      BY <1>0, <2>1, <2>2, <3>1, RequestedTail
  <2>4. \A m \in Names : channels[m] # b
    BY <2>1 DEF Mapped
  <2>5. Mapped'
    <3> SUFFICES ASSUME NEW m \in Names, NEW d \in Conns, channels'[m] = d
                 PROVE  /\ app'[d] = m /\ chan'[d] # "absent"
                        /\ reader'[d] = "ended" => Requested(ReleaseReq(d, m))'
      BY Zenon DEF Mapped
    <3>1. CASE d = b
      BY <1>0, <2>1, <2>2, <2>4, <3>1
    <3>2. CASE d # b
      <4>1. channels[m] = d /\ chan'[d] = chan[d] /\ reader'[d] = reader[d]
        BY <1>0, <2>2, <3>2
      <4> QED
        BY <2>2, <2>3, <4>1 DEF Mapped
    <3> QED
      BY <3>1, <3>2
  <2>6. Owner'
    <3> SUFFICES ASSUME NEW d \in Conns, reader'[d] \notin {"absent", "ended"}
                 PROVE  channels'[app'[d]] = d
      BY DEF Owner
    <3>1. CASE d = b
      BY <1>0, <2>1, <2>2, <3>1
    <3>2. CASE d # b
      <4>1. channels[app[d]] = d
        BY <1>0, <2>2, <3>2 DEF Owner
      <4>2. app[d] # n
        BY <2>1, <4>1, NoneAssumption
      <4>3. app[d] \in Names
        BY <1>0, <2>2, <3>2 DEF Phases
      <4> QED
        BY <1>0, <2>2, <4>1, <4>2, <4>3
    <3> QED
      BY <3>1, <3>2
  <2> QED
    BY <2>5, <2>6
<1>6. CASE HandleRelease
  <2> DEFINE h == Head(requests)
  <2>1. /\ requests # <<>> /\ h \in Request /\ h.type = "Release"
        /\ h.by \in Conns /\ h.name \in Names
        /\ h = requests[1] /\ 1 \in 1 .. Len(requests)
    BY <1>0, <1>6, HeadRequest DEF HandleRelease, Take
  <2>2. reader[h.by] = "ended" /\ channels[h.name] = h.by
    BY <2>1 DEF Asked, Fits
  <2>3. /\ requests' = Tail(requests) /\ UNCHANGED <<app, chan, reader>>
        /\ channels' = [channels EXCEPT ![h.name] = None] /\ step # "panicked"
    BY <1>6 DEF HandleRelease, Take
  <2>4. \A d \in Conns, n \in Names :
          n # h.name /\ Requested(ReleaseReq(d, n)) => Requested(ReleaseReq(d, n))'
    <3>1. \A d \in Conns, n \in Names : n # h.name => ReleaseReq(d, n) # h
      BY DEF ReleaseReq
    <3> QED
      BY <1>0, <2>1, <2>3, <3>1, RequestedTail
  <2> HIDE DEF h
  <2>5. Mapped'
    <3> SUFFICES ASSUME NEW n \in Names, NEW d \in Conns, channels'[n] = d
                 PROVE  /\ app'[d] = n /\ chan'[d] # "absent"
                        /\ reader'[d] = "ended" => Requested(ReleaseReq(d, n))'
      BY Zenon DEF Mapped
    <3>1. n # h.name /\ channels[n] = d
      BY <1>0, <2>1, <2>3, NoneAssumption
    <3> QED
      BY <2>3, <2>4, <3>1 DEF Mapped
  <2>6. Owner'
    <3> SUFFICES ASSUME NEW d \in Conns, reader[d] \notin {"absent", "ended"}
                 PROVE  channels'[app[d]] = d
      BY <2>3 DEF Owner
    <3>1. channels[app[d]] = d /\ app[d] \in Names
      BY <2>3 DEF Owner, Phases
    <3>2. app[d] # h.name
      BY <2>2, <3>1
    <3> QED
      BY <1>0, <2>3, <3>1, <3>2
  <2> QED
    BY <2>5, <2>6
<1>7. ASSUME NEW d \in Conns, ReaderReleases(d), step = "panicked"
      PROVE  Mapped' /\ Owner'
  BY <1>7, NoneAssumption DEF ReaderReleases, Quits, Mapped, Owner
<1>8. CASE ManagerPanics
  BY <1>8, NoneAssumption DEF ManagerPanics, Mapped, Owner
<1> QED
  BY <1>1, <1>2, <1>3, <1>4, <1>5, <1>6, <1>7, <1>8, Steps

\* A manager that is gone comes not back.
LEMMA QuitsStep ==
  ASSUME TypeOK, Quits, [Next]_vars
  PROVE  Quits'
<1> USE DEF connVars, managerVars, channelVars, Quits
<1>1. CASE Quiet
  BY <1>1 DEF Quiet
<1>2. ASSUME NEW c \in Conns, NEW n \in Names, Connect(c, n) PROVE Quits'
  BY <1>2 DEF Connect
<1>3. ASSUME NEW d \in Conns, ReaderReleases(d) PROVE Quits'
  BY <1>3 DEF ReaderReleases
<1>4. CASE HandleLocalJoin \/ PullFails \/ Confirmed \/ HandleRelease
  BY <1>4 DEF HandleLocalJoin, PullFails, Confirmed, HandleRelease, Take, Respond
<1>5. CASE ManagerPanics
  BY <1>5 DEF ManagerPanics
<1> QED
  BY <1>1, <1>2, <1>3, <1>4, <1>5, Steps

\* Streams stay pulled once: by the map, and without a manager nothing is pulled.
LEMMA PulledOnceStep ==
  ASSUME TypeOK, Phases, Asked, Waiting, Mapped, Owner, Quits, PulledOnce, [Next]_vars
  PROVE  PulledOnce'
<1>1. Owner'
  BY MappedStep
<1>2. CASE step' # "panicked"
  BY <1>1, <1>2 DEF Owner, PulledOnce, Pulling
<1>3. CASE step' = "panicked"
  <2>0. reader \in [Conns -> ReaderState]
    BY DEF TypeOK
  <2>1. \A d \in Conns : Pulling(d)' => Pulling(d)
    <3>1. CASE Quiet
      BY <3>1 DEF Quiet, Pulling
    <3>2. CASE ManagerPanics
      BY <3>2 DEF ManagerPanics, channelVars, Pulling
    <3>3. ASSUME NEW d \in Conns, ReaderReleases(d)
          PROVE  \A e \in Conns : Pulling(e)' => Pulling(e)
      BY <2>0, <3>3 DEF ReaderReleases, Pulling
    <3>4. ~(HandleLocalJoin \/ PullFails \/ Confirmed \/ HandleRelease)
      BY <1>3 DEF HandleLocalJoin, PullFails, Confirmed, HandleRelease, Respond, Take
    <3>5. ~\E c \in Conns, n \in Names : Connect(c, n)
      BY <1>3 DEF Connect
    <3> QED
      BY <3>1, <3>2, <3>3, <3>4, <3>5, Steps
  <2>2. \A d \in Conns : Pulling(d)' => app'[d] = app[d]
    <3>1. CASE Quiet \/ ManagerPanics \/ \E d \in Conns : ReaderReleases(d)
      BY <3>1 DEF Quiet, ManagerPanics, ReaderReleases, connVars
    <3>2. ~(HandleLocalJoin \/ PullFails \/ Confirmed \/ HandleRelease)
      BY <1>3 DEF HandleLocalJoin, PullFails, Confirmed, HandleRelease, Respond, Take
    <3>3. ~\E c \in Conns, n \in Names : Connect(c, n)
      BY <1>3 DEF Connect
    <3> QED
      BY <3>1, <3>2, <3>3, Steps
  <2> QED
    BY <2>1, <2>2 DEF PulledOnce
<1> QED
  BY <1>2, <1>3

(***************************************************************************)
(* What the node owes to those who wait.                                   *)
(***************************************************************************)

\* A player that has gone on has been given a handle.
Watching ==
  \A c \in Conns :
    conn[c] \in {"requesting", "waiting", "playing"} => answer[c] \notin {Pending, Dropped}

\* What is owed to one connection, by the manager and by a channel.
OwedReply(c) ==
  conn[c] = "joining" /\ answer[c] = Pending => Requested(JoinReq(c, app[c]))

OwedInit(c) ==
  conn[c] = "waiting" /\ initReply[c] = "pending" =>
    \E d \in Conns : answer[c] = Local(d) /\ Alive(d) /\ Queued(d, InitDataMsg(c))

\* The manager replies to the connection whose Join is the first, and to no other.
LEMMA AnswerStep ==
  ASSUME TypeOK, Asked, Waiting, [Next]_vars, NEW c \in Conns
  PROVE  \/ answer'[c] = answer[c]
         \/ /\ requests # <<>> /\ Head(requests).type = "Join" /\ Head(requests).by = c
            /\ conn[c] \in {"joining", "ended"}
            /\ answer'[c] # Pending /\ conn' = conn
         \/ ManagerPanics /\ conn[c] \in {"joining", "ended"} /\ answer'[c] = Dropped
<1>0. answer \in [Conns -> Reply] /\ requests \in Seq(Request)
  BY DEF TypeOK
<1>1. CASE Quiet
  BY <1>1 DEF Quiet
<1>2. ASSUME NEW e \in Conns, NEW n \in Names, Connect(e, n) PROVE answer' = answer
  BY <1>2 DEF Connect
<1>3. ASSUME NEW d \in Conns, ReaderReleases(d) PROVE answer' = answer
  BY <1>3 DEF ReaderReleases, connVars
<1>4. CASE HandleRelease
  BY <1>4 DEF HandleRelease, connVars
<1>5. CASE HandleLocalJoin \/ PullFails \/ Confirmed
  <2>1. /\ requests # <<>> /\ Head(requests).type = "Join"
        /\ conn[Head(requests).by] \in {"joining", "ended"}
    BY <1>5, InHand DEF HandleLocalJoin, PullFails, Confirmed
  <2>2. PICK b \in Conns : b = Head(requests).by
    BY <1>0, <2>1, HeadRequest
  <2>3. PICK r : answer' = [answer EXCEPT ![b] = r] /\ conn' = conn /\ r # Pending
    <3>1. \A d : Local(d) # Pending /\ Origin(d) # Pending /\ Dropped # Pending
      BY DEF Local, Origin, Dropped, Pending
    <3> QED
      BY <1>5, <2>2, <3>1 DEF HandleLocalJoin, PullFails, Confirmed, Respond
  <2> QED
    BY <1>0, <2>1, <2>2, <2>3
<1>6. CASE ManagerPanics
  BY <1>6, PanicDrops
<1> QED
  BY <1>1, <1>2, <1>3, <1>4, <1>5, <1>6, Steps

\* A player goes on when it has a handle.
LEMMA PlayerStep ==
  ASSUME TypeOK, [Next]_vars, NEW c \in Conns,
         conn'[c] \in {"requesting", "waiting", "playing"}
  PROVE  \/ conn[c] \in {"requesting", "waiting", "playing"}
         \/ conn[c] = "joining" /\ answer[c] \notin {Pending, Dropped} /\ answer' = answer
<1> USE DEF connVars, managerVars, channelVars, Become
<1>0. conn \in [Conns -> ConnState] /\ answer \in [Conns -> Reply]
  BY DEF TypeOK
<1>1. ASSUME NEW e \in Conns,
             \/ RefusePublisher(e) \/ ConnectFails(e) \/ PlayerGone(e)
             \/ Receive(e) \/ Closed(e)
      PROVE  conn'[c] = conn[c]
  BY <1>0, <1>1 DEF RefusePublisher, ConnectFails, PlayerGone, Receive, Closed
<1>2. ASSUME NEW e \in Conns, NEW n \in Names, Connect(e, n) PROVE conn'[c] = conn[c]
  BY <1>0, <1>2 DEF Connect
<1>3. ASSUME NEW e \in Conns, RequestInit(e) \/ InitAnswered(e)
      PROVE  conn'[c] = conn[c] \/ conn[c] \in {"requesting", "waiting"}
  BY <1>0, <1>3 DEF RequestInit, InitAnswered
<1>4. ASSUME NEW e \in Conns, JoinAnswered(e)
      PROVE  \/ conn'[c] = conn[c]
             \/ conn[c] = "joining" /\ answer[c] \notin {Pending, Dropped} /\ answer' = answer
  BY <1>0, <1>4 DEF JoinAnswered, Dropped
<1>5. ASSUME NEW d \in Conns,
             \/ UpstreamPacket(d) \/ UpstreamErrors(d) \/ UpstreamBreaks(d)
             \/ UpstreamGarbles(d) \/ UpstreamEof(d) \/ Channel(d)
      PROVE  conn' = conn
  BY <1>5 DEF UpstreamPacket, UpstreamErrors, UpstreamBreaks, UpstreamGarbles, UpstreamEof,
              Channel, ChannelHandle, ChannelExit, ReaderReleases
<1>6. CASE Answers \/ Manager \/ ManagerPanics
  BY <1>6 DEF Answers, PullGoesOn, PullFails, Manager, HandleLocalJoin, StartPull, Confirmed,
              HandleRelease, ManagerPanics
<1> QED
  BY <1>1, <1>2, <1>3, <1>4, <1>5, <1>6 DEF vars, Next, Environment, Connection

\* Every step keeps the players watching.
LEMMA WatchingStep ==
  ASSUME TypeOK, Asked, Waiting, Watching, [Next]_vars
  PROVE  Watching'
<1> SUFFICES ASSUME NEW c \in Conns, conn'[c] \in {"requesting", "waiting", "playing"}
             PROVE  answer'[c] \notin {Pending, Dropped}
  BY DEF Watching, Pending, Dropped
<1>1. \/ conn[c] \in {"requesting", "waiting", "playing"}
      \/ conn[c] = "joining" /\ answer[c] \notin {Pending, Dropped} /\ answer' = answer
  BY PlayerStep
<1>2. answer'[c] = answer[c]
  BY <1>1, AnswerStep
<1> QED
  BY <1>1, <1>2 DEF Watching

\* A Join stays in the manager's queue until it is answered.
LEMMA OwedReplyStep ==
  ASSUME TypeOK, Phases, Asked, Waiting, [Next]_vars, NEW c \in Conns, OwedReply(c)
  PROVE  OwedReply(c)'
<1> USE DEF OwedReply
<1>0. /\ conn \in [Conns -> ConnState] /\ app \in [Conns -> Names \cup {None}]
      /\ answer \in [Conns -> Reply] /\ requests \in Seq(Request)
  BY DEF TypeOK
<1>1. PICK r : r = JoinReq(c, app[c])
  OBVIOUS
<1>2. conn[c] = "joining" => r \in Request
  BY <1>1 DEF Phases, JoinReq, Request
<1>3. ASSUME app'[c] = app[c], answer'[c] = answer[c],
             conn'[c] = "joining" => conn[c] = "joining",
             r \in Request /\ Requested(r) => Requested(r)'
      PROVE  OwedReply(c)'
  <2>1. r = JoinReq(c, app'[c])
    BY <1>1, <1>3
  <2> QED
    BY <1>1, <1>2, <1>3, <2>1, Zenon DEF Pending, JoinReq
<1>4. CASE Quiet
  BY <1>3, <1>4 DEF Quiet, Requested
<1>5. ASSUME NEW e \in Conns, NEW n \in Names, Connect(e, n) PROVE OwedReply(c)'
  <2>1. PICK p \in Request : p = JoinReq(e, n) /\ requests' = Append(requests, p)
    BY <1>5 DEF Connect, JoinReq, Request
  <2>2. Requested(p)' /\ \A q \in Request : Requested(q) => Requested(q)'
    BY <1>0, <2>1, RequestedAppend
  <2>3. CASE e = c
    <3>1. app'[c] = n
      BY <1>0, <1>5, <2>3 DEF Connect
    <3>2. p = JoinReq(c, app'[c])
      BY <2>1, <2>3, <3>1
    <3> QED
      BY <2>2, <3>2
  <2>4. CASE e # c
    BY <1>0, <1>3, <1>5, <2>2, <2>4 DEF Connect, Become
  <2> QED
    BY <2>3, <2>4
<1>6. ASSUME NEW d \in Conns, ReaderReleases(d) PROVE OwedReply(c)'
  <2>1. ReleaseReq(d, app[d]) \in Request
    BY <1>6 DEF ReaderReleases, ReleaseReq, Request, Phases
  <2>2. \A q \in Request : Requested(q) => Requested(q)'
    <3>1. CASE requests' = requests
      BY <3>1 DEF Requested
    <3>2. CASE requests' = Append(requests, ReleaseReq(d, app[d]))
      BY <1>0, <2>1, <3>2, RequestedAppend
    <3> QED
      BY <1>6, <3>1, <3>2 DEF ReaderReleases
  <2> QED
    BY <1>3, <1>6, <2>2 DEF ReaderReleases, connVars
<1>7. CASE HandleLocalJoin \/ PullFails \/ Confirmed \/ HandleRelease
  <2>1. /\ requests # <<>> /\ requests' = Tail(requests) /\ conn' = conn /\ app' = app
    BY <1>7, InHand
       DEF HandleLocalJoin, PullFails, Confirmed, HandleRelease, Respond, Take, connVars
  <2>2. CASE Head(requests).type = "Join" /\ Head(requests).by = c
    <3>1. HandleLocalJoin \/ PullFails \/ Confirmed
      BY <1>7, <2>2 DEF HandleRelease, Take
    <3>2. \E x : answer'[c] \in {Dropped, Local(x), Origin(x)}
      BY <1>0, <2>2, <3>1 DEF HandleLocalJoin, PullFails, Confirmed, Respond
    <3>3. answer'[c] # Pending
      BY <3>2 DEF Dropped, Local, Origin, Pending
    <3> QED
      BY <3>3 DEF Pending
  <2>3. CASE ~(Head(requests).type = "Join" /\ Head(requests).by = c)
    <3>1. r # Head(requests)
      BY <1>1, <2>3 DEF JoinReq
    <3>2. r \in Request /\ Requested(r) => Requested(r)'
      BY <1>0, <2>1, <3>1, RequestedTail
    <3>3. ~ManagerPanics
      BY <1>7 DEF HandleLocalJoin, PullFails, Confirmed, HandleRelease, Respond, Take,
                  ManagerPanics
    <3>4. answer'[c] = answer[c]
      BY <2>3, <3>3, AnswerStep
    <3> QED
      BY <1>3, <2>1, <3>2, <3>4
  <2> QED
    BY <2>2, <2>3
<1>8. CASE ManagerPanics
  <2>1. conn' = conn /\ app' = app
    BY <1>8 DEF ManagerPanics
  <2>2. Requested(JoinReq(c, app[c])) => answer'[c] = Dropped
    BY <1>0, <1>8 DEF ManagerPanics, Requested
  <2>3. ~Requested(JoinReq(c, app[c])) => answer'[c] = answer[c]
    BY <1>0, <1>8 DEF ManagerPanics, Requested
  <2>4. Dropped # Pending /\ Pending' = Pending
    BY DEF Dropped, Pending
  <2> QED
    BY <2>1, <2>2, <2>3, <2>4
<1> QED
  BY <1>4, <1>5, <1>6, <1>7, <1>8, Steps

\* A connection comes to wait by asking for the cached packets.
LEMMA WaitStep ==
  ASSUME TypeOK, [Next]_vars, NEW c \in Conns, conn'[c] = "waiting"
  PROVE  conn[c] = "waiting" \/ RequestInit(c)
<1> USE DEF connVars, managerVars, channelVars, Become
<1>0. conn \in [Conns -> ConnState] /\ answer \in [Conns -> Reply]
  BY DEF TypeOK
<1>1. ASSUME NEW e \in Conns, NEW n \in Names, Connect(e, n) PROVE conn[c] = "waiting"
  BY <1>0, <1>1 DEF Connect
<1>2. ASSUME NEW e \in Conns,
             \/ RefusePublisher(e) \/ ConnectFails(e) \/ PlayerGone(e) \/ InitAnswered(e)
             \/ Receive(e) \/ Closed(e)
      PROVE  conn[c] = "waiting"
  BY <1>0, <1>2 DEF RefusePublisher, ConnectFails, PlayerGone, InitAnswered, Receive, Closed
<1>3. ASSUME NEW e \in Conns, JoinAnswered(e) PROVE conn[c] = "waiting"
  <2>1. answer[e].status \in {"dropped", "local", "origin"}
    BY <1>0, <1>3 DEF JoinAnswered, Reply, Pending, Dropped, Local, Origin
  <2> QED
    BY <1>0, <1>3, <2>1 DEF JoinAnswered
<1>4. ASSUME NEW e \in Conns, RequestInit(e), e # c PROVE conn[c] = "waiting"
  BY <1>0, <1>4 DEF RequestInit
<1>5. ASSUME NEW d \in Conns,
             \/ UpstreamPacket(d) \/ UpstreamErrors(d) \/ UpstreamBreaks(d)
             \/ UpstreamGarbles(d) \/ UpstreamEof(d) \/ Channel(d)
      PROVE  conn[c] = "waiting"
  BY <1>5 DEF UpstreamPacket, UpstreamErrors, UpstreamBreaks, UpstreamGarbles, UpstreamEof,
              Channel, ChannelHandle, ChannelExit, ReaderReleases
<1>6. CASE Answers \/ Manager \/ ManagerPanics
  BY <1>6 DEF Answers, PullGoesOn, PullFails, Manager, HandleLocalJoin, StartPull, Confirmed,
              HandleRelease, ManagerPanics
<1> QED
  BY <1>1, <1>2, <1>3, <1>4, <1>5, <1>6 DEF vars, Next, Environment, Connection

\* The steps of others leave a channel alive and an InitData where it is queued.
LEMMA ChannelAlone ==
  ASSUME TypeOK, Sourced, Asked, Waiting, [Next]_vars,
         \A e \in Conns : ~(ChannelHandle(e) \/ ChannelExit(e)),
         NEW d \in Conns, NEW m \in Message, Alive(d), Queued(d, m)
  PROVE  initReply' = initReply /\ Alive(d)' /\ Queued(d, m)'
<1> USE DEF connVars, managerVars, channelVars
<1>0. /\ inbox \in [Conns -> Seq(Message)] /\ requests \in Seq(Request)
      /\ chan \in [Conns -> {"absent", "running", "closing", "dead"}]
      /\ PacketMsg \in Message /\ DisconnectMsg \in Message
      /\ \A c \in Conns : InitDataMsg(c) \in Message
  BY DEF TypeOK, Message
<1>1. ASSUME UNCHANGED <<inbox, chan, initReply>>
      PROVE  initReply' = initReply /\ Alive(d)' /\ Queued(d, m)'
  BY <1>1 DEF Queued, Alive
<1>2. ASSUME NEW e \in Conns, NEW x \in Message, Tell(e, x), UNCHANGED <<chan, initReply>>
      PROVE  initReply' = initReply /\ Alive(d)' /\ Queued(d, m)'
  <2>1. Queued(d, m)'
    <3>1. CASE e = d
      BY <1>0, <1>2, <3>1, QueuedTell
    <3>2. CASE e # d
      BY <1>0, <1>2, <3>2, QueuedTell DEF Queued
    <3> QED
      BY <3>1, <3>2
  <2> QED
    BY <1>2, <2>1 DEF Alive
<1>3. ASSUME NEW e \in Conns, NEW n \in Names, Connect(e, n)
      PROVE  UNCHANGED <<inbox, chan, initReply>>
  BY <1>3 DEF Connect
<1>4. ASSUME NEW e \in Conns,
             \/ RefusePublisher(e) \/ ConnectFails(e) \/ PlayerGone(e) \/ JoinAnswered(e)
             \/ InitAnswered(e) \/ Receive(e) \/ Closed(e)
             \/ UpstreamGarbles(e) \/ UpstreamEof(e) \/ ReaderReleases(e)
      PROVE  UNCHANGED <<inbox, chan, initReply>>
  BY <1>4 DEF RefusePublisher, ConnectFails, PlayerGone, JoinAnswered, InitAnswered, Receive,
              Closed, UpstreamGarbles, UpstreamEof, ReaderReleases
<1>5. ASSUME NEW e \in Conns, RequestInit(e)
      PROVE  /\ UNCHANGED <<chan, initReply>>
             /\ UNCHANGED inbox \/ \E f \in Conns : Tell(f, InitDataMsg(e))
  BY <1>5 DEF RequestInit
<1>6. ASSUME NEW e \in Conns, UpstreamPacket(e) \/ UpstreamErrors(e) \/ UpstreamBreaks(e)
      PROVE  /\ UNCHANGED <<chan, initReply>>
             /\ Tell(e, PacketMsg) \/ Tell(e, DisconnectMsg)
  BY <1>6 DEF UpstreamPacket, UpstreamErrors, UpstreamBreaks
<1>7. CASE \/ PullGoesOn \/ PullFails \/ HandleLocalJoin \/ StartPull \/ HandleRelease
           \/ ManagerPanics
  BY <1>1, <1>7 DEF PullGoesOn, PullFails, HandleLocalJoin, StartPull, HandleRelease,
                    ManagerPanics
<1>8. CASE Confirmed
  <2>1. PICK b \in Conns : /\ b = Head(requests).by
                           /\ chan' = [chan EXCEPT ![b] = "running"]
    BY <1>0, <1>8, InHand, HeadRequest DEF Confirmed
  <2>2. initReply' = initReply /\ inbox' = inbox
    BY <1>8 DEF Confirmed
  <2>3. Alive(d)'
    BY <1>0, <2>1 DEF Alive
  <2> QED
    BY <2>2, <2>3 DEF Queued
<1>9. CASE UNCHANGED vars
  BY <1>1, <1>9 DEF vars
<1>10. CASE \E e \in Conns : RequestInit(e)
  BY <1>0, <1>1, <1>2, <1>5, <1>10
<1>11. CASE \E e \in Conns : UpstreamPacket(e) \/ UpstreamErrors(e) \/ UpstreamBreaks(e)
  BY <1>0, <1>2, <1>6, <1>11
<1> QED
  BY <1>1, <1>3, <1>4, <1>7, <1>8, <1>9, <1>10, <1>11
     DEF Next, Environment, Answers, Manager, Connection, Channel

\* Nobody but a channel's task changes a reply to an InitData.
LEMMA InitReplyAlone ==
  ASSUME [Next]_vars, \A e \in Conns : ~(ChannelHandle(e) \/ ChannelExit(e))
  PROVE  initReply' = initReply
<1> USE DEF connVars, managerVars, channelVars
<1>1. ASSUME NEW e \in Conns, NEW n \in Names, Connect(e, n) PROVE initReply' = initReply
  BY <1>1 DEF Connect
<1>2. ASSUME NEW e \in Conns,
             \/ RefusePublisher(e) \/ ConnectFails(e) \/ PlayerGone(e)
             \/ Connection(e) \/ ReaderReleases(e)
      PROVE  initReply' = initReply
  BY <1>2 DEF RefusePublisher, ConnectFails, PlayerGone, Connection, JoinAnswered, RequestInit,
              InitAnswered, Receive, Closed, ReaderReleases
<1>3. ASSUME NEW e \in Conns,
             \/ UpstreamPacket(e) \/ UpstreamErrors(e) \/ UpstreamBreaks(e)
             \/ UpstreamGarbles(e) \/ UpstreamEof(e)
      PROVE  initReply' = initReply
  BY <1>3 DEF UpstreamPacket, UpstreamErrors, UpstreamBreaks, UpstreamGarbles, UpstreamEof
<1>4. CASE Answers \/ Manager \/ ManagerPanics
  BY <1>4 DEF Answers, PullGoesOn, PullFails, Manager, HandleLocalJoin, StartPull, Confirmed,
              HandleRelease, ManagerPanics
<1> QED
  BY <1>1, <1>2, <1>3, <1>4 DEF vars, Next, Environment, Channel

\* A channel that handles a message or ends replies to an InitData or leaves it queued.
LEMMA InitReplied ==
  ASSUME TypeOK, NEW e \in Conns, ChannelHandle(e) \/ ChannelExit(e),
         NEW c \in Conns, initReply'[c] = "pending"
  PROVE  /\ initReply[c] = "pending"
         /\ \A d \in Conns :
              Alive(d) /\ Queued(d, InitDataMsg(c)) => Alive(d)' /\ Queued(d, InitDataMsg(c))'
<1>0. /\ chan \in [Conns -> {"absent", "running", "closing", "dead"}]
      /\ inbox \in [Conns -> Seq(Message)]
      /\ initReply \in [Conns -> {"pending", "dropped", "ready"}]
      /\ InitDataMsg(c) \in Message
  BY DEF TypeOK, Message
<1>1. CASE ChannelHandle(e)
  <2>1. /\ inbox[e] # <<>> /\ inbox' = [inbox EXCEPT ![e] = Tail(@)]
        /\ Head(inbox[e]) \in Message
    BY <1>0, <1>1, HeadMessage DEF ChannelHandle
  <2>2. Head(inbox[e]) # InitDataMsg(c) /\ initReply[c] = "pending"
    BY <1>0, <1>1 DEF ChannelHandle, Effect, InitDataMsg
  <2>3. \A d \in Conns : Alive(d) => Alive(d)'
    BY <1>0, <1>1 DEF ChannelHandle, Effect, Alive
  <2>4. Queued(e, InitDataMsg(c)) => Queued(e, InitDataMsg(c))'
    BY <1>0, <2>1, <2>2, QueuedTail
  <2>5. \A d \in Conns : d # e => inbox'[d] = inbox[d]
    BY <1>0, <2>1
  <2> QED
    BY <2>2, <2>3, <2>4, <2>5 DEF Queued, InitDataMsg
<1>2. CASE ChannelExit(e)
  <2>1. \A d \in Conns : d # e => chan'[d] = chan[d] /\ inbox'[d] = inbox[d]
    BY <1>0, <1>2 DEF ChannelExit
  <2>2. initReply[c] = "pending" /\ ~Queued(e, InitDataMsg(c))
    BY <1>2 DEF ChannelExit, Queued
  <2> QED
    BY <2>1, <2>2 DEF Alive, Queued, InitDataMsg
<1> QED
  BY <1>1, <1>2

\* A player's InitData stays in the queue of a channel that lives until it is answered.
LEMMA OwedInitStep ==
  ASSUME TypeOK, Phases, Sourced, Asked, Waiting, [Next]_vars, NEW c \in Conns, OwedInit(c)
  PROVE  OwedInit(c)'
<1> DEFINE m == InitDataMsg(c)
<1> SUFFICES ASSUME conn'[c] = "waiting", initReply'[c] = "pending"
             PROVE  \E d \in Conns : answer'[c] = Local(d) /\ Alive(d)' /\ Queued(d, m)'
  BY DEF OwedInit, Local
<1>1. m \in Message
  BY DEF Message
<1>2. CASE RequestInit(c)
  <2>1. PICK d \in Conns :
          /\ answer[c] = Local(d)
          /\ (Alive(d) /\ Tell(d, m)) \/ Become(c, "ended")
    BY <1>2 DEF RequestInit
  <2>2. Alive(d) /\ Tell(d, m) /\ answer' = answer /\ chan' = chan
    BY <1>2, <2>1 DEF RequestInit, Become, TypeOK
  <2>3. Queued(d, m)'
    BY <1>1, <2>2, QueuedTell DEF TypeOK
  <2> QED
    BY <2>1, <2>2, <2>3 DEF Alive
<1>3. CASE ~RequestInit(c)
  <2>1. conn[c] = "waiting"
    BY <1>3, WaitStep
  <2>2. answer'[c] = answer[c]
    BY <2>1, AnswerStep
  <2>3. /\ initReply[c] = "pending"
        /\ \A d \in Conns : Alive(d) /\ Queued(d, m) => Alive(d)' /\ Queued(d, m)'
    <3>1. CASE \E e \in Conns : ChannelHandle(e) \/ ChannelExit(e)
      BY <3>1, InitReplied
    <3>2. CASE ~\E e \in Conns : ChannelHandle(e) \/ ChannelExit(e)
      BY <1>1, <3>2, ChannelAlone, InitReplyAlone
    <3> QED
      BY <3>1, <3>2
  <2> QED
    BY <2>1, <2>2, <2>3 DEF OwedInit
<1> QED
  BY <1>2, <1>3

(***************************************************************************)
(* The theorems.                                                           *)
(***************************************************************************)

\* A node that starts has nothing yet.
LEMMA InitInv ==
  ASSUME Init
  PROVE  Inv
<1>1. TypeOK
  <2>1. <<>> \in Seq(Request) /\ <<>> \in Seq(Message)
    OBVIOUS
  <2> QED
    BY <2>1, BoundsAssumption DEF Init, TypeOK, ConnState, Reply, ReaderState
<1>2. Phases /\ Sourced
  BY DEF Init, Phases, Sourced, Untold, Queued
<1>3. Asked /\ Waiting /\ Owner /\ Quits /\ PulledOnce
  BY DEF Init, Asked, Waiting, Owner, Quits, PulledOnce, Pulling
<1>4. Mapped
  BY NoneAssumption DEF Init, Mapped
<1> QED
  BY <1>1, <1>2, <1>3, <1>4 DEF Inv

\* The invariant holds, however the stream's upstream is found and ends.
THEOREM Invariant == Spec => []Inv
<1>1. Init => Inv
  BY InitInv
<1>2. Inv /\ [Next]_vars => Inv'
  BY TypeStep, PhasesStep, SourcedStep, AskedStep, WaitingStep, MappedStep, QuitsStep,
     PulledOnceStep DEF Inv
<1> QED
  BY <1>1, <1>2, PTL DEF Spec

\* Every variable stays in its type.
THEOREM TypeCorrect == Spec => []TypeOK
BY Invariant, PTL DEF Inv

\* A cache pulls a stream once, however many players ask for it: while it waits
\* for the upstream its manager takes no other Join, and a name keeps its entry
\* until the reader of its connection has released it, or the manager is gone and
\* nothing more is pulled.
THEOREM PulledOnceOnly == Spec => []PulledOnce
BY Invariant, PTL DEF Inv

\* The manager's map keeps an entry whose channel is dead only until the Release
\* that is on its way is handled, or after a broken frame.
THEOREM NoPoisoned == Spec => []NoPoisonedEntry
<1>1. Inv => NoPoisonedEntry
  <2> SUFFICES ASSUME Inv, NEW n \in Names, NEW d \in Conns,
                      channels[n] = d, chan[d] \in {"closing", "dead"}
               PROVE  \/ reader[d] \in {"releasing", "broken"}
                      \/ \E i \in 1 .. Len(requests) : requests[i] = ReleaseReq(d, n)
    BY DEF NoPoisonedEntry
  <2>1. reader[d] \in {"releasing", "broken", "ended"}
    BY DEF Inv, TypeOK, ReaderState, Phases, Sourced, Untold
  <2>2. reader[d] = "ended" => Requested(ReleaseReq(d, n))
    BY DEF Inv, Mapped
  <2> QED
    BY <2>1, <2>2 DEF Requested
<1> QED
  BY <1>1, Invariant, PTL

(***************************************************************************)
(* What is owed, and what is left when the tasks have done what they can.  *)
(***************************************************************************)

\* The invariant of what is owed.
Owed == Watching /\ NobodyForgotten

\* It holds with the invariant of the node.
THEOREM InvariantOwed == Spec => [](Inv /\ Owed)
<1>1. Init => Inv /\ Owed
  <2>1. Init => Owed
    BY DEF Init, Owed, Watching, NobodyForgotten
  <2> QED
    BY <2>1, InitInv
<1>2. Inv /\ Owed /\ [Next]_vars => (Inv /\ Owed)'
  <2> SUFFICES ASSUME Inv, Owed, [Next]_vars PROVE Inv' /\ Owed'
    BY DEF Inv, Owed
  <2>1. Inv'
    BY TypeStep, PhasesStep, SourcedStep, AskedStep, WaitingStep, MappedStep, QuitsStep,
       PulledOnceStep DEF Inv
  <2>2. Watching'
    BY WatchingStep DEF Inv, Owed
  <2>3. \A c \in Conns : OwedReply(c) /\ OwedInit(c)
    BY DEF Owed, NobodyForgotten, OwedReply, OwedInit, Requested, Queued
  <2>4. \A c \in Conns : OwedReply(c)' /\ OwedInit(c)'
    BY <2>3, OwedReplyStep, OwedInitStep DEF Inv
  <2>5. NobodyForgotten'
    BY <2>4 DEF NobodyForgotten, OwedReply, OwedInit, Requested, Queued
  <2> QED
    BY <2>1, <2>2, <2>5 DEF Owed
<1> QED
  BY <1>1, <1>2, PTL DEF Spec

\* Whoever waits for a reply of the manager or of a channel is in the queue of a task that
\* is there to give it: a oneshot of conn.rs is answered or dropped, never lost.
THEOREM Remembered == Spec => []NobodyForgotten
BY InvariantOwed, PTL DEF Owed

\* At rest nobody waits ...
LEMMA RestNobodyWaits ==
  ASSUME Inv, Owed, AtRest, NEW c \in Conns
  PROVE  conn[c] \in {"new", "playing", "ended"}
<1>1. conn[c] \in ConnState /\ conn[c] # "requesting"
  BY DEF Inv, TypeOK, AtRest
<1>2. conn[c] # "joining"
  BY DEF AtRest, Owed, NobodyForgotten
<1>3. conn[c] # "waiting"
  <2> SUFFICES ASSUME conn[c] = "waiting" PROVE FALSE
    OBVIOUS
  <2>1. PICK d \in Conns : Alive(d) /\ Queued(d, InitDataMsg(c))
    BY DEF AtRest, Owed, NobodyForgotten, Queued
  <2>2. inbox[d] = <<>>
    BY <2>1 DEF AtRest, Alive
  <2> QED
    BY <2>1, <2>2 DEF Queued
<1> QED
  BY <1>1, <1>2, <1>3 DEF ConnState

\* ... a channel runs just when its reader has not told it to end ...
LEMMA RestChannels ==
  ASSUME Inv, AtRest, NEW d \in Conns
  PROVE  /\ chan[d] = "running" <=> Pulling(d) \/ (Forsaken(d) /\ reader[d] # "broken")
         /\ Alive(d) => Pulling(d) \/ Forsaken(d)
<1>1. Alive(d) => chan[d] = "running" /\ inbox[d] = <<>>
  BY DEF AtRest, Alive
<1>2. Alive(d) => ~Queued(d, DisconnectMsg)
  BY <1>1 DEF Queued
<1> QED
  BY <1>1, <1>2 DEF Inv, Sourced, Untold, Pulling, Forsaken, Alive

\* ... and the map leads to such a channel or to a broken one.
LEMMA RestEntries ==
  ASSUME Inv, AtRest, NEW n \in Names, NEW d \in Conns, channels[n] = d
  PROVE  Pulling(d) \/ Forsaken(d)
<1>1. reader[d] \notin {"absent", "releasing"}
  BY DEF Inv, Phases, Mapped, AtRest
<1>2. reader[d] # "ended"
  BY DEF Inv, Mapped, AtRest, Requested
<1> QED
  BY <1>1, <1>2 DEF Inv, TypeOK, ReaderState, Pulling, Forsaken

\* When the tasks of the cache have nothing left to do, nobody waits, and only the streams
\* that are pulled, or whose upstream ended without an Errors frame, have an entry, a
\* channel or a player.
THEOREM CleanAtRest == Spec => []RestIsClean
<1>1. Inv /\ Owed => RestIsClean
  <2> SUFFICES ASSUME Inv, Owed, AtRest
               PROVE  \A c \in Conns : conn[c] = "playing" =>
                        \E d \in Conns : /\ answer[c] \in {Local(d), Origin(d)}
                                         /\ Pulling(d) \/ Forsaken(d)
    BY RestNobodyWaits, RestChannels, RestEntries DEF RestIsClean
  <2> SUFFICES ASSUME NEW c \in Conns, conn[c] = "playing"
               PROVE  \E d \in Conns : /\ answer[c] \in {Local(d), Origin(d)}
                                       /\ Pulling(d) \/ Forsaken(d)
    OBVIOUS
  <2>1. PICK d \in Conns : answer[c] \in {Local(d), Origin(d)}
    <3>1. answer[c] \in Reply /\ answer[c] \notin {Pending, Dropped}
      BY DEF Inv, TypeOK, Owed, Watching
    <3> QED
      BY <3>1 DEF Reply
  <2>2. ~RingClosed(d)
    BY <2>1 DEF AtRest
  <2> QED
    BY <2>1, <2>2, RestChannels, RestEntries DEF RingClosed
<1> QED
  BY <1>1, InvariantOwed, PTL
=============================================================================
