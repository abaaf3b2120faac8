---------------------------- MODULE RtmpSession ----------------------------
(***************************************************************************)
(* One RTMP connection of the edge: Protocol (rtmp.rs), which drives the   *)
(* RTMP library and turns what it raises into events, and the connection   *)
(* task (conn.rs), which acts upon them.  EdgeNode has many connections    *)
(* with one role each and no RTMP; here is one connection whose peer asks  *)
(* for whatever it likes.                                                  *)
(*                                                                         *)
(* What is read from the socket at once is a chunk of whole messages.  The *)
(* library (rml_rtmp) handles a chunk before any request in it is granted: *)
(* so a publish or a play counts only after an earlier chunk's connect,    *)
(* and media only after an earlier chunk's publish.                        *)
(***************************************************************************)
EXTENDS Codec, FiniteSets

CONSTANTS
  Streams,    \* message streams of the session
  Media,      \* the media messages that publishers send
  Faults,     \* what goes wrong
  MaxMessages, \* bound: messages of a chunk
  MaxChunks,  \* bound: chunks that the peer sends
  MaxLive     \* bound: packets of the ring that a player reads

ASSUME FaultsAssumption == Faults \subseteq {"write", "manager", "channel", "join", "bytes"}
ASSUME BoundsAssumption == MaxMessages \in Nat /\ MaxChunks \in Nat /\ MaxLive \in Nat

VARIABLES
  proto,     \* Protocol.state
  lib,       \* the library: whether connect was granted, what each stream does
  events,    \* the events of the chunk that are still to be handled
  state,     \* Connection.state, then "returned" or "failed"
  first,     \* NeedInitData: whether its Join made the channel
  joins,     \* how many Joins were answered
  made,      \* channels that it had created, which are 1 .. made
  ended,     \* those it sent Disconnect
  released,  \* how many Release it sent
  replaced,  \* those whose handle it dropped for that of another
  forwarded, \* what packets it sent to the last of them
  granted,   \* how many times the peer was told that it may publish
  queue,     \* return_queue
  written,   \* the media written to the peer
  chunks,    \* chunks read
  live       \* packets taken from the ring

sessionVars == <<proto, lib>>
channelVars == <<made, ended, released, replaced, forwarded>>
playVars    == <<first, joins, queue, written, live>>
vars == <<sessionVars, channelVars, playVars, events, state, granted, chunks>>

ProtoState == {"HandshakePending", "Ready", "Publishing", "Playing", "Finished"}
ConnState  == {"Initializing", "Publishing", "Playing", "Disconnecting", "returned", "failed"}

\* Media in the library, on either side: metadata carries no time.
Video(t, data) == [kind |-> "Video", timestamp |-> t, body |-> data]
Audio(t, data) == [kind |-> "Audio", timestamp |-> t, body |-> data]
Metadata(m)    == [kind |-> "Metadata", body |-> m]

\* A message of RTMP has a time of 32 bits and a length of 24; the metadata has
\* the fields that were set.
ASSUME MediaAssumption ==
  \A m \in Media :
    \/ /\ m \in [kind : {"Video", "Audio"}, timestamp : Word, body : Bytes]
       /\ Len(m.body) \in ThreeBytes
    \/ /\ m = Metadata([f \in DOMAIN m.body |-> m.body[f]])
       /\ DOMAIN m.body \subseteq Field

\* An event carries the packet to send or which request a response grants.
Event(type)     == [type |-> type]
ReturnData(why) == [type |-> "ReturnData", grants |-> why]
SendPacket(p)   == [type |-> "SendPacket", packet |-> p]

\* What is sent back is marked with the part of the stream that it comes from
\* and the Join that it is due to.
Back(part, p) == [part |-> part, join |-> joins, packet |-> p]

\* disconnect() without a channel to end, or after it was ended.
NoChannel == UNCHANGED channelVars

Init ==
  /\ proto = "HandshakePending"
  /\ lib = [accepted |-> FALSE, streams |-> [s \in Streams |-> "idle"]]
  /\ events = <<>>
  /\ state = "Initializing"
  /\ first = FALSE /\ joins = 0
  /\ made = 0 /\ ended = {} /\ released = 0 /\ replaced = {} /\ forwarded = {}
  /\ granted = 0
  /\ queue = <<>> /\ written = <<>>
  /\ chunks = 0 /\ live = 0

---------------------------------------------------------------------------
(***************************************************************************)
(* Media between the library and the cluster.  Metadata travels as a       *)
(* serialized map, here one opaque byte, in a packet without a timestamp.  *)
(***************************************************************************)
PacketOf(m) ==
  IF m.kind = "Metadata"
  THEN [kind |-> "Metadata", timestamp |-> NoTime, payload |-> <<FromMetadata(m.body)>>]
  ELSE [kind |-> m.kind, timestamp |-> m.timestamp, payload |-> m.body]

\* MUTANT of Pack: the timestamp is cut to the 24 bits of a message header.
PackShortTime(p) ==
  IF p.kind = "Metadata" THEN Metadata(IntoMetadata(p.payload[1]))
  ELSE [kind |-> p.kind, timestamp |-> p.timestamp % 16777216, body |-> p.payload]

Pack(p) ==
  IF p.kind = "Metadata" THEN Metadata(IntoMetadata(p.payload[1]))
  ELSE [kind |-> p.kind, timestamp |-> p.timestamp, body |-> p.payload]

\* A packet that another edge forwarded to the origin arrives in a frame.
Arrived(m) == DecodeMediaPacket(DecodeFrame(EncodeFrame(MediaFrame(ToMediaPacket(PacketOf(m))))).payload)

Arriving == {Arrived(m) : m \in Media}

---------------------------------------------------------------------------
(***************************************************************************)
(* The library.  What a message of the peer makes it raise or answer; a    *)
(* closed stream is closed at once.                                        *)
(***************************************************************************)
PeerMessage ==
  [type : {"connect", "other"}] \cup [type : {"publish", "play", "close"}, stream : Streams]
    \cup [type : {"media"}, stream : Streams, media : Media]

Raise(acc, msg) ==
  LET now == acc.lib.streams
      add(result) == [acc EXCEPT !.results = Append(@, result)]
      closed == [acc EXCEPT !.lib.streams[msg.stream] = "idle"]
  IN  CASE msg.type = "connect" -> add([type |-> "ConnectionRequested"])
        [] msg.type \in {"publish", "play"} ->
             IF acc.lib.accepted /\ now[msg.stream] = "idle"
             THEN add([type |-> msg.type, stream |-> msg.stream])
             ELSE add([type |-> "OutboundResponse"])
        [] msg.type = "close" ->
             IF now[msg.stream] = "idle" THEN acc
             ELSE [closed EXCEPT !.results = Append(@,
                    [type |-> IF now[msg.stream] = "publishing" THEN "PublishStreamFinished"
                              ELSE "PlayStreamFinished"])]
        [] msg.type = "media" ->
             IF now[msg.stream] = "publishing"
             THEN add([type |-> "media", media |-> msg.media]) ELSE acc
        [] msg.type = "other" -> add([type |-> "OutboundResponse"])

\* A chunk's messages, one after the other.
RaisedBy(l, chunk) ==
  LET raised[n \in 0 .. Len(chunk)] ==
        IF n = 0 THEN [lib |-> l, results |-> <<>>] ELSE Raise(raised[n - 1], chunk[n])
  IN  raised[Len(chunk)]

---------------------------------------------------------------------------
(***************************************************************************)
(* Protocol.  acc holds its state, the library and the events emitted.     *)
(***************************************************************************)

EventsOf(r) ==
  CASE r.type = "OutboundResponse"    -> <<ReturnData("other")>>
    [] r.type = "ConnectionRequested" -> <<ReturnData("connect")>>
    [] r.type = "publish" -> <<Event("AcquireChannel"), ReturnData("publish")>>
    [] r.type = "play" ->
         <<Event("JoinChannel"), ReturnData("play"), Event("SendInitData")>>
    [] r.type = "PublishStreamFinished" -> <<Event("ReleaseChannel")>>
    [] r.type = "PlayStreamFinished"    -> <<Event("LeaveChannel")>>
    [] r.type = "media" -> <<SendPacket(PacketOf(r.media))>>

\* MUTANT of StateAfter: a session that is ready stays so when it plays.
StateAfterPlayForgotten(s, r) ==
  CASE r.type = "publish" -> "Publishing"
    [] r.type \in {"PublishStreamFinished", "PlayStreamFinished"} -> "Finished"
    [] OTHER -> s

StateAfter(s, r) ==
  CASE r.type = "publish" -> "Publishing"
    [] r.type = "play" -> "Playing"
    [] r.type \in {"PublishStreamFinished", "PlayStreamFinished"} -> "Finished"
    [] OTHER -> s

\* accept_request.
Accept(l, r) ==
  CASE r.type = "ConnectionRequested" -> [l EXCEPT !.accepted = TRUE]
    [] r.type = "publish" -> [l EXCEPT !.streams[r.stream] = "publishing"]
    [] r.type = "play" -> [l EXCEPT !.streams[r.stream] = "playing"]
    [] OTHER -> l

HandleResult(acc, r) ==
  [proto  |-> StateAfter(acc.proto, r),
   lib    |-> Accept(acc.lib, r),
   events |-> acc.events \o EventsOf(r)]

HandleResults(acc, results) ==
  LET handled[n \in 0 .. Len(results)] ==
        IF n = 0 THEN acc ELSE HandleResult(handled[n - 1], results[n])
  IN  handled[Len(results)]

\* handle_input: the library handles the whole chunk, then handle_results.
HandleInput(acc, chunk) ==
  LET raised == RaisedBy(acc.lib, chunk)
  IN  HandleResults([acc EXCEPT !.lib = raised.lib], raised.results)

\* perform_handshake.  What follows the handshake in its last chunk is handled
\* before the state becomes Ready.
Handshake(acc, chunk) ==
  LET response == [acc EXCEPT !.events = <<ReturnData("other")>>]
      session  == [response EXCEPT !.events = Append(@, ReturnData("other"))]
  IN  {response, [HandleInput(session, chunk) EXCEPT !.proto = "Ready"]}

Chunk == UNION {[1 .. n -> PeerMessage] : n \in 1 .. MaxMessages}

Handled(chunk) ==
  LET acc == [proto |-> proto, lib |-> lib, events |-> <<>>]
  IN  IF proto = "HandshakePending" THEN Handshake(acc, chunk)
      ELSE {HandleInput(acc, chunk)}

---------------------------------------------------------------------------
(***************************************************************************)
(* The connection task.  Its loop writes what is to be sent back before it *)
(* looks at its state; the events of a chunk are handled one by one.       *)
(***************************************************************************)
Idle == events = <<>> /\ queue = <<>>

\* run returns by ?, or the task panics: its handle is dropped, untold.
Fail ==
  /\ state' = "failed"
  /\ events' = <<>> /\ queue' = <<>>
  /\ UNCHANGED <<sessionVars, channelVars, first, joins, written, granted, chunks, live>>

\* MUTANT of EndChannel: whatever the connection is doing.
EndChannelAlways ==
  /\ ended' = ended \cup {made}
  /\ released' = released + 1
  /\ UNCHANGED <<made, replaced, forwarded>>

\* MUTANT of EndChannel: the manager is not told.
EndChannelQuietly ==
  IF state = "Publishing"
  THEN /\ ended' = ended \cup {made}
       /\ UNCHANGED <<made, released, replaced, forwarded>>
  ELSE NoChannel

\* What disconnect() does about the channel that the connection publishes, when
\* nothing goes wrong (DisconnectFails).
EndChannel ==
  IF state = "Publishing"
  THEN /\ ended' = ended \cup {made}
       /\ released' = released + 1
       /\ UNCHANGED <<made, replaced, forwarded>>
  ELSE NoChannel

ReadChunk ==
  /\ Idle
  /\ state \in {"Initializing", "Publishing"}
  /\ chunks < MaxChunks
  /\ chunks' = chunks + 1
  /\ \E chunk \in Chunk : \E acc \in Handled(chunk) :
       proto' = acc.proto /\ lib' = acc.lib /\ events' = acc.events
  /\ UNCHANGED <<channelVars, playVars, state, granted>>

\* Bytes that are not RTMP, or an empty app name.
ReadFails ==
  /\ "bytes" \in Faults
  /\ Idle
  /\ state \in {"Initializing", "Publishing"}
  /\ Fail

\* The peer closed its socket.
ReadEnd ==
  /\ Idle
  /\ state \in {"Initializing", "Publishing"}
  /\ EndChannel
  /\ state' = "Disconnecting"
  /\ UNCHANGED <<sessionVars, playVars, events, granted, chunks>>

\* MUTANT of Silence: only publishers are watched.
SilenceOfPublisher ==
  /\ Idle
  /\ state = "Publishing"
  /\ Fail

\* Five seconds without a byte.
Silence ==
  /\ Idle
  /\ state \in {"Initializing", "Publishing"}
  /\ Fail

Upcoming(type) == events # <<>> /\ Head(events).type = type

Respond ==
  /\ Upcoming("ReturnData")
  /\ events' = Tail(events)
  /\ granted' = IF Head(events).grants = "publish" THEN granted + 1 ELSE granted
  /\ UNCHANGED <<sessionVars, channelVars, playVars, state, chunks>>

Forward ==
  /\ Upcoming("SendPacket")
  /\ events' = Tail(events)
  /\ forwarded' = IF state = "Publishing"
                  THEN forwarded \cup {ToMediaPacket(Head(events).packet)} ELSE forwarded
  /\ UNCHANGED <<sessionVars, made, ended, released, replaced, playVars, state, granted, chunks>>

\* A response cannot be written, or the manager or the channel is gone.
EventFails ==
  /\ \/ "write" \in Faults /\ Upcoming("ReturnData")
     \/ "manager" \in Faults /\ (Upcoming("AcquireChannel") \/ Upcoming("JoinChannel"))
     \/ /\ "channel" \in Faults
        /\ \/ Upcoming("SendPacket") /\ state = "Publishing"
           \/ Upcoming("SendInitData") /\ state = "Playing" /\ ~first
  /\ Fail

\* The handle of a channel that it publishes is dropped, untold.
Replace == replaced' = IF state = "Publishing" THEN replaced \cup {made} ELSE replaced

AcquireChannel ==
  /\ Upcoming("AcquireChannel")
  /\ events' = Tail(events)
  /\ made' = made + 1
  /\ forwarded' = {}
  /\ Replace
  /\ state' = "Publishing"
  /\ UNCHANGED <<sessionVars, playVars, ended, released, granted, chunks>>

JoinChannel ==
  /\ Upcoming("JoinChannel")
  /\ events' = Tail(events)
  /\ first' \in BOOLEAN
  /\ joins' = joins + 1
  /\ Replace
  /\ state' = "Playing"
  /\ UNCHANGED <<sessionVars, made, ended, released, forwarded, queue, written, granted, chunks, live>>

\* The reply to Join was dropped.
JoinFails ==
  /\ "join" \in Faults
  /\ Upcoming("JoinChannel")
  /\ events' = Tail(events)
  /\ EndChannel
  /\ state' = "Disconnecting"
  /\ UNCHANGED <<sessionVars, playVars, granted, chunks>>

\* What a channel may have cached, marked with the part of the stream it is.
Slot(part, S) == {<<>>} \cup {<<Back(part, p)>> : p \in Arriving \cap S}

MetadataSlot == Slot("metadata", {p \in Arriving : p.kind = "Metadata"})
VideoSlot ==
  Slot("video", {p \in Arriving : p.kind = "Video" /\ p.is_seq_header /\ p.is_key_frame})
AudioSlot == Slot("audio", {p \in Arriving : p.kind = "Audio" /\ p.is_seq_header})
GopSlot ==
  Slot("gop", {p \in Arriving : p.kind = "Video" /\ ~p.is_seq_header /\ p.is_key_frame})

\* MUTANT of CachedPackets: the group of pictures is sent first.
CachedPacketsGopFirst ==
  {g \o m \o v \o a : m \in MetadataSlot, v \in VideoSlot, a \in AudioSlot, g \in GopSlot}

CachedPackets ==
  {m \o v \o a \o g : m \in MetadataSlot, v \in VideoSlot, a \in AudioSlot, g \in GopSlot}

\* The cached packets are to be sent back; none are when the reply was dropped.
SendInitData ==
  /\ Upcoming("SendInitData")
  /\ events' = Tail(events)
  /\ IF state = "Playing" /\ ~first
     THEN \E packets \in CachedPackets : queue' = queue \o packets
     ELSE UNCHANGED queue
  /\ UNCHANGED <<sessionVars, channelVars, first, joins, written, live, state, granted, chunks>>

LeaveOrRelease ==
  /\ Upcoming("ReleaseChannel") \/ Upcoming("LeaveChannel")
  /\ events' = Tail(events)
  /\ EndChannel
  /\ state' = "Disconnecting"
  /\ UNCHANGED <<sessionVars, playVars, granted, chunks>>

\* handle_return_packet: only a session that plays knows the stream to write to.
Packable == proto = "Playing"

WriteBack ==
  /\ events = <<>> /\ queue # <<>>
  /\ Packable
  /\ queue' = Tail(queue)
  /\ written' = Append(written,
       [part |-> Head(queue).part, join |-> Head(queue).join,
        media |-> Pack(ToPacket(Head(queue).packet))])
  /\ UNCHANGED <<sessionVars, channelVars, first, joins, live, events, state, granted, chunks>>

\* The write fails or takes five seconds, or the packet cannot be packed: the
\* connection will end, when it has tried the rest of the queue.
WriteBackFails ==
  /\ events = <<>> /\ queue # <<>>
  /\ ~Packable \/ "write" \in Faults
  /\ queue' = Tail(queue)
  /\ EndChannel
  /\ state' = "Disconnecting"
  /\ UNCHANGED <<sessionVars, first, joins, written, live, events, granted, chunks>>

\* Where the task calls disconnect(): at the end of the socket, for a request of the
\* peer, without a reply to Join, and when it cannot write.
Disconnects ==
  \/ Idle
  \/ Upcoming("ReleaseChannel") \/ Upcoming("LeaveChannel")
  \/ "join" \in Faults /\ Upcoming("JoinChannel")
  \/ events = <<>> /\ queue # <<>> /\ (~Packable \/ "write" \in Faults)

\* disconnect() finds the channel gone, and tells nobody; or it has told the channel
\* and finds the manager gone.  The error ends run.
DisconnectFails ==
  /\ state = "Publishing"
  /\ Disconnects
  /\ \/ "channel" \in Faults /\ NoChannel
     \/ /\ "manager" \in Faults
        /\ ended' = ended \cup {made}
        /\ UNCHANGED <<made, released, replaced, forwarded>>
  /\ state' = "failed"
  /\ events' = <<>> /\ queue' = <<>>
  /\ UNCHANGED <<sessionVars, first, joins, written, granted, chunks, live>>

\* The next packet of the ring.
Receive ==
  /\ Idle
  /\ state = "Playing"
  /\ live < MaxLive
  /\ live' = live + 1
  /\ \E p \in Arriving : queue' = <<Back("live", p)>>
  /\ UNCHANGED <<sessionVars, channelVars, first, joins, written, events, state, granted, chunks>>

\* The ring is closed.
RingClosed ==
  /\ Idle
  /\ state = "Playing"
  /\ state' = "Disconnecting"
  /\ UNCHANGED <<sessionVars, channelVars, playVars, events, granted, chunks>>

Return ==
  /\ Idle
  /\ state = "Disconnecting"
  /\ state' = "returned"
  /\ UNCHANGED <<sessionVars, channelVars, playVars, events, granted, chunks>>

---------------------------------------------------------------------------
HandleEvent ==
  \/ Respond \/ Forward \/ EventFails \/ AcquireChannel \/ JoinChannel \/ JoinFails
  \/ SendInitData \/ LeaveOrRelease

Connection == HandleEvent \/ WriteBack \/ WriteBackFails \/ Silence \/ Return

Next ==
  \/ ReadChunk \/ ReadFails \/ ReadEnd \/ Receive \/ RingClosed
  \/ DisconnectFails \/ Connection

Spec == Init /\ [][Next]_vars

\* The manager and the channel answer, and five seconds pass: they end a read and the
\* write of a packet, but not that of a response, which takes as long as the peer does
\* not read.  The peer and the ring may be silent for ever.
FairSpec == Spec /\ WF_vars(~Upcoming("ReturnData") /\ Connection)

---------------------------------------------------------------------------
(***************************************************************************)
(* Properties.                                                             *)
(***************************************************************************)
Library == [accepted : BOOLEAN, streams : [Streams -> {"idle", "publishing", "playing"}]]

EventType ==
  [type : {"AcquireChannel", "JoinChannel", "SendInitData", "ReleaseChannel", "LeaveChannel"}]
    \cup [type : {"ReturnData"}, grants : {"connect", "publish", "play", "other"}]
    \cup [type : {"SendPacket"}, packet : {PacketOf(m) : m \in Media}]

\* The parts of a stream in the order in which a player gets them.
PartOrder == [metadata |-> 1, video |-> 2, audio |-> 3, gop |-> 4, live |-> 5]

TypeOK ==
  /\ proto \in ProtoState
  /\ lib \in Library
  /\ events \in Seq(EventType)
  /\ state \in ConnState
  /\ first \in BOOLEAN /\ joins \in Nat
  /\ made \in Nat /\ released \in Nat /\ granted \in Nat
  /\ ended \subseteq 1 .. made /\ replaced \subseteq 1 .. made
  /\ forwarded \subseteq Arriving
  /\ queue \in Seq([part : DOMAIN PartOrder, join : 0 .. joins, packet : Arriving])
  /\ written \in Seq([part : DOMAIN PartOrder, join : 0 .. joins,
                      media : {Pack(ToPacket(p)) : p \in Arriving}])
  /\ chunks \in 0 .. MaxChunks /\ live \in 0 .. MaxLive

\* Whatever a peer asks for and in whatever order, a connection that returns has
\* ended and released every channel that was made for it, and a running one has
\* at most one that it has not, the one it publishes to.  The exceptions are the
\* channels whose publisher asked for another stream before it finished.  A peer
\* is told that it may publish only when there is a channel for it.  Where the
\* manager can be gone, the last channel may be told to end and not be released.
ChannelsAccounted ==
  /\ 1 .. made \ (ended \cup replaced) \subseteq
       IF state \in {"Publishing", "failed"} THEN {made} ELSE {}
  /\ ended \cap replaced = {}
  /\ \/ released = Cardinality(ended)
     \/ "manager" \in Faults /\ state = "failed" /\ released + 1 = Cardinality(ended)
  /\ granted <= made

\* A connection that has begun to play knows the stream to which it writes, also
\* when its session began with the bytes after the handshake (rtmp.rs:96).
StreamIdKnown == state = "Playing" /\ Idle => proto = "Playing"

\* A player gets the cached headers, then the group of pictures, then the live
\* packets, also if those come while the cached ones are being written.  A peer
\* that asks for two streams at once gets one after the other.
HeadersFirst ==
  \A i, j \in 1 .. Len(written) :
    i < j /\ written[i].join = written[j].join =>
      PartOrder[written[i].part] <= PartOrder[written[j].part]

\* A player gets what a publisher sent.  Over RTMP kind, full 32-bit timestamp,
\* payload and every field of the metadata survive the packets, the frames and the
\* sessions of two edges and the origin between them; and over HTTP a player reads
\* in the tag of a packet its full timestamp and where it ends.
OverRtmp ==
  /\ \A p \in forwarded : Pack(ToPacket(p)) \in Media
  /\ \A i \in 1 .. Len(written) : written[i].media \in Media

OverFlv ==
  \A p \in forwarded :
    /\ TagTime(FlvTag(p)) = p.timestamp
    /\ TagLength(FlvTag(p)) = Len(p.payload)
    /\ SubSeq(FlvTag(p), 12, 11 + TagLength(FlvTag(p))) = p.payload

RelayedUnchanged == OverRtmp /\ OverFlv

\* The connection of a peer that says no more does not stay, unless it plays, or
\* does not read the response that is being written to it (conn.rs:101).
SilentPeerLetGo ==
  chunks = MaxChunks ~>
    state \in {"Playing", "returned", "failed"} \/ []Upcoming("ReturnData")
=============================================================================
