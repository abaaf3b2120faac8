# xlive-cluster in TLA+

A specification of [xlive-cluster](../src/README.md), a live-streaming cluster in
Rust: TLA+ modules of its nodes, TLC configurations that check them on small
instances, and theorems about each of them that TLAPS checks for every value of the
constants. All paths below are relative to the root of the repository.

    tlc -config MCOriginNode.cfg MCOriginNode.tla     # one run
    tlapm OriginNodeProofs.tla                        # one module of proofs

1. [The system](#1-the-system)
2. [Modules](#2-modules)
3. [Runs, bounds and fairness](#3-runs-bounds-and-fairness)
4. [Proofs](#4-proofs)
5. [Where the code and its documents differ](#5-where-the-code-and-its-documents-differ)
6. [What is not modelled](#6-what-is-not-modelled)
7. [Plan](#7-plan)

## 1. The system

A stream has a name (`app_name`). Its publisher pushes it by RTMP to an **edge**; the
edge forwards it over a framed TCP connection to the **origin**; players ask an edge
(RTMP or HTTP-FLV), which pulls the stream from a **cache** or from the origin, and a
cache pulls it from another cache or from the origin. Origins announce their
publishers to a **register** over UDP, edges and caches ask it where a stream is. A
**monitor** polls every node over HTTP.

Origin, cache and edge have the same skeleton. Every task is a tokio task:

    connection --(Create/Join/Release, unbounded queue)--> manager
         ^             one-shot reply with a handle           |
         |                                                    | spawns
         |--(Packet/InitData/Disconnect, unbounded queue)--> channel
         ^                                                    |
         +-----------(broadcast ring of 64 packets)-----------+

| component | state | operations | hard part |
|---|---|---|---|
| connection, `conn.rs` of each node | its state (Init, Publisher, Player) and the handles it holds | first message, packet, end of the peer, the loop of a player | every step is between two awaits; the peer goes away at any of them |
| manager, `manager.rs` | map from names to (handle, ring) | Create, Join, Release; in cache and edge also the pull from upstream, awaited in the handler | an entry is removed by a message that arrives later than the channel's end, and by name only |
| channel, `channel.rs` | cache of headers and GOP; heartbeat time and UDP socket (origin), link to the origin (edge) | packet, InitData, Disconnect; run of the task and its end | several senders on one queue; the queue dies with the task, with the replies it owes |
| reader of an upstream, `manager.rs` of cache and edge | the connection | frame, Errors, end | ends the channel and releases the entry, or forgets to |
| `xlive-register` | `channel_map`, `servers` | Set, Delete, Get, two HTTP queries | unreliable datagrams; entries that expire only when somebody looks |
| `xlive-edge/src/rtmp.rs`, `http_flv.rs`, `packet.rs` | RTMP session, FLV | handshake, connect, publish, play; muxing | state changes while bytes are still unread |
| `xlive-core` | - | encodings of messages and packets | what does not survive a round trip |
| `xlive-monitor`, `monitor.rs` | last numbers of each node | poll, HTTP query | a spider that stops |

What makes each of them correct:

* **data plane**: a player gets the headers, the GOP that was open when it joined and
  every later packet, save those the ring overran, and can decode what it gets;
* **manager, channel, connection**: a channel has a source or ends; an entry of the
  map leads to a channel that lives, or is about to go; every request is answered;
  every player is told when its stream ends; nobody's departure disturbs the others;
* **origin and register**: what is registered is what is running; a stream that goes on
  is found, one that has ended is forgotten, whatever happens to the datagrams;
* **cache**: a stream is pulled once, however many players want it;
* **RTMP session**: whatever a peer asks for, in whatever order and cut into whatever
  chunks, its channels are accounted for, it is written to only when it is known where,
  and what it sent reaches a player unchanged;
* **monitor**: nobody is shown older numbers than were reported when he asked, and those
  of a node that runs become right.

The hazards that these properties are for are in `PROJECT.json` under "hazards", each
at its line. The kinds that matter here are interleavings of tasks, messages that travel
through two queues and are handled in either order (Disconnect to the channel, Release
to the manager), tasks that end in one of several ways with messages in their queue,
replies that are dropped, the ring at its limit, datagrams, and expiry.

## 2. Modules

| module | models | with |
|---|---|---|
| `MediaCache` | `set_cache` of the three `channel.rs`, the cached packets sent to a player (`init_data`), and what a cache is meant to be given the packets so far | pure operators |
| `Fanout` | one channel of an origin or a cache with its publisher, its ring and its players: contents and order of packets | extends `MediaCache` |
| `OriginNode` | `xlive-origin`: connections, manager, channels, heartbeat, UDP socket | `MCOriginNode` |
| `LeaseTable` | abstract: what the register promises | instantiated by `Register` |
| `Register` | `xlive-register`: UDP task, server loop, HTTP queries, network, origins and clients | `MCRegister` |
| `CacheNode` | `xlive-cache`: players, manager with its pull, channels, readers | `MCCacheNode` |
| `EdgeNode` | `xlive-edge` above the RTMP session: publishers, RTMP and HTTP players, manager, channels and their link to the origin, readers | `MCEdgeNode` |
| `Codec` | the bytes of `MediaPacket`, frames and FLV tags, the flags guessed from a payload, the map of the metadata | pure operators |
| `RtmpSession` | one connection of `xlive-edge` with its `Protocol` over the RTMP library | extends `Codec`, `MCRtmpSession` |
| `Monitor` | `xlive-monitor`, and of each node the monitoring endpoint (the same `monitor.rs` three times) and the manager's Snapshot | alone |
| `...Proofs` | theorems about the module of that name | section 4 |

The contents of packets matter in `Fanout` and nowhere else, so the control planes count
packets; and what goes on between tasks matters in the control planes, so `Fanout` has
one channel. That split is why each can be checked on more than a toy.

### Fanout and MediaCache

A step of the publisher appends to `incoming`; `HandlePacket`, `HandleInitData` and
`HandleDisconnect` are the arms of `handle_message`; `history` is a history variable, the
packets handled so far. The broadcast ring needs no variable of its own: with `cursor`,
what a receiver has read, it is the last `Capacity` packets of `history`, and tokio's
`Lagged` is `Lag`, which moves the cursor to the oldest one (the code ignores the
error). `Join` is the manager's answer: the subscription begins there. `RequestInit`,
`ReceiveInit`, `Receive`, `Closed` are the player's loop in `conn.rs`, `Leave` a write to
its socket that fails. The variables `sub`, `snap` and `lost` record when a player
subscribed, when its snapshot was taken and what the ring overran; the code never sees them.
`TypeOK` says of the cache, among the rest, that each slot holds packets of its class only.

### OriginNode

`conn` is the program counter of a connection task: *creating* (its Create is
unanswered), *publishing*, *releasing* (Disconnect is sent, Release is not), *joining*,
*requesting*, *waiting* (for InitData), *playing*, *draining* (a player whose stream
is over and whose peer has not closed), *ended*. A channel is named after the
connection that created it; a Release carries a name only, as in the code, and its `by`
is read by the properties alone. The task of a channel starts some time after it was
spawned (`ChannelStart` registers the name), handles messages, sends a heartbeat with a
message that comes more than a second after the last one (`late`), and ends after
Disconnect in two steps, as the code sends Delete after its loop. `socket` is the UDP
port that every channel of an origin binds: `PanicInCreate` is the `unwrap` of a `bind`
that fails, or of a `connect` to a register whose address does not resolve (`"connect"` in
`Faults`), and ends the manager; `PanicInHeartbeat` is the `unwrap` of a socket that is
not there, after the message has been handled.

### Register and LeaseTable

Time is `Tick`; a timestamp is its age, capped at `Timeout`, past which no comparison
tells ages apart. `datagrams` and `replies` are sets: order is lost, and a copy of what
is there already is the same datagram; with "duplicate" in `Faults` a datagram that was
read may be read again. `ReceiveGet` makes the UDP task wait for the server loop, as
`main.rs` does; it goes on when the sender of the reply is dropped (`NoReply`), as after a
panic of the loop (`ServerPanics`), and ends on an error of its socket (`ReceiveFails`,
`SendFails`). What is sent to a loop that is gone is dropped (`Sent`). An entry is removed only by a Get that finds it stale, and `GetAppsMap`
answers with the map as it is. `LeaseTable` has leases that run out by themselves and
atomic lookups: the refinement mapping hides every entry that is not `Fresh`.

### CacheNode and EdgeNode

`step` is where the manager waits inside `process_message` while it pulls a stream for a
Join; nothing else is handled meanwhile. In `EdgeNode`, where a channel's send may fail,
the manager also holds a receiver of the new ring (`_watcher`) until that handler returns
(*returning*): the channel it spawned may find a receiver where no player is left. `reader` is the task of an upstream connection:
it releases on an Errors frame, and at the end of the connection spins (cache) or ends
(edge) without a word. In a cache it breaks on a frame that cannot be read (Disconnect and no
Release), and fails on one that is no message, or not one for a player (neither); in an edge
both are its end without a word. A cache's manager may panic (`ManagerPanics`: the
`unwrap`s of the socket that asks the register, `unreachable!` at a frame that is neither Ok nor
Errors); the node then runs on without one. In an edge `main` waits for the manager
first and the process ends with it (`xlive-edge/src/main.rs:91`): a behaviour that
stops there, which needs no action. The edge's channel task
may fail: `run` returns the first error of `handle_message`. So it does when its
link to the origin is down, when the last receiver leaves between the count of
receivers and the send (the state *sending*), and when a player that asked for InitData
is gone. In `EdgeNode` a publisher may *vanish*: `run` returns by `?` after five silent
seconds or a packet that the RTMP library rejects, and `disconnect` is not called.

A connection of `EdgeNode` plays one role; what one may ask for in a row is the subject
of `RtmpSession`. In `CacheNode` only players connect, as the
code refuses publishers (`RefusePublisher`).

### RtmpSession and Codec

What the socket returns at once is a *chunk* of whole messages, up to `MaxMessages`. The
library (`rml_rtmp`, external) handles all of a chunk before `Protocol` sees any result of it, and a
request counts only when `accept_request` granted it: so two publishes may be pending at
once, and one for a stream that is in use is refused (`Raise`). `RaisedBy` and
`HandleResults`, the loops over the messages of a chunk and over what they raised, are
recursive functions, which can be reasoned about. `handle_results` turns the results
into `events` and changes `proto`; the last chunk of a handshake may hold messages,
which are handled before the state becomes Ready. The connection then handles the
events one by one, each of which waits for the manager, the channel or the socket
and may fail by `?` (`EventFails`, to *failed*: nobody is told) or by `disconnect()`
(`EndChannel`). Where the manager is gone `disconnect()` fails between Disconnect and Release
(`DisconnectFails`). The write of a response has no time limit, unlike that of a packet
(`conn.rs:94` and `conn.rs:100-104`), and need not end. Manager and channel are only their answers here: `made` counts the channels
the connection was given, `ended`, `released` and `replaced` tell what became of them.
`return_queue` is written out before the next read, each packet through `Packable`: only
a session that plays knows its stream.

A medium is followed from the message that the library raises to the tag or message
that a player reads: `PacketOf`, `ToMediaPacket`, `EncodeFrame`, `DecodeFrame`,
`ToPacket`, `Pack`, each translated byte by byte in `Codec` with integers of their width.
Payloads are sequences of bytes of which two matter; the serialized metadata is one
opaque byte that holds its map.

### Monitor

A spider polls its host, reports to the queue of the Monitor task and polls again;
its `?` ends it, at any error of a request (`RequestFails`), be the node there or not. `watching` is not the number of receivers but how often it has changed:
then the greater of two values is the later one, and *recent* can be said of them.
The manager counts the channels one after the other (`Count`), while players come and go.
A node may lose its manager (`Panic`: its endpoint still answers, with an empty body or
404), crash (its connections are reset, or never heard of again) and restart. `since` records
what each host had reported when a client asked.

## 3. Runs, bounds and fairness

| run | configuration | shows |
|---|---|---|
| `fanout` | 1 player, ring of 1, 4 packets of a stream: metadata, video header, key and inter frames in any order | `TypeOK` `CacheFollowsHistory` `NoGap` `Decodable`, and under fairness `InitAnswered` `PlayersReleased` |
| `origin` | 3 connections, 1 name, a register that may not resolve, ring of 1, 1 packet each | `TypeOK` `NoOrphanChannel` `NoPoisonedEntry` `SnapshotExact` `PublisherHeard`, and under fairness `Answered` `StreamEnds` |
| `origin_alone` | 3 connections, 2 names, no register | `RestIsClean` where publishers replace each other |
| `register` | 2 origins, 1 client, Timeout 2, datagrams lost and duplicated, crashes, an error of `send_to`, a panic of the loop | `TypeOK` `HolderIsServer` and the refinement `ImplementsLeases` |
| `register_live` | 1 origin, 1 client, both HTTP queries, losses, crashes, errors of the socket, a panic of the loop | `FoundAgain` `EndedIsForgotten` `Listening` |
| `cache_node` | 2 players, 2 names, upstream found through the register, closing or with an Errors, broken or garbled frame, a manager that may panic | `TypeOK` `PulledOnce` `NoPoisonedEntry` `RestIsClean`, and under fairness `NobodyWaits` |
| `edge_node` | 2 connections of any kind, 1 name, every fault, 1 packet | `TypeOK` `NoOrphanChannel` `NoPoisonedEntry` `FailsAlone`, and under fairness `Answered` `StreamEnds` |
| `session` | 1 peer, 2 streams, 4 chunks of 1 or 2 messages of any type, 4 media, 1 live packet, every fault | `TypeOK` `ChannelsAccounted` `StreamIdKnown` `HeadersFirst` `RelayedUnchanged`, and under fairness `SilentPeerLetGo` |
| `monitor` | 2 hosts, one with an addr that is no URL, 2 channels, 1 client, every fault | `TypeOK` `ShownIsRecent`, and under fairness `RunningIsShown` |
| `origin_registered`, `register_apps`, `edge_flv` | | section 5 |

**Why the bounds are enough to be interesting.** Four packets hold a header, a key frame
and an inter frame and one more to overrun the ring with, and the invariants of `Fanout`
are proved for any number. Three connections of an origin are two publishers of one
name and a player; two of an edge or a cache are a publisher and a player, two publishers, or
a player that pulls a stream and one that finds it or comes too late, and their
invariants are proved for any number. The three control planes treat names
independently but for the manager's queue and the UDP port, for which `cache_node` and
`origin_alone` have two. In `Register` a queue of one message is enough as the network
already reorders; Timeout 2 is the least with an entry that is neither new nor over.
Four chunks of a session are a handshake with messages behind it, a connect, a request
and what follows it; with two messages in each there are two requests in one
chunk, and with two streams the second while the first goes on. Of its media one is past
the 24 bits of a time stamp. A number of `Monitor` changes once: that is an old and a new
one, per channel; `ShownIsRecent` is proved for any number. The bounds that are not in
the code are `MaxPackets`, `MaxQueue`, `MaxChunks`, `MaxMessages`, `MaxLive` and
`MaxChanges`; they are in the guards of the actions that send, and the theorems are for
any value of them.

Deadlock is not checked in the runs of the nodes, `Fanout`, `RtmpSession` and `Monitor`:
connections come once and what they send is bounded, so that everything may be over. It is
checked in `Register`.

**Symmetry** is used over connections, names and origins in runs without liveness only.

**Fairness.** A tokio task that can run is polled again: weak fairness of the manager, of
each channel and of the steps of a connection that wait for no peer. Peers need not do
anything: publishers need not send or leave, and players need not join. Beyond that,

* a player's `Receive` is fair, so `StreamEnds`, `NobodyWaits` and `PlayersReleased` assume that peers
  drain their sockets: a write has no time limit in the code, but for that of a packet to
  an RTMP player of the edge, which has five seconds (`xlive-edge/src/conn.rs:94`);
* in `CacheNode` and `EdgeNode` the register, the upstream and the origin answer: nothing
  in the code limits the time the manager waits for them, and `Answered` and `NobodyWaits`
  would not hold without it (`xlive-cache/src/manager.rs:74` waits for one datagram with no retry);
* in `RtmpSession` the manager and the channel answer and five seconds pass, those of
  `Silence` and those of the write of a packet; a peer and a ring may be silent for ever, and a
  connection that plays may stay. The write of a response may last for ever too: it is not
  fair, and `SilentPeerLetGo` excepts a connection that is in it for good;
* in `Monitor` a manager comes to the Snapshot in its queue, and a spider whose report finds
  room in the queue again and again sends it (strong fairness: the queue is unbounded in
  the code, and only the bound can fill it). Clients need not ask, nodes need not change;
* in `Register` a datagram of one kind that is sent again and again is read at last
  (strong fairness), heartbeats go on as long as a channel has packets, and time passes.
  A bound of the model must not hide a heartbeat, so the fairness is of a heartbeat with
  room in the queue. A task that ended stays so, and `FoundAgain` and `Listening` name that
  case.

**Mutants.** Every property of a passing run comes with a mutant, a definition marked
`MUTANT of` that stands before the one it would replace: a plausible mistake in the code
under which TLC finds the property violated.

## 4. Proofs

TLAPS checks these for every value of the constants that meets the assumptions named in
the modules: any number of connections, names, players, packets and slots. With them every
invariant and action property of the runs and the refinement are proved.

| theorem | says |
|---|---|
| `FanoutProofs!SetCacheCorrect` | `set_cache` of `MediaCache` keeps the cache what the history makes it |
| `FanoutProofs!TypeCorrect`, `CacheCorrect`, `NoGapCorrect`, `DecodableCorrect` | `TypeOK`, `CacheFollowsHistory`, `NoGap`, `Decodable` |
| `FanoutProofs!Remembered`, `ReleasedAtRest` | `NobodyForgotten`, `RestIsReleased` |
| `OriginNodeProofs!TypeCorrect`, `NoOrphan` | `TypeOK`, `NoOrphanChannel`, with and without a register |
| `OriginNodeProofs!NoPoisoned`, `SnapshotCorrect`, `Heard` | `NoPoisonedEntry`, `SnapshotExact`, `PublisherHeard`, when there is a register |
| `OriginNodeProofs!Remembered`, `CleanAtRest` | `NobodyForgotten`, `RestIsClean`, with and without a register |
| `CacheNodeProofs!Remembered`, `CleanAtRest` and `EdgeNodeProofs!Remembered`, `CleanAtRest` | the same of a cache and of an edge |
| `RegisterProofs!TypeCorrect`, `HolderKnown`, `Remembered` | `TypeOK`, `HolderIsServer`, `NobodyForgotten` |
| `RegisterProofs!Implementation` | `Register` implements `LeaseTable` |
| `CacheNodeProofs!TypeCorrect`, `PulledOnceOnly`, `NoPoisoned` | `TypeOK`, `PulledOnce`, `NoPoisonedEntry` |
| `EdgeNodeProofs!TypeCorrect`, `NoOrphan`, `NoPoisoned`, `FailsAloneAlways` | `TypeOK`, `NoOrphanChannel`, `NoPoisonedEntry`, the action property `FailsAlone` |
| `CodecProofs!MediaPacketRoundTrip`, `FrameRoundTrip`, `PacketRoundTrip`, `MetadataRoundTrip`, `FlvTagReadable` | what is encoded is decoded to the same, for every time stamp of 32 bits and every payload |
| `RtmpSessionProofs!ChunkHandled`, `PackedAsSent` | what `handle_bytes` does with any chunk; a message goes through two edges and is the same |
| `RtmpSessionProofs!TypeCorrect`, `ChannelsAreAccounted`, `StreamIdIsKnown`, `HeadersAreFirst`, `RelayIsUnchanged` | `TypeOK`, `ChannelsAccounted`, `StreamIdKnown`, `HeadersFirst`, `RelayedUnchanged` |
| `MonitorProofs!TypeCorrect`, `ShownRecent` | `TypeOK`, the action property `ShownIsRecent` |

The arguments:

* **`FanoutInv`**. `NoGap` is not inductive: that a live player has what it should needs
  to know what the snapshot in its pending reply holds, and that a player's subscription
  is no later than the snapshot that it is waiting for. The invariant adds that every packet
  in the queue and in the history has a number of its own and is in order, that an InitData
  in the queue belongs to a player that is waiting and has no other, and that
  `sub <= snap`, `sub <= cursor` and so on hold. The lemma `GopStable` is the core: the
  GOP open at the snapshot does not change when later packets are appended. `SetCacheCorrect`,
  for its part, is about the pure function, and rests on the order of the history.
* **`Inv` of the origin**: a connection is in the phase that its reply and its channel
  allow (`Phases`), each has at most one request in the manager's queue, the right
  one for its phase (`Asked`), and an entry of the map leads to a channel that was
  created (`Mapped`). With a register, `RegisterInv` adds that a channel ends only after
  its publisher left, that an entry of a dead channel is owed a Release, and that
  `socket` is the one channel that is alive. From this comes the surprising part: with
  a register no two channels of an origin ever overlap, for the second `bind` panics;
  and that is what makes `SnapshotExact` and `NoPoisonedEntry` true. Without a register
  publishers do replace each other and both are false.
* **`Inv` of the register**: the holder of a name is a server heard of at least as
  lately, the queue holds at most one Get, and that only while the UDP task waits and
  has no reply yet; the queue of a loop that panicked is empty; and the client
  that waits for its answer wanted the name it asked for. Each step of `Register` is then a
  step of `LeaseTable` or a stutter: Set renews, Delete ends, Get looks up, the rest is
  invisible, the removal of a stale entry included.

* **`DecodeInv`** adds to `FanoutInv` what `Decodable` needs: packets are numbered by
  their place in the history (`Numbered`), a snapshot holds the last video header
  before it (`SnapshotHasHeader`, which rests on `SetCacheCorrect`), and the socket got the
  snapshot and then the ring in its order, so that before each packet lie all after the
  subscription that the ring did not overrun (`Laid`). What a frame needs was either
  in the snapshot or handled after it: the lemma `LaidDecodes`.
* **`Inv` of the cache**: `PulledOnce` holds because a reader that has not sent its Release
  owns the entry of its name (`Owner`), and the manager pulls only for a name without an
  entry, which stays without one while it waits (`Waiting`). When the manager panics the map
  is lost and nothing is pulled any more, so `PulledOnce` is then kept as it was
  (the lemma `PulledOnceStep`). An entry leads to a
  channel that was made, and when its reader is over the Release is in the queue
  (`Mapped`); there is at most one of each request (`Asked`).
* **`Inv` of the edge**: only its publisher or its reader tells a channel to end, and
  has then left (`EndedByOwner`); whoever made the entry of a name is there still or its
  Release is on its way (`Mapped`). `NoPoisonedEntry` is the two together. `FailsAlone`
  needs `Inits`: an InitData is in one queue once, and its RTMP player is still waiting
  for it, so the reply that fails can only be that of an HTTP player.
* **What liveness rests on.** That a waiting task is answered *at last* is for TLC; what can be
  proved is that nothing is lost on the way. `NobodyForgotten`: whoever waits for a reply
  is in the queue of a task that is there to give it. It adds to `Inv` of the three nodes that a
  player that went on has a handle (`Watching`), and takes, for each step of a task, that
  the reply it gives is to the request that it takes, and that a queue is dropped with the
  replies it owes (`OwedReplyStep`, `OwedInitStep`). `AtRest` says that no task of the node can take a
  step, as one can read off the guards of its actions: the peers and the clock have to act, or
  whoever the manager waits for. `RestIsClean` says what is left then: nobody waits, and
  no channel, entry or player but of streams that are fed. What a node keeps without need is
  excepted by name: in a cache what an upstream leaves that ended without an Errors frame
  (`Forsaken`: after a broken frame the entry, after a garbled one or a plain end the channel
  too), in an edge the channel and entry of a publisher that vanished or of a reader that
  ended without a word (`Fed`). The edge needs one invariant more,
  `PulledOrTold`: a channel that was made for no publisher has its reader or was told to
  end. In `Fanout` a player without its cached packets has its InitData in the queue of a
  channel that runs, and `RestIsReleased` is what `PlayersReleased` comes to when nothing is
  left to do. In `Register` the UDP task waits for a Get that is queued, answered or gone with the
  server loop, and the question of a client gets lost in the network or with a task that
  ended, not in the register.
  These theorems use no fairness and do not say when.
* **`Inv` of the monitor**: what is counted for a poll is at least what was reported
  before (`Counting`), the reports of a host are handled from the oldest to the newest
  (`Ascending`), and what a client is owed is in the table or before its request in the
  queue (`Asking`).
* **`Codec`** has no state: the round trips are arithmetic on the digits of a number to
  the base 256, stated once (`CodecProofs`) and used for the header of a packet and the
  tag of FLV. A tag is readable when its payload is shorter than 2^24 bytes, which is
  what its three bytes can hold.

* **`SessionInv` of a session** is the conjunction of seven parts, of which TLC checked
  each reachable state of the `session` instance. What a chunk may hold is not bounded, so the
  theorem `ChunkHandled` comes first: by induction over its messages and their results,
  the events that `handle_bytes` queues are well-formed. A leave to publish is right behind
  the channel that it is for (`GrantsInv`, from which `granted <= made`), SendInitData two
  behind its Join (`InitsInv`), and if the last event that decides the state of the
  connection is a Join then the `Protocol` plays (`PlaysInv`). The last two hold of the bytes
  behind a handshake, which are handled before the state becomes Ready, for one
  reason: a library whose `connect` was not granted yet raises no request (`HandshakeInv`).
  `ChannelsInv` adds to `ChannelsAccounted` that the channel a session publishes to is not
  among those ended or replaced, and that a task that failed does nothing more: without it
  `disconnect()` might end a channel twice. Of the channels that were ended one may lack its
  Release: the last, in a task that failed because the manager was gone. `HeadersFirst` is about what was written;
  `OrderInv` says the same of the queue and of the two together. When cached packets are
  queued nothing of their Join was yet (`InitsInv`), and after them come packets of the ring.
  `RelayedUnchanged` rests on the types, where every packet that a session holds is one
  that some medium became, and on the round trips of `Codec`, which are for sequences over any set
  that contains the bytes, since the map of the metadata is one opaque element.

Induction: the library's theorems take an operator as a parameter, which the provers cannot
instantiate. `RtmpSessionProofs!SetInduction` states the principle for a set instead of a
predicate: the intervals `1 .. n` are ordered by inclusion, which is well-founded on the
finite sets (`FS_StrictSubsetOrderingWellFounded`, a fact without such a parameter), so a set of numbers
that holds 0 and the successor of each of its members has no least number outside it. A
recursive function is then shown to satisfy its equation, and its values to lie in a set.

The assumption `MediaAssumption` is that of the wire: a time of 32 bits, a length of 24, and no
metadata but the fields that the library knows.

Only model-checked: every liveness property and everything that depends on fairness, which is
out of the prover's reach. So is `ENABLED`: that `AtRest` holds just when none of a node's
fair actions is enabled (`AtRest <=> ~ENABLED (Manager \/ Answers \/ ...)`) TLC confirms, on the
instances of `origin`, `origin_alone`, `cache_node`, `edge_node` and `fanout`.

## 5. Where the code and its documents differ

Each is a run in which TLC finds what a document says violated:

* `origin_registered`: `README.md:21` says every publisher registers. All channels
  of an origin bind UDP port 9878 (`xlive-origin/src/manager.rs:60`) and the second `bind`
  panics in the manager task, while its queue and later requests get no answer but the
  dropped reply. The run has the fairness of section 3, and its counterexample is not a
  stutter of the environment: the publisher stands before a manager that is gone.
* `register_apps`: `xlive-register/README.md:12-14` says `/channels_info` lists the app
  names that are alive. It lists the map as it is, stale entries included.
* `edge_flv`: http-flv is supported (`README.md:37`, and `xlive-edge/README.md:14` plays it).
  The FLV header is sent along with the cached packets only, and the player whose request
  pulled the stream is not sent those.

Some more that no run is spent on: without a register the first message later than a
second after the start ends the channel of every publisher
(`xlive-origin/src/channel.rs:62`, the action `PanicInHeartbeat`); and `/servers_info`
lists the addresses of everybody who sent a Get, not only origins
(`xlive-register/src/register.rs:44`, `Seen`); the hosts of `xlive-monitor/config.toml` are
`192.168.1.1:3032`, without `http://` and `/monitor`, for which `reqwest::get` returns an error
and the spider ends at its first poll (the host of `MCMonitor.cfg` that is not in `Urls`);
the interval of a spider is made anew in its loop, so that its tick is due at once and it
polls without a pause (`xlive-monitor/src/spider.rs:32`); and the metadata of a stream is sent to
an HTTP player as the serialized map of the cluster, not as the script data of FLV
(`xlive-edge/src/http_flv.rs:117`).

## 6. What is not modelled

* `RegisterTrigger`, which is never sent, and with it the triggers of the managers.
* The library `rml_rtmp` and `bincode`: what they raise and give back is modelled from
  its use, an encoded metadata map, Init or Register being read as what was written.
* A player that sends after its Init: the connections of origin and cache panic, and no
  peer in the repository does so. What an upstream may send is modelled, be it garbled.
* The wrapped difference of a clock that is set back: `timestamp - last_timestamp` of the
  register underflows. In a build that checks overflow it panics, which is `ServerPanics`.
* The spinning of an edge channel all of whose handles are gone, and of a spider: they
  cost time, not steps.
* RTMP messages other than connect, publish, play, the end of a stream and media are one
  message here, which is answered; and no chunk splits a message (the library keeps the part).
* The TCP connection between two nodes: an edge's link to the origin and the publisher
  it is to the origin are in different modules. `RtmpSession` follows a packet across
  it, not the order of packets.
* Deployment files: configuration without behaviour.

## 7. Plan

Done: data plane, origin, register with its abstract specification, cache, edge, RTMP
session, encodings, monitor; every invariant and action property of the runs proved, and of the
three nodes, the data plane and the register that nobody who waits is forgotten, and what is
left at rest.

Next:

1. `Relay`: the channel of an origin feeding that of a cache or an edge over TCP, players
   at the end: `NoGap` and `Decodable` across two hops, and a `PlayProtocol` that the
   connections of origin and cache both implement (`xlive-cache/src/conn.rs:63` says that
   they are compatible).
2. `EdgeNode` with the connections of `RtmpSession` instead of one role each.
3. What `NobodyForgotten` is to the nodes, for `RtmpSession`: its waits on the manager and
   the channel, and the five seconds of `Silence`.
