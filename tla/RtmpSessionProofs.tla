------------------------- MODULE RtmpSessionProofs -------------------------
(***************************************************************************)
(* What holds of every RTMP session, whatever the media, the streams and   *)
(* the chunks of the peer, however long.                                   *)
(***************************************************************************)
EXTENDS RtmpSession, CodecProofs, FiniteSetTheorems

(***************************************************************************)
(* The inductive invariant.                                                *)
(***************************************************************************)

\* The leave to publish is given right after the channel that it is for.
GrantsFollow(s) ==
  \A i \in 2 .. Len(s) : s[i] = ReturnData("publish") => s[i - 1] = Event("AcquireChannel")

\* Cached packets are asked for right after a Join and the response to the peer.
InitsFollow(s) ==
  \A i \in 3 .. Len(s) : s[i].type = "SendInitData" =>
    s[i - 1].type = "ReturnData" /\ s[i - 2].type = "JoinChannel"

\* The events that set the state of the connection.
Deciding == {"AcquireChannel", "JoinChannel", "ReleaseChannel", "LeaveChannel"}

UndecidedAfter(s, i) == \A j \in i + 1 .. Len(s) : s[j].type \notin Deciding

\* When the last of them is a Join, the protocol plays.
JoinKnown(s, p) ==
  \A i \in 1 .. Len(s) : s[i].type = "JoinChannel" /\ UndecidedAfter(s, i) => p = "Playing"

\* Each channel that was ended was released, but the last of a connection that found
\* the manager gone.
ReleasedEach ==
  \/ released = Cardinality(ended)
  \/ "manager" \in Faults /\ state = "failed" /\ released + 1 = Cardinality(ended)

\* Every channel has been ended or replaced but the one that is published to, or
\* was when the task failed, which has nothing left to do.
ChannelsInv ==
  /\ ended \cap replaced = {}
  /\ 1 .. made \ (ended \cup replaced) \subseteq
       IF state \in {"Publishing", "failed"} THEN {made} ELSE {}
  /\ state = "Publishing" => made \in 1 .. made \ (ended \cup replaced)
  /\ IsFiniteSet(ended) /\ ReleasedEach
  /\ state = "failed" => Idle

GrantsInv ==
  /\ granted <= made
  /\ GrantsFollow(events)
  /\ events # <<>> /\ events[1] = ReturnData("publish") => granted < made

PlaysInv ==
  /\ JoinKnown(events, proto)
  /\ state = "Playing" /\ UndecidedAfter(events, 0) => proto = "Playing"

\* Before the handshake is done nothing was asked of the library.
FreshLibrary(l) == ~l.accepted /\ \A s \in Streams : l.streams[s] = "idle"

HandshakeInv == proto = "HandshakePending" => FreshLibrary(lib)

\* No packet of the last Join was taken.
NoneOfJoin(j, s) == \A i \in 1 .. Len(s) : s[i].join # j

InitsInv ==
  /\ InitsFollow(events)
  /\ \A i \in 1 .. Len(events) : i <= 2 /\ events[i].type = "SendInitData" =>
       /\ i = 2 => events[1].type = "ReturnData"
       /\ state = "Playing" => NoneOfJoin(joins, written) /\ NoneOfJoin(joins, queue)

\* The packets of one Join are in the order of the parts; what is written comes
\* before what is queued.
InOrder(s) ==
  \A i, j \in 1 .. Len(s) :
    i < j /\ s[i].join = s[j].join => PartOrder[s[i].part] <= PartOrder[s[j].part]

Before(s, t) ==
  \A i \in 1 .. Len(s), j \in 1 .. Len(t) :
    s[i].join = t[j].join => PartOrder[s[i].part] <= PartOrder[t[j].part]

OrderInv == InOrder(written) /\ InOrder(queue) /\ Before(written, queue)

SessionInv ==
  TypeOK /\ ChannelsInv /\ GrantsInv /\ PlaysInv /\ HandshakeInv /\ InitsInv /\ OrderInv

---------------------------------------------------------------------------
(***************************************************************************)
(* Induction, which the library states for an operator, here for a set:    *)
(* a set of numbers without a least one outside it has them all.  The      *)
(* intervals 1 .. n are ordered by inclusion as their lengths are, and     *)
(* that order is well-founded.                                             *)
(***************************************************************************)
LEMMA SetInduction ==
  ASSUME NEW S, 0 \in S, \A n \in Nat : n \in S => n + 1 \in S
  PROVE  \A n \in Nat : n \in S
<1> DEFINE T == {1 .. n : n \in Nat \ S}
           R == StrictSubsetOrdering(Nat)
<1>1. SUFFICES ASSUME Nat \ S # {} PROVE FALSE
  OBVIOUS
<1>2. IsWellFoundedOn(R, FiniteSubsetsOf(Nat))
  BY FS_StrictSubsetOrderingWellFounded
<1>3. T \subseteq FiniteSubsetsOf(Nat) /\ T # {}
  <2>1. ASSUME NEW n \in Nat PROVE 1 .. n \in SUBSET Nat /\ IsFiniteSet(1 .. n)
    BY FS_Interval
  <2> QED  BY <1>1, <2>1 DEF FiniteSubsetsOf
<1> HIDE DEF R, T
<1>4. PICK X \in T : \A Y \in T : ~ (<<Y, X>> \in R)
  BY <1>2, <1>3, WFMin, Zenon
<1>5. PICK n \in Nat \ S : X = 1 .. n
  BY <1>4 DEF T
<1>6. n # 0 /\ n - 1 \in Nat \ S
  OBVIOUS
<1>7. 1 .. n - 1 \in T
  BY <1>6 DEF T
<1>8. <<1 .. n - 1, 1 .. n>> \in R
  <2>1. /\ n \in 1 .. n /\ n \notin 1 .. n - 1
        /\ 1 .. n - 1 \subseteq 1 .. n /\ 1 .. n \subseteq Nat
    BY <1>6
  <2> QED  BY <2>1 DEF R, StrictSubsetOrdering
<1> QED  BY <1>4, <1>5, <1>7, <1>8

\* The same up to a bound, for a set of the numbers that have been reached.
LEMMA BoundedInduction ==
  ASSUME NEW N \in Nat, NEW S, 0 \in S, \A n \in 1 .. N : n - 1 \in S => n \in S
  PROVE  N \in S
<1> DEFINE T == {n \in Nat : n <= N => n \in S}
<1>1. 0 \in T
  OBVIOUS
<1>2. ASSUME NEW n \in Nat, n \in T  PROVE n + 1 \in T
  <2>1. n + 1 <= N => n + 1 \in 1 .. N /\ n + 1 - 1 = n /\ n <= N
    OBVIOUS
  <2> QED  BY <1>2, <2>1
<1>3. N \in T
  <2> HIDE DEF T
  <2> QED  BY <1>1, <1>2, SetInduction
<1> QED  BY <1>3

---------------------------------------------------------------------------
(***************************************************************************)
(* What a chunk does, by induction over its messages and over what they    *)
(* raise.                                                                  *)
(***************************************************************************)

\* RaisedBy is the last of the steps that it recurs through.
LEMMA RaisedSteps ==
  ASSUME NEW l, NEW chunk \in Seq(PeerMessage)
  PROVE  \E f : /\ f[0] = [lib |-> l, results |-> <<>>]
                /\ \A n \in 1 .. Len(chunk) : f[n] = Raise(f[n - 1], chunk[n])
                /\ RaisedBy(l, chunk) = f[Len(chunk)]
<1> DEFINE N == Len(chunk)
           base == [lib |-> l, results |-> <<>>]
           Upto(f, k) == f = [n \in 0 .. k |-> IF n = 0 THEN base ELSE Raise(f[n - 1], chunk[n])]
           S == {k \in Nat : \E f : Upto(f, k)}
           raised[n \in 0 .. Len(chunk)] ==
             IF n = 0 THEN [lib |-> l, results |-> <<>>] ELSE Raise(raised[n - 1], chunk[n])
<1>1. N \in Nat
  OBVIOUS
<1>2. 0 \in S
  <2> DEFINE f == [n \in 0 .. 0 |-> base]
  <2>1. \A n \in 0 .. 0 : n = 0
    BY SMT
  <2>2. Upto(f, 0)
    BY <2>1, Zenon
  <2> QED  BY <2>2
<1>3. ASSUME NEW k \in Nat, k \in S  PROVE k + 1 \in S
  <2>1. PICK f : Upto(f, k)
    BY <1>3
  <2> DEFINE g == [n \in 0 .. k + 1 |-> IF n = 0 THEN base ELSE Raise(f[n - 1], chunk[n])]
  <2> HIDE DEF base
  <2>2. \A n \in 0 .. k : g[n] = f[n]
    BY <2>1
  <2>3. \A n \in 0 .. k + 1 : n = 0 \/ g[n - 1] = f[n - 1]
    <3> HIDE DEF g
    <3> QED  BY <2>2
  <2>4. Upto(g, k + 1)
    <3>1. \A n \in 0 .. k + 1 : (IF n = 0 THEN base ELSE Raise(f[n - 1], chunk[n]))
                              = (IF n = 0 THEN base ELSE Raise(g[n - 1], chunk[n]))
      <4> HIDE DEF g
      <4> QED  BY <2>3, Zenon
    <3> QED  BY <3>1, Zenon
  <2>5. k + 1 \in Nat
    OBVIOUS
  <2> HIDE DEF g, Upto
  <2> QED  BY <2>4, <2>5
<1>4. N \in S
  <2> HIDE DEF S, N
  <2> QED  BY <1>1, <1>2, <1>3, SetInduction
<1>5. PICK f : Upto(f, N)
  BY <1>4
<1>6. Upto(raised, N)
  BY <1>5, Zenon
<1>7. RaisedBy(l, chunk) = raised[N]
  BY DEF RaisedBy
<1>8. raised[0] = base /\ \A n \in 1 .. Len(chunk) : raised[n] = Raise(raised[n - 1], chunk[n])
  <2> HIDE DEF raised, base
  <2> QED  BY <1>1, <1>6
<1> HIDE DEF raised
<1> QED  BY <1>7, <1>8

\* And so is HandleResults.
LEMMA HandledSteps ==
  ASSUME NEW acc, NEW R, NEW results \in Seq(R)
  PROVE  \E f : /\ f[0] = acc
                /\ \A n \in 1 .. Len(results) : f[n] = HandleResult(f[n - 1], results[n])
                /\ HandleResults(acc, results) = f[Len(results)]
<1> DEFINE N == Len(results)
           Upto(f, k) ==
             f = [n \in 0 .. k |-> IF n = 0 THEN acc ELSE HandleResult(f[n - 1], results[n])]
           S == {k \in Nat : \E f : Upto(f, k)}
           handled[n \in 0 .. Len(results)] ==
             IF n = 0 THEN acc ELSE HandleResult(handled[n - 1], results[n])
<1>1. N \in Nat
  OBVIOUS
<1>2. 0 \in S
  <2> DEFINE f == [n \in 0 .. 0 |-> acc]
  <2>1. \A n \in 0 .. 0 : n = 0
    BY SMT
  <2>2. Upto(f, 0)
    BY <2>1, Zenon
  <2> QED  BY <2>2
<1>3. ASSUME NEW k \in Nat, k \in S  PROVE k + 1 \in S
  <2>1. PICK f : Upto(f, k)
    BY <1>3
  <2> DEFINE g == [n \in 0 .. k + 1 |-> IF n = 0 THEN acc ELSE HandleResult(f[n - 1], results[n])]
  <2>2. \A n \in 0 .. k : g[n] = f[n]
    BY <2>1
  <2>3. \A n \in 0 .. k + 1 : n = 0 \/ g[n - 1] = f[n - 1]
    <3> HIDE DEF g
    <3> QED  BY <2>2
  <2>4. Upto(g, k + 1)
    <3>1. \A n \in 0 .. k + 1 : (IF n = 0 THEN acc ELSE HandleResult(f[n - 1], results[n]))
                              = (IF n = 0 THEN acc ELSE HandleResult(g[n - 1], results[n]))
      <4> HIDE DEF g
      <4> QED  BY <2>3, Zenon
    <3> QED  BY <3>1, Zenon
  <2>5. k + 1 \in Nat
    OBVIOUS
  <2> HIDE DEF g, Upto
  <2> QED  BY <2>4, <2>5
<1>4. N \in S
  <2> HIDE DEF S, N
  <2> QED  BY <1>1, <1>2, <1>3, SetInduction
<1>5. PICK f : Upto(f, N)
  BY <1>4
<1>6. Upto(handled, N)
  BY <1>5, Zenon
<1>7. HandleResults(acc, results) = handled[N]
  BY DEF HandleResults
<1>8. handled[0] = acc /\ \A n \in 1 .. Len(results) : handled[n] = HandleResult(handled[n - 1], results[n])
  <2> HIDE DEF handled
  <2> QED  BY <1>1, <1>6
<1> HIDE DEF handled
<1> QED  BY <1>7, <1>8

\* What the library raises; what it raises before any request was granted.
Result ==
  [type : {"ConnectionRequested", "OutboundResponse", "PublishStreamFinished", "PlayStreamFinished"}]
    \cup [type : {"publish", "play"}, stream : Streams]
    \cup [type : {"media"}, media : Media]

Quiet == [type : {"ConnectionRequested", "OutboundResponse"}]

Raising == [lib : Library, results : Seq(Result)]

\* One more result.
LEMMA AppendResult ==
  ASSUME NEW acc \in Raising, NEW r \in Result
  PROVE  [acc EXCEPT !.results = Append(@, r)] \in Raising
  BY DEF Raising

\* Whatever message the library handles, it stays typed and its results are.
LEMMA RaiseTyped ==
  ASSUME NEW acc \in Raising, NEW msg \in PeerMessage
  PROVE  Raise(acc, msg) \in Raising
<1> DEFINE add(result) == [acc EXCEPT !.results = Append(@, result)]
           now == acc.lib.streams
           closed == [acc EXCEPT !.lib.streams[msg.stream] = "idle"]
<1>1. \A r \in Result : add(r) \in Raising
  BY AppendResult
<1>2. CASE msg.type = "connect"
  <2>1. Raise(acc, msg) = add([type |-> "ConnectionRequested"])
    BY <1>2 DEF Raise
  <2> QED  BY <1>1, <2>1 DEF Result
<1>3. CASE msg.type \in {"publish", "play"}
  <2>1. msg.stream \in Streams
    BY <1>3 DEF PeerMessage
  <2>2. Raise(acc, msg) = IF acc.lib.accepted /\ now[msg.stream] = "idle"
                          THEN add([type |-> msg.type, stream |-> msg.stream])
                          ELSE add([type |-> "OutboundResponse"])
    BY <1>3 DEF Raise
  <2>3. /\ [type |-> msg.type, stream |-> msg.stream] \in Result
        /\ [type |-> "OutboundResponse"] \in Result
    BY <1>3, <2>1 DEF Result
  <2> HIDE DEF add, now
  <2> QED  BY <1>1, <2>2, <2>3
<1>4. CASE msg.type = "close"
  <2>1. msg.stream \in Streams
    BY <1>4 DEF PeerMessage
  <2> DEFINE r == [type |-> IF now[msg.stream] = "publishing" THEN "PublishStreamFinished"
                            ELSE "PlayStreamFinished"]
  <2>2. Raise(acc, msg) = IF now[msg.stream] = "idle" THEN acc
                          ELSE [closed EXCEPT !.results = Append(@, r)]
    BY <1>4 DEF Raise
  <2>3. closed \in Raising
    BY <2>1 DEF Raising, Library
  <2>4. r \in Result
    BY DEF Result
  <2> HIDE DEF closed, r
  <2>5. [closed EXCEPT !.results = Append(@, r)] \in Raising
    BY <2>3, <2>4, AppendResult
  <2> QED  BY <2>2, <2>5
<1>5. CASE msg.type = "media"
  <2>1. msg.media \in Media
    BY <1>5 DEF PeerMessage
  <2>2. Raise(acc, msg) = IF now[msg.stream] = "publishing"
                          THEN add([type |-> "media", media |-> msg.media]) ELSE acc
    BY <1>5 DEF Raise
  <2>3. [type |-> "media", media |-> msg.media] \in Result
    BY <2>1 DEF Result
  <2> HIDE DEF add, now
  <2> QED  BY <1>1, <2>2, <2>3
<1>6. CASE msg.type = "other"
  <2>1. Raise(acc, msg) = add([type |-> "OutboundResponse"])
    BY <1>6 DEF Raise
  <2> QED  BY <1>1, <2>1 DEF Result
<1> QED  BY <1>2, <1>3, <1>4, <1>5, <1>6 DEF PeerMessage

\* A library that was asked for nothing grants nothing, and stays as it is.
LEMMA RaiseQuiet ==
  ASSUME NEW acc \in Raising, NEW msg \in PeerMessage,
         FreshLibrary(acc.lib), acc.results \in Seq(Quiet)
  PROVE  Raise(acc, msg).lib = acc.lib /\ Raise(acc, msg).results \in Seq(Quiet)
<1> DEFINE add(result) == [acc EXCEPT !.results = Append(@, result)]
<1>1. \A r \in Quiet : add(r).lib = acc.lib /\ add(r).results \in Seq(Quiet)
  BY DEF Raising
<1>2. [type |-> "ConnectionRequested"] \in Quiet /\ [type |-> "OutboundResponse"] \in Quiet
  BY DEF Quiet
<1>3. ~acc.lib.accepted /\ \A s \in Streams : acc.lib.streams[s] = "idle"
  BY DEF FreshLibrary
<1>4. msg.type \in {"publish", "play", "close", "media"} => msg.stream \in Streams
  BY DEF PeerMessage
<1>5. Raise(acc, msg) \in {acc, add([type |-> "ConnectionRequested"]), add([type |-> "OutboundResponse"])}
  <2>1. CASE msg.type = "connect"
    BY <2>1 DEF Raise
  <2>2. CASE msg.type \in {"publish", "play"}
    BY <1>3, <2>2 DEF Raise
  <2>3. CASE msg.type = "close"
    BY <1>3, <1>4, <2>3 DEF Raise
  <2>4. CASE msg.type = "media"
    BY <1>3, <1>4, <2>4 DEF Raise
  <2>5. CASE msg.type = "other"
    BY <2>5 DEF Raise
  <2> QED  BY <2>1, <2>2, <2>3, <2>4, <2>5 DEF PeerMessage
<1> HIDE DEF add
<1> QED  BY <1>1, <1>2, <1>5

\* What a chunk makes the library raise.
LEMMA RaisedTyped ==
  ASSUME NEW l \in Library, NEW chunk \in Seq(PeerMessage)
  PROVE  /\ RaisedBy(l, chunk) \in Raising
         /\ FreshLibrary(l) => /\ RaisedBy(l, chunk).lib = l
                               /\ RaisedBy(l, chunk).results \in Seq(Quiet)
<1> DEFINE N == Len(chunk)
<1>1. PICK f : /\ f[0] = [lib |-> l, results |-> <<>>]
               /\ \A n \in 1 .. N : f[n] = Raise(f[n - 1], chunk[n])
               /\ RaisedBy(l, chunk) = f[N]
  BY RaisedSteps
<1>2. N \in Nat /\ \A n \in 1 .. N : chunk[n] \in PeerMessage
  OBVIOUS
<1> DEFINE quiet(a) == a.lib = l /\ a.results \in Seq(Quiet)
           T == {n \in Nat : f[n] \in Raising}
           Q == {n \in T : FreshLibrary(l) => quiet(f[n])}
<1>3. 0 \in Q
  <2>1. f[0] \in Raising
    BY <1>1 DEF Raising
  <2>2. quiet(f[0])
    BY <1>1
  <2> QED  BY <2>1, <2>2
<1>4. ASSUME NEW n \in 1 .. N, n - 1 \in Q  PROVE n \in Q
  <2>1. f[n] = Raise(f[n - 1], chunk[n]) /\ chunk[n] \in PeerMessage
    BY <1>1, <1>2
  <2>2. f[n - 1] \in Raising /\ (FreshLibrary(l) => quiet(f[n - 1]))
    BY <1>4
  <2>3. f[n] \in Raising
    BY <2>1, <2>2, RaiseTyped
  <2>4. FreshLibrary(l) => quiet(f[n])
    BY <2>1, <2>2, RaiseQuiet
  <2>5. n \in Nat
    BY <1>2
  <2> HIDE DEF quiet
  <2> QED  BY <2>3, <2>4, <2>5
<1>5. N \in Q
  <2> HIDE DEF Q, N
  <2> QED  BY <1>2, <1>3, <1>4, BoundedInduction
<1> QED  BY <1>1, <1>5

---------------------------------------------------------------------------
(***************************************************************************)
(* The events that a chunk becomes.                                        *)
(***************************************************************************)
Acc == [proto : ProtoState, lib : Library, events : Seq(EventType)]

WellFormed(s) ==
  /\ GrantsFollow(s) /\ InitsFollow(s)
  /\ \A i \in 1 .. Len(s) : i = 1 => s[i] # ReturnData("publish")
  /\ \A i \in 1 .. Len(s) : i <= 2 => s[i].type # "SendInitData"

\* The events of one result are well-formed, and what is well-formed can follow
\* upon what is.
LEMMA EventsTyped ==
  ASSUME NEW r \in Result
  PROVE  EventsOf(r) \in Seq(EventType) /\ WellFormed(EventsOf(r))
<1> USE DEF Event, ReturnData, SendPacket, WellFormed, GrantsFollow, InitsFollow
<1>1. CASE r.type = "OutboundResponse"
  <2>1. EventsOf(r) = <<ReturnData("other")>>
    BY <1>1 DEF EventsOf
  <2> QED  BY <2>1 DEF EventType
<1>2. CASE r.type = "ConnectionRequested"
  <2>1. EventsOf(r) = <<ReturnData("connect")>>
    BY <1>2 DEF EventsOf
  <2> QED  BY <2>1 DEF EventType
<1>3. CASE r.type = "publish"
  <2>1. EventsOf(r) = <<Event("AcquireChannel"), ReturnData("publish")>>
    BY <1>3 DEF EventsOf
  <2> QED  BY <2>1 DEF EventType
<1>4. CASE r.type = "play"
  <2>1. EventsOf(r) = <<Event("JoinChannel"), ReturnData("play"), Event("SendInitData")>>
    BY <1>4 DEF EventsOf
  <2> QED  BY <2>1 DEF EventType
<1>5. CASE r.type = "PublishStreamFinished"
  <2>1. EventsOf(r) = <<Event("ReleaseChannel")>>
    BY <1>5 DEF EventsOf
  <2> QED  BY <2>1 DEF EventType
<1>6. CASE r.type = "PlayStreamFinished"
  <2>1. EventsOf(r) = <<Event("LeaveChannel")>>
    BY <1>6 DEF EventsOf
  <2> QED  BY <2>1 DEF EventType
<1>7. CASE r.type = "media"
  <2>1. EventsOf(r) = <<SendPacket(PacketOf(r.media))>>
    BY <1>7 DEF EventsOf
  <2>2. r.media \in Media
    BY <1>7 DEF Result
  <2>3. SendPacket(PacketOf(r.media)) \in EventType
    BY <2>2 DEF EventType
  <2> QED  BY <2>1, <2>3
<1> QED  BY <1>1, <1>2, <1>3, <1>4, <1>5, <1>6, <1>7 DEF Result

\* The events of one result may follow those of another: every grant and every snapshot
\* still comes after its request.
LEMMA WellFormedConcat ==
  ASSUME NEW s \in Seq(EventType), NEW t \in Seq(EventType), WellFormed(s), WellFormed(t)
  PROVE  WellFormed(s \o t)
<1> DEFINE w == s \o t
<1>1. /\ Len(s) \in Nat /\ Len(t) \in Nat /\ Len(w) = Len(s) + Len(t)
      /\ \A i \in 1 .. Len(s) : w[i] = s[i]
      /\ \A i \in 1 .. Len(t) : w[Len(s) + i] = t[i]
  BY CutPrefix
<1>2. \A i \in 1 .. Len(w) : i \in 1 .. Len(s) \/ (i - Len(s) \in 1 .. Len(t) /\ w[i] = t[i - Len(s)])
  BY <1>1
<1> HIDE DEF w
<1>3. GrantsFollow(w)
  <2> SUFFICES ASSUME NEW i \in 2 .. Len(w), w[i] = ReturnData("publish")
               PROVE  w[i - 1] = Event("AcquireChannel")
    BY DEF GrantsFollow
  <2>1. CASE i \in 1 .. Len(s)
    BY <1>1, <2>1 DEF WellFormed, GrantsFollow
  <2>2. CASE i - Len(s) \in 1 .. Len(t) /\ w[i] = t[i - Len(s)]
    <3>1. i - Len(s) # 1
      BY <2>2 DEF WellFormed
    <3>2. i - Len(s) \in 2 .. Len(t) /\ i - Len(s) - 1 \in 1 .. Len(t)
      BY <1>1, <2>2, <3>1
    <3>3. t[i - Len(s) - 1] = Event("AcquireChannel")
      BY <2>2, <3>2 DEF WellFormed, GrantsFollow
    <3>4. w[i - 1] = t[i - Len(s) - 1]
      BY <1>1, <3>2
    <3> QED  BY <3>3, <3>4
  <2> QED  BY <1>1, <1>2, <2>1, <2>2
<1>4. InitsFollow(w)
  <2> SUFFICES ASSUME NEW i \in 3 .. Len(w), w[i].type = "SendInitData"
               PROVE  w[i - 1].type = "ReturnData" /\ w[i - 2].type = "JoinChannel"
    BY DEF InitsFollow
  <2>1. CASE i \in 1 .. Len(s)
    <3>1. /\ i \in 3 .. Len(s)
          /\ i - 1 \in 1 .. Len(s) /\ i - 2 \in 1 .. Len(s)
      BY <1>1, <2>1
    <3>2. w[i] = s[i] /\ w[i - 1] = s[i - 1] /\ w[i - 2] = s[i - 2]
      BY <1>1, <2>1, <3>1, Zenon
    <3>3. s[i - 1].type = "ReturnData" /\ s[i - 2].type = "JoinChannel"
      BY <3>1, <3>2 DEF WellFormed, InitsFollow
    <3> QED  BY <3>2, <3>3
  <2>2. CASE i - Len(s) \in 1 .. Len(t) /\ w[i] = t[i - Len(s)]
    <3>1. i - Len(s) > 2
      BY <1>1, <2>2 DEF WellFormed
    <3>2. /\ i - Len(s) \in 3 .. Len(t)
          /\ i - Len(s) - 1 \in 1 .. Len(t) /\ i - Len(s) - 2 \in 1 .. Len(t)
      BY <1>1, <2>2, <3>1
    <3>3. t[i - Len(s) - 1].type = "ReturnData" /\ t[i - Len(s) - 2].type = "JoinChannel"
      BY <2>2, <3>2 DEF WellFormed, InitsFollow
    <3>4. Len(s) + (i - Len(s) - 1) = i - 1 /\ Len(s) + (i - Len(s) - 2) = i - 2
      BY <1>1
    <3>5. w[Len(s) + (i - Len(s) - 1)] = t[i - Len(s) - 1]
      BY <1>1, <3>2, Zenon
    <3>6. w[Len(s) + (i - Len(s) - 2)] = t[i - Len(s) - 2]
      BY <1>1, <3>2, Zenon
    <3> QED  BY <3>3, <3>4, <3>5, <3>6
  <2> QED  BY <1>1, <1>2, <2>1, <2>2
<1>5. ASSUME NEW i \in 1 .. Len(w)
      PROVE  (i = 1 => w[i] # ReturnData("publish")) /\ (i <= 2 => w[i].type # "SendInitData")
  <2>1. CASE i \in 1 .. Len(s)
    BY <1>1, <2>1 DEF WellFormed
  <2>2. CASE i - Len(s) \in 1 .. Len(t) /\ w[i] = t[i - Len(s)]
    BY <1>1, <2>2 DEF WellFormed
  <2> QED  BY <1>2, <2>1, <2>2
<1> QED  BY <1>3, <1>4, <1>5 DEF WellFormed, w

\* A Join that nothing follows by which the state is set is known to the protocol.
LEMMA JoinKnownConcat ==
  ASSUME NEW s \in Seq(EventType), NEW t \in Seq(EventType), NEW p, NEW q, JoinKnown(s, p),
         \/ q = "Playing"
         \/ /\ \A i \in 1 .. Len(t) : t[i].type # "JoinChannel"
            /\ q = p \/ \E i \in 1 .. Len(t) : t[i].type \in Deciding
  PROVE  JoinKnown(s \o t, q)
<1> DEFINE w == s \o t
<1>1. /\ Len(s) \in Nat /\ Len(t) \in Nat /\ Len(w) = Len(s) + Len(t)
      /\ \A i \in 1 .. Len(s) : w[i] = s[i]
      /\ \A i \in 1 .. Len(t) : w[Len(s) + i] = t[i]
  BY CutPrefix
<1> HIDE DEF w
<1> SUFFICES ASSUME NEW i \in 1 .. Len(w), w[i].type = "JoinChannel", UndecidedAfter(w, i),
                    q # "Playing"
             PROVE  FALSE
  BY DEF JoinKnown, w
<1>2. i \in 1 .. Len(s)
  <2> SUFFICES ASSUME i \notin 1 .. Len(s) PROVE FALSE
    OBVIOUS
  <2>1. i - Len(s) \in 1 .. Len(t)
    BY <1>1
  <2>2. w[i] = t[i - Len(s)]
    BY <1>1, <2>1
  <2> QED  BY <2>1, <2>2
<1>3. \A j \in 1 .. Len(t) : t[j].type \notin Deciding
  <2> TAKE j \in 1 .. Len(t)
  <2>1. Len(s) + j \in i + 1 .. Len(w)
    BY <1>1, <1>2
  <2> QED  BY <1>1, <2>1 DEF UndecidedAfter
<1>4. UndecidedAfter(s, i)
  <2> SUFFICES ASSUME NEW j \in i + 1 .. Len(s) PROVE s[j].type \notin Deciding
    BY DEF UndecidedAfter
  <2>1. j \in i + 1 .. Len(w) /\ j \in 1 .. Len(s)
    BY <1>1, <1>2
  <2> QED  BY <1>1, <2>1 DEF UndecidedAfter
<1>5. s[i].type = "JoinChannel"
  BY <1>1, <1>2
<1>6. p = "Playing"
  BY <1>2, <1>4, <1>5 DEF JoinKnown
<1> QED  BY <1>3, <1>6

\* One result handled.
LEMMA HandleResultTyped ==
  ASSUME NEW acc \in Acc, NEW r \in Result
  PROVE  HandleResult(acc, r) \in Acc
<1>1. StateAfter(acc.proto, r) \in ProtoState
  BY DEF StateAfter, Acc, ProtoState
<1>2. Accept(acc.lib, r) \in Library
  <2>1. acc.lib \in Library
    BY DEF Acc
  <2>2. CASE r.type \in {"publish", "play"}
    <3>1. r.stream \in Streams
      BY <2>2 DEF Result
    <3> QED  BY <2>1, <2>2, <3>1 DEF Accept, Library
  <2>3. CASE r.type \notin {"publish", "play"}
    BY <2>1, <2>3 DEF Accept, Library
  <2> QED  BY <2>2, <2>3
<1>3. acc.events \o EventsOf(r) \in Seq(EventType)
  <2>1. acc.events \in Seq(EventType) /\ EventsOf(r) \in Seq(EventType)
    BY EventsTyped DEF Acc
  <2> QED  BY <2>1
<1> QED  BY <1>1, <1>2, <1>3 DEF HandleResult, Acc

\* What holds of the events and the state of the protocol when a chunk is handled
\* with the state p.
Handling(acc, p) ==
  /\ WellFormed(acc.events) /\ JoinKnown(acc.events, acc.proto)
  /\ p # "HandshakePending" => acc.proto # "HandshakePending"

\* Handling one more result keeps what the events queued so far have in common.
LEMMA HandleResultKeeps ==
  ASSUME NEW acc \in Acc, NEW r \in Result, NEW p, Handling(acc, p)
  PROVE  Handling(HandleResult(acc, r), p)
<1> DEFINE s == acc.events
           t == EventsOf(r)
           q == StateAfter(acc.proto, r)
<1>1. s \in Seq(EventType) /\ t \in Seq(EventType) /\ WellFormed(s) /\ WellFormed(t)
  BY EventsTyped DEF Acc, Handling
<1>2. WellFormed(s \o t)
  BY <1>1, WellFormedConcat
<1>3. \/ q = "Playing"
      \/ /\ \A i \in 1 .. Len(t) : t[i].type # "JoinChannel"
         /\ q = acc.proto \/ \E i \in 1 .. Len(t) : t[i].type \in Deciding
  <2>1. CASE r.type = "play"
    BY <2>1 DEF StateAfter
  <2>2. CASE r.type = "publish"
    <3>1. t = <<Event("AcquireChannel"), ReturnData("publish")>>
      BY <2>2 DEF EventsOf
    <3> QED  BY <3>1 DEF Event, ReturnData, Deciding
  <2>3. CASE r.type \in {"PublishStreamFinished", "PlayStreamFinished"}
    <3>1. t = <<Event("ReleaseChannel")>> \/ t = <<Event("LeaveChannel")>>
      BY <2>3 DEF EventsOf
    <3> QED  BY <3>1 DEF Event, Deciding
  <2>4. CASE r.type \in {"OutboundResponse", "ConnectionRequested", "media"}
    <3>1. q = acc.proto
      BY <2>4 DEF StateAfter
    <3>2. \/ t = <<ReturnData("other")>> \/ t = <<ReturnData("connect")>>
          \/ t = <<SendPacket(PacketOf(r.media))>>
      BY <2>4 DEF EventsOf
    <3> QED  BY <3>1, <3>2 DEF ReturnData, SendPacket
  <2> QED  BY <2>1, <2>2, <2>3, <2>4 DEF Result
<1>4. JoinKnown(s \o t, q)
  <2>1. JoinKnown(s, acc.proto)
    BY DEF Handling
  <2> HIDE DEF s, t, q
  <2> QED  BY <1>1, <1>3, <2>1, JoinKnownConcat
<1>5. p # "HandshakePending" => q # "HandshakePending"
  BY DEF Handling, StateAfter
<1>6. HandleResult(acc, r).events = s \o t /\ HandleResult(acc, r).proto = q
  BY DEF HandleResult
<1> HIDE DEF s, t, q
<1> QED  BY <1>2, <1>4, <1>5, <1>6 DEF Handling

\* Nothing but responses comes of what a fresh library raises.
Response == [type : {"ReturnData"}, grants : {"connect", "other"}]

\* A result of a fresh library adds nothing but responses to the events.
LEMMA HandleResultQuiet ==
  ASSUME NEW acc \in Acc, NEW r \in Quiet, acc.events \in Seq(Response)
  PROVE  HandleResult(acc, r).events \in Seq(Response)
<1>1. EventsOf(r) = <<ReturnData("other")>> \/ EventsOf(r) = <<ReturnData("connect")>>
  BY DEF EventsOf, Quiet
<1>2. EventsOf(r) \in Seq(Response)
  <2>1. ReturnData("other") \in Response /\ ReturnData("connect") \in Response
    BY DEF ReturnData, Response
  <2>2. \A x \in Response : <<x>> \in Seq(Response)
    OBVIOUS
  <2> QED  BY <1>1, <2>1, <2>2, Zenon
<1> QED  BY <1>2 DEF HandleResult

\* All of them handled.
LEMMA HandledTyped ==
  ASSUME NEW acc \in Acc, NEW p, Handling(acc, p), NEW results \in Seq(Result)
  PROVE  /\ HandleResults(acc, results) \in Acc
         /\ Handling(HandleResults(acc, results), p)
         /\ acc.events \in Seq(Response) /\ results \in Seq(Quiet) =>
              HandleResults(acc, results).events \in Seq(Response)
<1> DEFINE N == Len(results)
           quiet == acc.events \in Seq(Response) /\ results \in Seq(Quiet)
<1>1. PICK f : /\ f[0] = acc
               /\ \A n \in 1 .. N : f[n] = HandleResult(f[n - 1], results[n])
               /\ HandleResults(acc, results) = f[N]
  BY HandledSteps
<1>2. N \in Nat /\ \A n \in 1 .. N : results[n] \in Result /\ (quiet => results[n] \in Quiet)
  OBVIOUS
<1> DEFINE T == {n \in Nat : /\ f[n] \in Acc /\ Handling(f[n], p)
                             /\ quiet => f[n].events \in Seq(Response)}
<1>3. 0 \in T
  BY <1>1
<1>4. ASSUME NEW n \in 1 .. N, n - 1 \in T  PROVE n \in T
  <2>1. f[n] = HandleResult(f[n - 1], results[n]) /\ results[n] \in Result
    BY <1>1, <1>2
  <2>2. f[n - 1] \in Acc /\ Handling(f[n - 1], p) /\ (quiet => f[n - 1].events \in Seq(Response))
    BY <1>4
  <2>3. f[n] \in Acc
    BY <2>1, <2>2, HandleResultTyped
  <2>4. Handling(f[n], p)
    BY <2>1, <2>2, HandleResultKeeps
  <2>5. quiet => f[n].events \in Seq(Response)
    <3> HAVE quiet
    <3>1. results[n] \in Quiet
      BY <1>2
    <3> QED  BY <2>1, <2>2, <3>1, HandleResultQuiet
  <2>6. n \in Nat
    BY <1>2
  <2> HIDE DEF quiet
  <2> QED  BY <2>3, <2>4, <2>5, <2>6
<1>5. N \in T
  <2> HIDE DEF T, N
  <2> QED  BY <1>2, <1>3, <1>4, BoundedInduction
<1> QED  BY <1>1, <1>5

\* What handle_bytes gives back, whatever the chunk: typed and well-formed events,
\* of which a Join is known to the protocol, and a session that has shaken hands.
THEOREM ChunkHandled ==
  ASSUME NEW acc \in Acc, NEW chunk \in Chunk, acc.events \in Seq(Response)
  PROVE  LET h == HandleInput(acc, chunk)
         IN  /\ h \in Acc /\ Handling(h, acc.proto)
             /\ FreshLibrary(acc.lib) => h.events \in Seq(Response)
<1> DEFINE raised == RaisedBy(acc.lib, chunk)
           start == [acc EXCEPT !.lib = raised.lib]
           h == HandleInput(acc, chunk)
<1>1. chunk \in Seq(PeerMessage)
  <2>1. PICK n \in 1 .. MaxMessages : chunk \in [1 .. n -> PeerMessage]
    BY DEF Chunk
  <2>2. n \in Nat
    BY BoundsAssumption
  <2> QED  BY <2>1, <2>2
<1>2. acc.lib \in Library
  BY DEF Acc
<1>3. /\ raised \in Raising
      /\ FreshLibrary(acc.lib) => raised.results \in Seq(Quiet)
  BY <1>1, <1>2, RaisedTyped
<1>4. raised.lib \in Library /\ raised.results \in Seq(Result)
  BY <1>3 DEF Raising
<1> HIDE DEF raised
<1>5. start \in Acc /\ start.events = acc.events /\ start.proto = acc.proto
  BY <1>4 DEF Acc
<1>6. Handling(start, acc.proto)
  <2>1. \A i \in 1 .. Len(acc.events) : acc.events[i] \in Response
    OBVIOUS
  <2>2. \A i \in 1 .. Len(acc.events) : /\ acc.events[i].type = "ReturnData"
                                        /\ acc.events[i] # ReturnData("publish")
    BY <2>1 DEF Response, ReturnData
  <2>3. Len(acc.events) \in Nat
    OBVIOUS
  <2>4. WellFormed(acc.events) /\ JoinKnown(acc.events, acc.proto)
    <3>1. \A i \in 2 .. Len(acc.events) : i \in 1 .. Len(acc.events)
      BY <2>3
    <3>2. \A i \in 3 .. Len(acc.events) : i \in 1 .. Len(acc.events)
      BY <2>3
    <3> QED  BY <2>2, <3>1, <3>2 DEF WellFormed, JoinKnown, GrantsFollow, InitsFollow
  <2> QED  BY <1>5, <2>4 DEF Handling
<1>7. h = HandleResults(start, raised.results)
  BY DEF HandleInput, raised
<1> HIDE DEF start, h
<1>8. /\ h \in Acc /\ Handling(h, acc.proto)
      /\ start.events \in Seq(Response) /\ raised.results \in Seq(Quiet) => h.events \in Seq(Response)
  BY <1>4, <1>5, <1>6, <1>7, HandledTyped
<1> QED  BY <1>3, <1>5, <1>8 DEF h

\* And so it is for what the connection task is given, at the handshake too.
LEMMA HandledFacts ==
  ASSUME TypeOK, HandshakeInv, NEW chunk \in Chunk, NEW h \in Handled(chunk)
  PROVE  /\ h \in Acc
         /\ WellFormed(h.events) /\ JoinKnown(h.events, h.proto)
         /\ h.proto = "HandshakePending" => FreshLibrary(h.lib)
<1> DEFINE acc == [proto |-> proto, lib |-> lib, events |-> <<>>]
<1>1. acc \in Acc /\ acc.events \in Seq(Response)
  BY DEF TypeOK, Acc
<1>2. CASE proto # "HandshakePending"
  <2>1. h = HandleInput(acc, chunk)
    BY <1>2 DEF Handled
  <2>2. h \in Acc /\ Handling(h, acc.proto)
    BY <1>1, <2>1, ChunkHandled
  <2> QED  BY <1>2, <2>2 DEF Handling
<1>3. CASE proto = "HandshakePending"
  <2> DEFINE response == [acc EXCEPT !.events = <<ReturnData("other")>>]
             session  == [response EXCEPT !.events = Append(@, ReturnData("other"))]
             input    == HandleInput(session, chunk)
  <2>1. FreshLibrary(lib)
    BY <1>3 DEF HandshakeInv
  <2>2. ReturnData("other") \in Response /\ Response \subseteq EventType
    BY DEF ReturnData, Response, EventType
  <2> DEFINE other == ReturnData("other")
  <2> HIDE DEF other
  <2>10. /\ <<other>> \in Seq(Response) /\ <<other>> \in Seq(EventType)
         /\ Append(<<other>>, other) \in Seq(Response) /\ Append(<<other>>, other) \in Seq(EventType)
    <3>1. other \in Response /\ other \in EventType
      BY <2>2 DEF other
    <3>2. \A S : \A x \in S : <<x>> \in Seq(S) /\ Append(<<x>>, x) \in Seq(S)
      OBVIOUS
    <3> QED  BY <3>1, <3>2, Zenon
  <2>3. /\ response \in Acc /\ response.events \in Seq(Response)
        /\ response.events = <<other>>
        /\ response.proto = "HandshakePending" /\ response.lib = lib
    <3>1. response = [proto |-> "HandshakePending", lib |-> lib, events |-> <<other>>]
      BY <1>3 DEF other
    <3>2. lib \in Library /\ "HandshakePending" \in ProtoState
      BY DEF TypeOK, ProtoState
    <3> HIDE DEF response
    <3> QED  BY <2>10, <3>1, <3>2 DEF Acc
  <2>4. session \in Acc /\ session.events \in Seq(Response) /\ session.lib = lib
    <3> HIDE DEF response
    <3>1. session = [response EXCEPT !.events = Append(response.events, other)]
      BY DEF other
    <3> HIDE DEF session
    <3> QED  BY <2>3, <2>10, <3>1 DEF Acc
  <2>5. /\ input \in Acc /\ Handling(input, session.proto)
        /\ input.events \in Seq(Response)
    <3> HIDE DEF session
    <3> QED  BY <2>1, <2>4, ChunkHandled
  <2>6. h \in {response, [input EXCEPT !.proto = "Ready"]}
    BY <1>3 DEF Handled, Handshake
  <2>7. \A s \in Seq(Response) : \A i \in 1 .. Len(s) :
          s[i].type = "ReturnData" /\ s[i] # ReturnData("publish")
    <3> SUFFICES ASSUME NEW s \in Seq(Response), NEW i \in 1 .. Len(s)
                 PROVE  s[i].type = "ReturnData" /\ s[i] # ReturnData("publish")
      OBVIOUS
    <3>1. s[i] \in Response
      OBVIOUS
    <3> QED  BY <3>1 DEF Response, ReturnData
  <2> HIDE DEF response, session, input
  <2>8. CASE h = response
    <3>1. WellFormed(h.events)
      BY <2>3, <2>8 DEF WellFormed, GrantsFollow, InitsFollow, ReturnData, other
    <3>2. JoinKnown(h.events, h.proto)
      BY <2>3, <2>7, <2>8 DEF JoinKnown
    <3> QED  BY <2>1, <2>3, <2>8, <3>1, <3>2
  <2>9. CASE h = [input EXCEPT !.proto = "Ready"]
    <3>1. h \in Acc /\ h.events = input.events /\ h.proto = "Ready"
      BY <2>5, <2>9 DEF Acc, ProtoState
    <3>2. WellFormed(h.events)
      BY <2>5, <3>1 DEF Handling
    <3>3. JoinKnown(h.events, h.proto)
      BY <2>5, <2>7, <3>1 DEF JoinKnown
    <3> QED  BY <3>1, <3>2, <3>3
  <2> QED  BY <2>6, <2>8, <2>9
<1> QED  BY <1>2, <1>3

---------------------------------------------------------------------------
(***************************************************************************)
(* Media on its way.                                                       *)
(***************************************************************************)

\* The packet of a message keeps what the message has: its flags are guessed, its
\* time and payload are kept, or the payload is the one map of the metadata.
LEMMA PacketOfMedia ==
  ASSUME NEW m \in Media
  PROVE  \E S : /\ Byte \subseteq S
                /\ ToMediaPacket(PacketOf(m)) \in MediaPacketOf(S)
                /\ Len(ToMediaPacket(PacketOf(m)).payload) \in ThreeBytes
<1>1. CASE /\ m \in [kind : {"Video", "Audio"}, timestamp : Word, body : Bytes]
           /\ Len(m.body) \in ThreeBytes
  <2> DEFINE p == PacketOf(m)
  <2>1. p = [kind |-> m.kind, timestamp |-> m.timestamp, payload |-> m.body]
    BY <1>1 DEF PacketOf
  <2>2. p \in Packet
    BY <1>1, <2>1 DEF Packet
  <2>3. ToMediaPacket(p) \in MediaPacketOf(Byte)
    BY <2>2, PacketRoundTrip, MediaPacketIsOfBytes
  <2>4. ToMediaPacket(p).payload = m.body
    BY <2>1 DEF ToMediaPacket
  <2> QED  BY <1>1, <2>3, <2>4
<1>2. CASE m = Metadata([f \in DOMAIN m.body |-> m.body[f]]) /\ DOMAIN m.body \subseteq Field
  <2> DEFINE map == FromMetadata(m.body)
             S == Byte \cup {map}
             q == ToMediaPacket(PacketOf(m))
  <2>1. m.kind = "Metadata"
    BY <1>2 DEF Metadata
  <2>2. PacketOf(m) = [kind |-> "Metadata", timestamp |-> NoTime, payload |-> <<map>>]
    BY <2>1 DEF PacketOf
  <2>4. 0 \in Word /\ 1 \in ThreeBytes
    BY SMT DEF Word, ThreeBytes
  <2>5. <<map>> \in Seq(S) /\ Len(<<map>>) = 1
    <3> HIDE DEF map
    <3> QED  OBVIOUS
  <2> DEFINE p == PacketOf(m)
  <2> HIDE DEF q, map, S, p
  <2>3. /\ p.kind = "Metadata" /\ p.timestamp = NoTime /\ p.payload = <<map>>
        /\ q = ToMediaPacket(p)
    BY <2>2 DEF p, q
  <2>6. q \in MediaPacketOf(S)
    BY <2>3, <2>4, <2>5 DEF MediaPacketOf, ToMediaPacket, IsVideoSequenceHeader,
                            IsAudioSequenceHeader, IsVideoKeyframe, Second
  <2>7. Len(q.payload) \in ThreeBytes
    BY <2>3, <2>4, <2>5 DEF ToMediaPacket
  <2> QED  BY <2>6, <2>7 DEF q, S
<1> QED  BY <1>1, <1>2, MediaAssumption

\* What arrives in a frame is the packet that was sent.
LEMMA ArrivesAsSent ==
  ASSUME NEW m \in Media
  PROVE  Arrived(m) = ToMediaPacket(PacketOf(m))
<1> DEFINE q == ToMediaPacket(PacketOf(m))
           frame == MediaFrame(q)
<1>1. PICK S : Byte \subseteq S /\ q \in MediaPacketOf(S)
  BY PacketOfMedia
<1> HIDE DEF q
<1>2. EncodeMediaPacket(q) \in Seq(S) /\ DecodeMediaPacket(EncodeMediaPacket(q)) = q
  BY <1>1, MediaPacketRoundTrip
<1>3. /\ frame \in [kind : {"Errors", "Init", "Media", "Ok"}, payload : Seq(S)]
      /\ frame.payload = EncodeMediaPacket(q)
  BY <1>2 DEF MediaFrame
<1> HIDE DEF frame
<1>4. DecodeFrame(EncodeFrame(frame)) = frame
  BY <1>1, <1>3, FrameRoundTrip
<1>5. DecodeMediaPacket(DecodeFrame(EncodeFrame(frame)).payload) = q
  BY <1>2, <1>3, <1>4
<1> QED  BY <1>5 DEF Arrived, frame, q

\* And it is packed to the message that a publisher sent, with its full time, its
\* payload and every field of the metadata.
THEOREM PackedAsSent ==
  ASSUME NEW m \in Media
  PROVE  Pack(ToPacket(Arrived(m))) = m
<1> DEFINE p == PacketOf(m)
           q == ToPacket(ToMediaPacket(p))
<1>1. CASE m \in [kind : {"Video", "Audio"}, timestamp : Word, body : Bytes]
  <2>1. p = [kind |-> m.kind, timestamp |-> m.timestamp, payload |-> m.body]
    BY <1>1 DEF PacketOf
  <2>2. m.timestamp # NoTime
    BY <1>1 DEF Word, NoTime
  <2>3. q = [kind |-> m.kind, timestamp |-> m.timestamp, payload |-> m.body]
    BY <2>1, <2>2 DEF ToPacket, ToMediaPacket
  <2> HIDE DEF q
  <2>4. Pack(q) = [kind |-> m.kind, timestamp |-> m.timestamp, body |-> m.body]
    BY <1>1, <2>3 DEF Pack
  <2>5. Pack(q) = m
    BY <1>1, <2>4
  <2> QED  BY <2>5, ArrivesAsSent DEF q
<1>2. CASE m = Metadata([f \in DOMAIN m.body |-> m.body[f]]) /\ DOMAIN m.body \subseteq Field
  <2> DEFINE D == DOMAIN m.body
             map == FromMetadata(m.body)
  <2>1. m.kind = "Metadata" /\ m.body = [f \in D |-> m.body[f]]
    BY <1>2 DEF Metadata
  <2>2. p = [kind |-> "Metadata", timestamp |-> NoTime, payload |-> <<map>>]
    BY <2>1 DEF PacketOf
  <2>3. q.kind = "Metadata" /\ q.payload = <<map>>
    BY <2>2 DEF ToPacket, ToMediaPacket
  <2>4. q.payload[1] = map
    <3> HIDE DEF q, map
    <3> QED  BY <2>3
  <2>5. Pack(q) = Metadata(IntoMetadata(map))
    <3> HIDE DEF q, map
    <3> QED  BY <2>3, <2>4 DEF Pack
  <2>6. m.body \in [D -> {m.body[f] : f \in D}]
    BY <2>1
  <2>7. IntoMetadata(map) = m.body
    BY <1>2, <2>6, MetadataRoundTrip
  <2>8. Metadata(m.body) = m
    BY <1>2, <2>1, Zenon
  <2> QED  BY <2>5, <2>7, <2>8, ArrivesAsSent DEF q
<1> QED  BY <1>1, <1>2, MediaAssumption

\* An HTTP player reads in its tag when it is to be played and where it ends.
LEMMA TaggedAsSent ==
  ASSUME NEW m \in Media
  PROVE  LET p == Arrived(m)
         IN  /\ TagTime(FlvTag(p)) = p.timestamp
             /\ TagLength(FlvTag(p)) = Len(p.payload)
             /\ SubSeq(FlvTag(p), 12, 11 + TagLength(FlvTag(p))) = p.payload
<1> DEFINE p == Arrived(m)
<1>1. PICK S : Byte \subseteq S /\ p \in MediaPacketOf(S) /\ Len(p.payload) \in ThreeBytes
  BY PacketOfMedia, ArrivesAsSent
<1> HIDE DEF p
<1>2. /\ TagTime(FlvTag(p)) = p.timestamp
      /\ TagLength(FlvTag(p)) = Len(p.payload)
      /\ SubSeq(FlvTag(p), 12, 11 + TagLength(FlvTag(p))) = p.payload
  BY <1>1, FlvTagReadable
<1> QED  BY <1>2 DEF p

---------------------------------------------------------------------------
(***************************************************************************)
(* Sequences that the steps make.                                          *)
(***************************************************************************)

\* The rest of a sequence, by its positions.
LEMMA TailIndex ==
  ASSUME NEW S, NEW s \in Seq(S), s # <<>>
  PROVE  /\ Len(s) \in Nat /\ Len(s) >= 1
         /\ Head(s) = s[1] /\ s[1] \in S
         /\ Tail(s) \in Seq(S) /\ Len(Tail(s)) = Len(s) - 1
         /\ \A i \in 1 .. Len(s) - 1 : Tail(s)[i] = s[i + 1]
  OBVIOUS

\* The items of a sequence with one more.
LEMMA AppendIndex ==
  ASSUME NEW S, NEW s \in Seq(S), NEW e \in S
  PROVE  /\ Append(s, e) \in Seq(S) /\ Len(Append(s, e)) = Len(s) + 1
         /\ \A i \in 1 .. Len(s) : Append(s, e)[i] = s[i]
         /\ Append(s, e)[Len(s) + 1] = e
  OBVIOUS

\* What follows upon the event that is handled.
LEMMA RestFollows ==
  ASSUME NEW s \in Seq(EventType), s # <<>>, GrantsFollow(s), InitsFollow(s)
  PROVE  /\ GrantsFollow(Tail(s)) /\ InitsFollow(Tail(s))
         /\ Tail(s) # <<>> /\ Tail(s)[1] = ReturnData("publish") => s[1] = Event("AcquireChannel")
         /\ \A i \in 1 .. Len(Tail(s)) : i = 2 /\ Tail(s)[i].type = "SendInitData" =>
              s[1].type = "JoinChannel" /\ Tail(s)[1].type = "ReturnData"
<1> DEFINE t == Tail(s)
<1>1. /\ Len(s) \in Nat /\ Len(s) >= 1 /\ t \in Seq(EventType) /\ Len(t) = Len(s) - 1
      /\ \A i \in 1 .. Len(s) - 1 : t[i] = s[i + 1]
  BY TailIndex
<1> HIDE DEF t
<1>2. \A i \in 1 .. Len(t) : t[i] = s[i + 1] /\ i + 1 \in 1 .. Len(s)
  BY <1>1
<1>3. GrantsFollow(t)
  <2> SUFFICES ASSUME NEW i \in 2 .. Len(t), t[i] = ReturnData("publish")
               PROVE  t[i - 1] = Event("AcquireChannel")
    BY DEF GrantsFollow
  <2>1. i \in 1 .. Len(t) /\ i - 1 \in 1 .. Len(t) /\ i + 1 \in 2 .. Len(s)
        /\ i - 1 + 1 = i /\ i + 1 - 1 = i
    BY <1>1
  <2>2. t[i] = s[i + 1] /\ t[i - 1] = s[i]
    BY <1>2, <2>1
  <2>3. s[i + 1 - 1] = Event("AcquireChannel")
    <3>1. s[i + 1] = ReturnData("publish")
      BY <2>2
    <3> QED  BY <2>1, <3>1 DEF GrantsFollow
  <2> QED  BY <2>1, <2>2, <2>3
<1>4. InitsFollow(t)
  <2> SUFFICES ASSUME NEW i \in 3 .. Len(t), t[i].type = "SendInitData"
               PROVE  t[i - 1].type = "ReturnData" /\ t[i - 2].type = "JoinChannel"
    BY DEF InitsFollow
  <2>1. i \in 1 .. Len(t) /\ i - 1 \in 1 .. Len(t) /\ i - 2 \in 1 .. Len(t)
        /\ i + 1 \in 3 .. Len(s)
        /\ i - 1 + 1 = i /\ i - 2 + 1 = i - 1 /\ i + 1 - 1 = i /\ i + 1 - 2 = i - 1
    BY <1>1
  <2>2. t[i] = s[i + 1] /\ t[i - 1] = s[i] /\ t[i - 2] = s[i - 1]
    <3>1. t[i] = s[i + 1] /\ t[i - 1] = s[i - 1 + 1] /\ t[i - 2] = s[i - 2 + 1]
      BY <1>2, <2>1, Zenon
    <3> QED  BY <2>1, <3>1
  <2>3. s[i + 1 - 1].type = "ReturnData" /\ s[i + 1 - 2].type = "JoinChannel"
    <3>1. s[i + 1].type = "SendInitData"
      BY <2>2
    <3> QED  BY <2>1, <3>1 DEF InitsFollow
  <2> QED  BY <2>1, <2>2, <2>3
<1>5. ASSUME t # <<>>, t[1] = ReturnData("publish")  PROVE s[1] = Event("AcquireChannel")
  <2>1. 1 \in 1 .. Len(t) /\ 2 \in 2 .. Len(s) /\ 1 + 1 = 2 /\ 2 - 1 = 1
    <3>1. Len(t) # 0
      BY <1>1, <1>5
    <3> QED  BY <1>1, <3>1
  <2>2. s[2] = ReturnData("publish")
    BY <1>2, <1>5, <2>1
  <2>3. s[2 - 1] = Event("AcquireChannel")
    BY <2>1, <2>2, Zenon DEF GrantsFollow
  <2> QED  BY <2>1, <2>3
<1>6. ASSUME 2 \in 1 .. Len(t), t[2].type = "SendInitData"
      PROVE  s[1].type = "JoinChannel" /\ t[1].type = "ReturnData"
  <2>1. 1 \in 1 .. Len(t) /\ 3 \in 3 .. Len(s) /\ 3 - 1 = 2 /\ 3 - 2 = 1 /\ 2 + 1 = 3 /\ 1 + 1 = 2
    BY <1>1, <1>6
  <2>2. t[2] = s[3] /\ t[1] = s[2]
    BY <1>2, <1>6, <2>1
  <2>3. s[3 - 1].type = "ReturnData" /\ s[3 - 2].type = "JoinChannel"
    BY <1>6, <2>1, <2>2, Zenon DEF InitsFollow
  <2> QED  BY <2>1, <2>2, <2>3
<1> QED  BY <1>3, <1>4, <1>5, <1>6 DEF t

\* What the events after the head say of the state in which they end, against what all do.
LEMMA RestDecides ==
  ASSUME NEW s \in Seq(EventType), s # <<>>, NEW p, JoinKnown(s, p)
  PROVE  /\ JoinKnown(Tail(s), p)
         /\ s[1].type = "JoinChannel" /\ UndecidedAfter(Tail(s), 0) => p = "Playing"
         /\ s[1].type \notin Deciding /\ UndecidedAfter(Tail(s), 0) => UndecidedAfter(s, 0)
<1> DEFINE t == Tail(s)
<1>1. /\ Len(s) \in Nat /\ Len(s) >= 1 /\ Len(t) = Len(s) - 1
      /\ \A i \in 1 .. Len(s) - 1 : t[i] = s[i + 1]
  BY TailIndex
<1> HIDE DEF t
<1>2. ASSUME NEW i \in 0 .. Len(t), UndecidedAfter(t, i)  PROVE UndecidedAfter(s, i + 1)
  <2> SUFFICES ASSUME NEW j \in i + 1 + 1 .. Len(s)  PROVE s[j].type \notin Deciding
    BY DEF UndecidedAfter
  <2>1. j - 1 \in i + 1 .. Len(t) /\ j - 1 \in 1 .. Len(s) - 1 /\ j - 1 + 1 = j
    BY <1>1
  <2>2. t[j - 1] = s[j]
    BY <1>1, <2>1
  <2>3. t[j - 1].type \notin Deciding
    BY <1>2, <2>1 DEF UndecidedAfter
  <2> QED  BY <2>2, <2>3
<1>3. JoinKnown(t, p)
  <2> SUFFICES ASSUME NEW i \in 1 .. Len(t), t[i].type = "JoinChannel", UndecidedAfter(t, i)
               PROVE  p = "Playing"
    BY DEF JoinKnown
  <2>1. i \in 0 .. Len(t) /\ i + 1 \in 1 .. Len(s) /\ i \in 1 .. Len(s) - 1
    BY <1>1
  <2>2. s[i + 1].type = "JoinChannel" /\ UndecidedAfter(s, i + 1)
    BY <1>1, <1>2, <2>1
  <2> QED  BY <2>1, <2>2 DEF JoinKnown
<1>4. UndecidedAfter(t, 0) => UndecidedAfter(s, 1)
  BY <1>1, <1>2
<1>5. s[1].type = "JoinChannel" /\ UndecidedAfter(t, 0) => p = "Playing"
  <2>1. 1 \in 1 .. Len(s)
    BY <1>1
  <2> QED  BY <1>4, <2>1 DEF JoinKnown
<1>6. s[1].type \notin Deciding /\ UndecidedAfter(t, 0) => UndecidedAfter(s, 0)
  BY <1>1, <1>4 DEF UndecidedAfter
<1> QED  BY <1>3, <1>5, <1>6 DEF t

\* What is in order can follow upon what it comes after.
LEMMA OrderConcat ==
  ASSUME NEW S, NEW s \in Seq(S), NEW t \in Seq(S), InOrder(s), InOrder(t), Before(s, t)
  PROVE  InOrder(s \o t)
<1> DEFINE w == s \o t
<1>1. /\ Len(s) \in Nat /\ Len(t) \in Nat /\ Len(w) = Len(s) + Len(t)
      /\ \A i \in 1 .. Len(s) : w[i] = s[i]
      /\ \A i \in 1 .. Len(t) : w[Len(s) + i] = t[i]
  BY CutPrefix
<1> HIDE DEF w
<1>2. \A i \in 1 .. Len(w) :
        \/ i \in 1 .. Len(s) /\ w[i] = s[i]
        \/ /\ i - Len(s) \in 1 .. Len(t) /\ i > Len(s)
           /\ w[i] = t[i - Len(s)]
  BY <1>1
<1> SUFFICES ASSUME NEW i \in 1 .. Len(w), NEW j \in 1 .. Len(w), i < j, w[i].join = w[j].join
             PROVE  PartOrder[w[i].part] <= PartOrder[w[j].part]
  BY DEF InOrder, w
<1>3. CASE i \in 1 .. Len(s) /\ j \in 1 .. Len(s)
  BY <1>1, <1>3 DEF InOrder
<1>4. CASE i \in 1 .. Len(s) /\ j - Len(s) \in 1 .. Len(t) /\ w[j] = t[j - Len(s)]
  BY <1>1, <1>4 DEF Before
<1>5. CASE /\ i - Len(s) \in 1 .. Len(t) /\ w[i] = t[i - Len(s)]
           /\ j - Len(s) \in 1 .. Len(t) /\ w[j] = t[j - Len(s)]
  BY <1>1, <1>5 DEF InOrder
<1> QED  BY <1>1, <1>2, <1>3, <1>4, <1>5

\* What comes before both of two sequences comes before their concatenation.
LEMMA BeforeConcat ==
  ASSUME NEW S, NEW s, NEW t \in Seq(S), NEW u \in Seq(S), Before(s, t), Before(s, u)
  PROVE  Before(s, t \o u)
<1> DEFINE w == t \o u
<1>1. /\ Len(t) \in Nat /\ Len(u) \in Nat /\ Len(w) = Len(t) + Len(u)
      /\ \A i \in 1 .. Len(t) : w[i] = t[i]
      /\ \A i \in 1 .. Len(u) : w[Len(t) + i] = u[i]
  BY CutPrefix
<1> HIDE DEF w
<1> SUFFICES ASSUME NEW i \in 1 .. Len(s), NEW j \in 1 .. Len(w), s[i].join = w[j].join
             PROVE  PartOrder[s[i].part] <= PartOrder[w[j].part]
  BY DEF Before, w
<1>2. CASE j \in 1 .. Len(t)
  BY <1>1, <1>2 DEF Before
<1>3. CASE j - Len(t) \in 1 .. Len(u)
  <2>1. w[j] = u[j - Len(t)]
    BY <1>1, <1>3
  <2> QED  BY <1>3, <2>1 DEF Before
<1> QED  BY <1>1, <1>2, <1>3

\* What is queued for the player, and what was written.
Queued == [part : DOMAIN PartOrder, join : 0 .. joins, packet : Arriving]

Written ==
  [part : DOMAIN PartOrder, join : 0 .. joins, media : {Pack(ToPacket(p)) : p \in Arriving}]

\* The types of what is queued for a player and of what was written to it, item by item.
LEMMA BackTyped ==
  ASSUME TypeOK
  PROVE  /\ queue \in Seq(Queued) /\ written \in Seq(Written)
         /\ \A i \in 1 .. Len(queue) :
              queue[i] \in Queued /\ queue[i].part \in DOMAIN PartOrder /\ queue[i].join \in 0 .. joins
         /\ \A i \in 1 .. Len(written) :
              /\ written[i] \in Written
              /\ written[i].part \in DOMAIN PartOrder /\ written[i].join \in 0 .. joins
<1>1. queue \in Seq(Queued) /\ written \in Seq(Written)
  BY DEF TypeOK, Queued, Written
<1>2. \A x \in Queued : x.part \in DOMAIN PartOrder /\ x.join \in 0 .. joins
  BY DEF Queued
<1>3. \A x \in Written : x.part \in DOMAIN PartOrder /\ x.join \in 0 .. joins
  BY DEF Written
<1> QED  BY <1>1, <1>2, <1>3

\* Items of the last Join, and of which parts.
PartsOfJoin(s, P) == \A i \in 1 .. Len(s) : s[i].join = joins /\ s[i].part \in P

\* Parts of one Join, put one after the other.
LEMMA PartsConcat ==
  ASSUME NEW S, NEW s \in Seq(S), NEW t \in Seq(S), NEW P, NEW Q,
         PartsOfJoin(s, P), PartsOfJoin(t, Q)
  PROVE  PartsOfJoin(s \o t, P \cup Q)
<1> DEFINE w == s \o t
<1>1. /\ Len(s) \in Nat /\ Len(t) \in Nat /\ Len(w) = Len(s) + Len(t)
      /\ \A i \in 1 .. Len(s) : w[i] = s[i]
      /\ \A i \in 1 .. Len(t) : w[Len(s) + i] = t[i]
  BY CutPrefix
<1> HIDE DEF w
<1> SUFFICES ASSUME NEW i \in 1 .. Len(w)  PROVE w[i].join = joins /\ w[i].part \in P \cup Q
  BY DEF PartsOfJoin, w
<1>2. CASE i \in 1 .. Len(s)
  BY <1>1, <1>2 DEF PartsOfJoin
<1>3. CASE i - Len(s) \in 1 .. Len(t)
  <2>1. w[i] = t[i - Len(s)]
    BY <1>1, <1>3
  <2> QED  BY <1>3, <2>1 DEF PartsOfJoin
<1> QED  BY <1>1, <1>2, <1>3

\* What the cache holds in a slot is typed, in order, and of that part only.
LEMMA SlotTyped ==
  ASSUME TypeOK, NEW part \in DOMAIN PartOrder, NEW S, NEW x \in Slot(part, S)
  PROVE  x \in Seq(Queued) /\ InOrder(x) /\ PartsOfJoin(x, {part})
<1>1. CASE x = <<>>
  BY <1>1 DEF InOrder, PartsOfJoin
<1>2. CASE x \in {<<Back(part, p)>> : p \in Arriving \cap S}
  <2>1. PICK p \in Arriving : x = <<Back(part, p)>>
    BY <1>2
  <2> DEFINE b == Back(part, p)
  <2>2. b \in Queued /\ b.join = joins /\ b.part = part
    BY DEF Back, Queued, TypeOK
  <2> HIDE DEF b
  <2>3. x \in Seq(Queued) /\ Len(x) = 1 /\ x[1] = b
    BY <2>1, <2>2 DEF b
  <2>4. InOrder(x)
    BY <2>3 DEF InOrder
  <2>5. PartsOfJoin(x, {part})
    BY <2>2, <2>3 DEF PartsOfJoin
  <2> QED  BY <2>3, <2>4, <2>5
<1> QED  BY <1>1, <1>2 DEF Slot

\* Each part comes before the next.
LEMMA PartsBefore ==
  ASSUME NEW s, NEW t, NEW P \in SUBSET DOMAIN PartOrder, NEW Q \in SUBSET DOMAIN PartOrder,
         PartsOfJoin(s, P), PartsOfJoin(t, Q),
         \A a \in P, b \in Q : PartOrder[a] <= PartOrder[b]
  PROVE  Before(s, t)
  BY DEF PartsOfJoin, Before

\* The cached packets: of this Join, and in order.
LEMMA CachedTyped ==
  ASSUME TypeOK, NEW packets \in CachedPackets
  PROVE  /\ packets \in Seq(Queued) /\ InOrder(packets)
         /\ \A i \in 1 .. Len(packets) : packets[i].join = joins
<1>1. PICK m \in MetadataSlot, v \in VideoSlot, a \in AudioSlot, g \in GopSlot :
        packets = m \o v \o a \o g
  BY SMTT(30) DEF CachedPackets
<1>2. {"metadata", "video", "audio", "gop"} \subseteq DOMAIN PartOrder
  <2>1. DOMAIN PartOrder = {"metadata", "video", "audio", "gop", "live"}
    BY DEF PartOrder
  <2> QED
    BY <2>1
<1>3. /\ m \in Seq(Queued) /\ InOrder(m) /\ PartsOfJoin(m, {"metadata"})
      /\ v \in Seq(Queued) /\ InOrder(v) /\ PartsOfJoin(v, {"video"})
      /\ a \in Seq(Queued) /\ InOrder(a) /\ PartsOfJoin(a, {"audio"})
      /\ g \in Seq(Queued) /\ InOrder(g) /\ PartsOfJoin(g, {"gop"})
  BY <1>2, SlotTyped, Zenon DEF MetadataSlot, VideoSlot, AudioSlot, GopSlot
<1>4. /\ m \o v \in Seq(Queued) /\ PartsOfJoin(m \o v, {"metadata"} \cup {"video"})
      /\ InOrder(m \o v)
  <2>1. Before(m, v)
    <3>1. \A x \in {"metadata"}, y \in {"video"} : PartOrder[x] <= PartOrder[y]
      BY DEF PartOrder
    <3> QED  BY <1>2, <1>3, <3>1, PartsBefore
  <2> QED  BY <1>3, <2>1, OrderConcat, PartsConcat, CutPrefix
<1>5. /\ m \o v \o a \in Seq(Queued)
      /\ PartsOfJoin(m \o v \o a, {"metadata"} \cup {"video"} \cup {"audio"})
      /\ InOrder(m \o v \o a)
  <2>1. Before(m \o v, a)
    <3>1. \A x \in {"metadata"} \cup {"video"}, y \in {"audio"} : PartOrder[x] <= PartOrder[y]
      BY DEF PartOrder
    <3> QED  BY <1>2, <1>3, <1>4, <3>1, PartsBefore
  <2> QED  BY <1>3, <1>4, <2>1, OrderConcat, PartsConcat, CutPrefix
<1>6. /\ packets \in Seq(Queued) /\ InOrder(packets)
      /\ PartsOfJoin(packets, {"metadata"} \cup {"video"} \cup {"audio"} \cup {"gop"})
  <2>1. Before(m \o v \o a, g)
    <3>1. \A x \in {"metadata"} \cup {"video"} \cup {"audio"}, y \in {"gop"} :
            PartOrder[x] <= PartOrder[y]
      BY DEF PartOrder
    <3> QED  BY <1>2, <1>3, <1>5, <3>1, PartsBefore
  <2> QED  BY <1>1, <1>3, <1>5, <2>1, OrderConcat, PartsConcat, CutPrefix
<1> QED  BY <1>6 DEF PartsOfJoin

---------------------------------------------------------------------------
(***************************************************************************)
(* The invariant is inductive.                                             *)
(***************************************************************************)

\* A session begins with the invariant.
LEMMA InitSession == Init => SessionInv
<1> SUFFICES ASSUME Init PROVE SessionInv
  OBVIOUS
<1>1. TypeOK
  <2>1. /\ events = <<>> /\ queue = <<>> /\ written = <<>>
        /\ lib = [accepted |-> FALSE, streams |-> [s \in Streams |-> "idle"]]
    BY DEF Init
  <2>2. lib \in Library
    BY <2>1 DEF Library
  <2>3. 0 \in 0 .. MaxChunks /\ 0 \in 0 .. MaxLive
    BY BoundsAssumption
  <2>4. /\ proto \in ProtoState /\ state \in ConnState /\ first \in BOOLEAN /\ joins \in Nat
        /\ made \in Nat /\ released \in Nat /\ granted \in Nat
        /\ ended \subseteq 1 .. made /\ replaced \subseteq 1 .. made /\ forwarded \subseteq Arriving
        /\ chunks \in 0 .. MaxChunks /\ live \in 0 .. MaxLive
    BY <2>3 DEF Init, ProtoState, ConnState
  <2>5. \A S : <<>> \in Seq(S)
    OBVIOUS
  <2> QED  BY <2>1, <2>2, <2>4, <2>5 DEF TypeOK
<1>2. ChannelsInv
  BY FS_EmptySet DEF Init, ChannelsInv, ReleasedEach, Idle
<1>3. events = <<>> /\ queue = <<>> /\ written = <<>> /\ granted = 0 /\ made = 0
  BY DEF Init
<1>4. GrantsInv
  BY <1>3 DEF GrantsInv, GrantsFollow
<1>5. PlaysInv
  BY <1>3 DEF Init, PlaysInv, JoinKnown
<1>6. HandshakeInv
  BY DEF Init, HandshakeInv, FreshLibrary
<1>7. InitsInv
  BY <1>3 DEF InitsInv, InitsFollow
<1>8. OrderInv
  BY <1>3 DEF OrderInv, InOrder, Before
<1> QED  BY <1>1, <1>2, <1>4, <1>5, <1>6, <1>7, <1>8 DEF SessionInv

\* The event that is handled, and what is left of the chunk.
LEMMA Consumed ==
  ASSUME TypeOK, NEW type, Upcoming(type)
  PROVE  /\ events # <<>> /\ events[1].type = type /\ events[1] \in EventType
         /\ Head(events) = events[1] /\ Tail(events) \in Seq(EventType)
  BY TailIndex DEF TypeOK, Upcoming

\* Events come from the socket, are handled one by one, or are dropped; all else
\* leaves them alone.
EventAction ==
  Respond \/ Forward \/ AcquireChannel \/ JoinChannel \/ JoinFails \/ SendInitData \/ LeaveOrRelease

QuietAction ==
  ReadFails \/ ReadEnd \/ Silence \/ EventFails \/ WriteBack \/ WriteBackFails \/ Receive
    \/ RingClosed \/ Return \/ DisconnectFails

\* Every step reads a chunk, handles an event, or does neither.
LEMMA NextSplit == Next => ReadChunk \/ EventAction \/ QuietAction
  BY DEF Next, Connection, HandleEvent, EventAction, QuietAction

\* What is left alone by a step that neither reads a chunk nor handles an event.
LEMMA QuietLeaves ==
  ASSUME QuietAction
  PROVE  /\ UNCHANGED <<proto, lib, made, granted, first, joins, replaced, forwarded, chunks>>
         /\ events' = <<>>
         /\ state' = "Playing" => state = "Playing"
         /\ state' = "Playing" => events = <<>>
  BY DEF QuietAction, ReadFails, ReadEnd, Silence, EventFails, WriteBack, WriteBackFails, Receive,
         RingClosed, Return, DisconnectFails, Fail, Idle, EndChannel, NoChannel, sessionVars, channelVars, playVars

\* Handling an event takes it from the events and leaves the rest of the protocol alone.
LEMMA EventLeaves ==
  ASSUME EventAction
  PROVE  /\ events # <<>> /\ events' = Tail(events)
         /\ UNCHANGED <<proto, lib, written, chunks, live>>
         /\ UNCHANGED queue \/ SendInitData
  BY DEF EventAction, Respond, Forward, AcquireChannel, JoinChannel, JoinFails, SendInitData,
         LeaveOrRelease, EndChannel, NoChannel, Upcoming, sessionVars, channelVars, playVars

\* Which of the actions it is that handles an event.
LEMMA HeadDecides ==
  ASSUME TypeOK, EventAction
  PROVE  /\ events[1].type = "ReturnData" => Respond
         /\ events[1].type = "AcquireChannel" => AcquireChannel
         /\ events[1].type = "JoinChannel" => JoinChannel \/ JoinFails
<1>1. Respond => Upcoming("ReturnData")
  BY DEF Respond
<1>2. Forward => Upcoming("SendPacket")
  BY DEF Forward
<1>3. AcquireChannel => Upcoming("AcquireChannel")
  BY DEF AcquireChannel
<1>4. JoinChannel \/ JoinFails => Upcoming("JoinChannel")
  BY DEF JoinChannel, JoinFails
<1>5. SendInitData => Upcoming("SendInitData")
  BY DEF SendInitData
<1>6. LeaveOrRelease => Upcoming("ReleaseChannel") \/ Upcoming("LeaveChannel")
  BY DEF LeaveOrRelease
<1> QED  BY <1>1, <1>2, <1>3, <1>4, <1>5, <1>6, Consumed DEF EventAction

\* What a chunk brings.
LEMMA ReadBrings ==
  ASSUME TypeOK, HandshakeInv, ReadChunk
  PROVE  /\ proto' \in ProtoState /\ lib' \in Library /\ events' \in Seq(EventType)
         /\ WellFormed(events') /\ JoinKnown(events', proto')
         /\ proto' = "HandshakePending" => FreshLibrary(lib')
         /\ state \in {"Initializing", "Publishing"} /\ Idle
         /\ UNCHANGED <<channelVars, playVars, state, granted>>
         /\ chunks < MaxChunks /\ chunks' = chunks + 1
<1>1. PICK chunk \in Chunk : \E h \in Handled(chunk) :
        proto' = h.proto /\ lib' = h.lib /\ events' = h.events
  BY DEF ReadChunk
<1>2. PICK h \in Handled(chunk) : proto' = h.proto /\ lib' = h.lib /\ events' = h.events
  BY <1>1
<1>3. /\ h \in Acc /\ WellFormed(h.events) /\ JoinKnown(h.events, h.proto)
      /\ h.proto = "HandshakePending" => FreshLibrary(h.lib)
  BY HandledFacts
<1>4. h.proto \in ProtoState /\ h.lib \in Library /\ h.events \in Seq(EventType)
  BY <1>3 DEF Acc
<1> QED  BY <1>2, <1>3, <1>4 DEF ReadChunk

\* Every step keeps GrantsInv: a channel is made for each publish that is granted.
LEMMA GrantsStep ==
  ASSUME TypeOK, HandshakeInv, InitsInv, GrantsInv, Next
  PROVE  GrantsInv'
<1>1. CASE ReadChunk
  <2>1. /\ WellFormed(events') /\ UNCHANGED <<granted, made>>
    BY <1>1, ReadBrings DEF channelVars
  <2>2. events' # <<>> => events'[1] # ReturnData("publish")
    <3>1. events' \in Seq(EventType)
      BY <1>1, ReadBrings
    <3>2. events' # <<>> => 1 \in 1 .. Len(events')
      BY <3>1
    <3> QED  BY <2>1, <3>2 DEF WellFormed
  <2> QED  BY <2>1, <2>2 DEF GrantsInv, WellFormed
<1>2. CASE QuietAction
  BY <1>2, QuietLeaves DEF GrantsInv, GrantsFollow
<1>3. CASE EventAction
  <2>1. events # <<>> /\ events \in Seq(EventType) /\ events' = Tail(events)
    BY <1>3, EventLeaves DEF TypeOK
  <2>2. /\ GrantsFollow(events')
        /\ events' # <<>> /\ events'[1] = ReturnData("publish") => events[1] = Event("AcquireChannel")
    BY <2>1, RestFollows DEF GrantsInv, InitsInv
  <2>3. granted' <= made'
    <3>1. CASE Respond
      <4>1. /\ granted' = (IF Head(events).grants = "publish" THEN granted + 1 ELSE granted)
            /\ made' = made
        BY <3>1 DEF Respond, channelVars
      <4>2. events[1].type = "ReturnData" /\ events[1] \in EventType /\ Head(events) = events[1]
        BY <3>1, Consumed DEF Respond
      <4>3. events[1].grants = "publish" => events[1] = ReturnData("publish")
        BY <4>2 DEF EventType, ReturnData
      <4> QED  BY <2>1, <4>1, <4>2, <4>3 DEF GrantsInv, TypeOK
    <3>2. CASE AcquireChannel
      BY <3>2 DEF AcquireChannel, GrantsInv, TypeOK
    <3>3. CASE Forward \/ JoinChannel \/ JoinFails \/ SendInitData \/ LeaveOrRelease
      BY <3>3 DEF Forward, JoinChannel, JoinFails, SendInitData, LeaveOrRelease, EndChannel,
                  NoChannel, channelVars, GrantsInv
    <3> QED  BY <1>3, <3>1, <3>2, <3>3 DEF EventAction
  <2>4. events[1] = Event("AcquireChannel") => granted' < made'
    <3> HAVE events[1] = Event("AcquireChannel")
    <3>1. events[1].type = "AcquireChannel"
      BY DEF Event
    <3>2. AcquireChannel
      BY <1>3, <3>1, HeadDecides
    <3> QED  BY <3>2 DEF AcquireChannel, GrantsInv, TypeOK
  <2> QED  BY <2>2, <2>3, <2>4 DEF GrantsInv
<1> QED  BY <1>1, <1>2, <1>3, NextSplit

\* Every step keeps PlaysInv: who plays has a Protocol that plays.
LEMMA PlaysStep ==
  ASSUME TypeOK, HandshakeInv, PlaysInv, Next
  PROVE  PlaysInv'
<1>1. CASE ReadChunk
  <2>1. JoinKnown(events', proto') /\ state' # "Playing"
    BY <1>1, ReadBrings
  <2> QED  BY <2>1 DEF PlaysInv
<1>2. CASE QuietAction
  <2>1. /\ proto' = proto /\ events' = <<>>
        /\ state' = "Playing" => state = "Playing" /\ events = <<>>
    BY <1>2, QuietLeaves
  <2>2. state' = "Playing" => proto = "Playing"
    BY <2>1 DEF PlaysInv, UndecidedAfter
  <2>3. JoinKnown(events', proto')
    BY <2>1 DEF JoinKnown
  <2> QED  BY <2>1, <2>2, <2>3 DEF PlaysInv
<1>3. CASE EventAction
  <2>1. events # <<>> /\ events \in Seq(EventType) /\ events' = Tail(events) /\ proto' = proto
    BY <1>3, EventLeaves DEF TypeOK
  <2>2. /\ JoinKnown(events', proto)
        /\ events[1].type = "JoinChannel" /\ UndecidedAfter(events', 0) => proto = "Playing"
        /\ events[1].type \notin Deciding /\ UndecidedAfter(events', 0) => UndecidedAfter(events, 0)
    BY <2>1, RestDecides DEF PlaysInv
  <2>3. \/ events[1].type = "JoinChannel"
        \/ state' # "Playing"
        \/ events[1].type \notin Deciding /\ state' = state
    <3>1. CASE JoinChannel
      BY <3>1, Consumed DEF JoinChannel
    <3>2. CASE AcquireChannel \/ JoinFails \/ LeaveOrRelease
      BY <3>2 DEF AcquireChannel, JoinFails, LeaveOrRelease
    <3>3. CASE Respond
      BY <3>3, Consumed DEF Respond, Deciding
    <3>4. CASE Forward
      BY <3>4, Consumed DEF Forward, Deciding
    <3>5. CASE SendInitData
      BY <3>5, Consumed DEF SendInitData, Deciding
    <3> QED  BY <1>3, <3>1, <3>2, <3>3, <3>4, <3>5 DEF EventAction
  <2>4. state' = "Playing" /\ UndecidedAfter(events', 0) => proto = "Playing"
    BY <2>2, <2>3 DEF PlaysInv
  <2> QED  BY <2>1, <2>2, <2>4 DEF PlaysInv
<1> QED  BY <1>1, <1>2, <1>3, NextSplit

\* Every step keeps HandshakeInv: before the end of the handshake the library has seen
\* nothing.
LEMMA HandshakeStep ==
  ASSUME TypeOK, HandshakeInv, Next
  PROVE  HandshakeInv'
<1>1. CASE ReadChunk
  <2>1. proto' = "HandshakePending" => FreshLibrary(lib')
    BY <1>1, ReadBrings
  <2> QED  BY <2>1 DEF HandshakeInv, FreshLibrary
<1>2. CASE QuietAction \/ EventAction
  <2>1. UNCHANGED <<proto, lib>>
    BY <1>2, QuietLeaves, EventLeaves
  <2> QED  BY <2>1 DEF HandshakeInv, FreshLibrary
<1> QED  BY <1>1, <1>2, NextSplit

\* The ways in which a step changes the channels of a connection.
Untouched == UNCHANGED <<made, ended, released, replaced>>

\* disconnect() has told the channel, and cannot tell the manager.
EndedUnreleased ==
  /\ state = "Publishing" /\ "manager" \in Faults
  /\ ended' = ended \cup {made} /\ UNCHANGED <<made, released, replaced>>
  /\ state' = "failed" /\ Idle'

\* Every step does one of eight things to the channels of a connection.
LEMMA ChannelEffects ==
  ASSUME TypeOK, HandshakeInv, Next
  PROVE  \/ Untouched /\ state' = state /\ (state = "failed" /\ Idle => Idle')
         \/ Untouched /\ state \notin {"Publishing", "failed"} /\ state' \in {"Disconnecting", "returned"}
         \/ Fail
         \/ EndChannel /\ state' = "Disconnecting" /\ (state = "failed" => ~Idle)
         \/ /\ made' = made + 1 /\ Replace /\ state' = "Publishing" /\ ~Idle
            /\ UNCHANGED <<ended, released>>
         \/ Replace /\ state' = "Playing" /\ UNCHANGED <<made, ended, released>> /\ ~Idle
         \/ Untouched /\ state = "Publishing" /\ state' = "failed" /\ Idle'
         \/ EndedUnreleased
<1>1. CASE ReadChunk
  BY <1>1, ReadBrings DEF Untouched, channelVars
<1>2. CASE EventAction
  <2>1. ~Idle
    BY <1>2, EventLeaves DEF Idle
  <2>2. CASE Respond \/ Forward \/ SendInitData
    BY <2>1, <2>2 DEF Respond, Forward, SendInitData, Untouched, channelVars
  <2>3. CASE AcquireChannel
    BY <2>1, <2>3 DEF AcquireChannel
  <2>4. CASE JoinChannel
    BY <2>1, <2>4 DEF JoinChannel
  <2>5. CASE JoinFails \/ LeaveOrRelease
    BY <2>1, <2>5 DEF JoinFails, LeaveOrRelease
  <2> QED  BY <1>2, <2>2, <2>3, <2>4, <2>5 DEF EventAction
<1>3. CASE QuietAction
  <2>1. CASE ReadFails \/ Silence \/ EventFails
    BY <2>1 DEF ReadFails, Silence, EventFails
  <2>2. CASE ReadEnd
    BY <2>2 DEF ReadEnd
  <2>3. CASE WriteBack
    BY <2>3 DEF WriteBack, Untouched, channelVars, Idle
  <2>4. CASE WriteBackFails
    BY <2>4 DEF WriteBackFails, Idle
  <2>5. CASE Receive
    BY <2>5 DEF Receive, Untouched, channelVars, Idle
  <2>6. CASE RingClosed \/ Return
    BY <2>6 DEF RingClosed, Return, Untouched, channelVars
  <2>7. CASE DisconnectFails
    BY <2>7 DEF DisconnectFails, EndedUnreleased, Untouched, NoChannel, channelVars, Idle
  <2> QED  BY <1>3, <2>1, <2>2, <2>3, <2>4, <2>5, <2>6, <2>7 DEF QuietAction
<1> QED  BY <1>1, <1>2, <1>3, NextSplit

\* Every step keeps ChannelsInv: the channels made, ended, released and replaced add up.
LEMMA ChannelsStep ==
  ASSUME TypeOK, ChannelsInv, HandshakeInv, Next
  PROVE  ChannelsInv' /\ ended' \subseteq 1 .. made' /\ replaced' \subseteq 1 .. made' /\ made' \in Nat
<1>1. /\ made \in Nat /\ ended \subseteq 1 .. made /\ replaced \subseteq 1 .. made
  BY DEF TypeOK
<1>2. CASE Untouched /\ state' = state /\ (state = "failed" /\ Idle => Idle')
  BY <1>1, <1>2 DEF Untouched, ChannelsInv, ReleasedEach
<1>3. CASE Untouched /\ state \notin {"Publishing", "failed"} /\ state' \in {"Disconnecting", "returned"}
  BY <1>1, <1>3 DEF Untouched, ChannelsInv, ReleasedEach
<1>4. CASE Fail
  <2>1. UNCHANGED <<made, ended, released, replaced>> /\ state' = "failed" /\ Idle'
    BY <1>4 DEF Fail, channelVars, Idle
  <2> QED  BY <1>1, <2>1 DEF ChannelsInv, ReleasedEach
<1>5. CASE EndChannel /\ state' = "Disconnecting" /\ (state = "failed" => ~Idle)
  <2>1. state # "failed"
    BY <1>5 DEF ChannelsInv
  <2>2. CASE state = "Publishing"
    <3>1. ended' = ended \cup {made} /\ released' = released + 1 /\ UNCHANGED <<made, replaced>>
      BY <1>5, <2>2 DEF EndChannel
    <3>2. made \in 1 .. made /\ made \notin ended /\ made \notin replaced
      BY <2>2 DEF ChannelsInv
    <3>3. IsFiniteSet(ended) /\ released = Cardinality(ended) /\ Cardinality(ended) \in Nat
      BY <2>2, FS_CardinalityType DEF ChannelsInv, ReleasedEach
    <3>4. IsFiniteSet(ended') /\ Cardinality(ended') = Cardinality(ended) + 1
      BY <3>1, <3>2, <3>3, FS_AddElement
    <3>5. ended' \cap replaced' = {} /\ 1 .. made' \ (ended' \cup replaced') \subseteq {}
      BY <2>2, <3>1, <3>2 DEF ChannelsInv
    <3> QED  BY <1>1, <1>5, <3>1, <3>2, <3>3, <3>4, <3>5 DEF ChannelsInv, ReleasedEach
  <2>3. CASE state # "Publishing"
    <3>1. UNCHANGED channelVars
      BY <1>5, <2>3 DEF EndChannel, NoChannel
    <3> QED  BY <1>1, <1>5, <2>1, <2>3, <3>1 DEF channelVars, ChannelsInv, ReleasedEach
  <2> QED  BY <2>2, <2>3
<1>6. ASSUME Replace, ~Idle
      PROVE  /\ ended \cap replaced' = {} /\ replaced' \subseteq 1 .. made
             /\ 1 .. made \ (ended \cup replaced') = {}
  BY <1>1, <1>6 DEF Replace, ChannelsInv
<1>7. CASE /\ made' = made + 1 /\ Replace /\ state' = "Publishing" /\ ~Idle
           /\ UNCHANGED <<ended, released>>
  <2>1. 1 .. made' = 1 .. made \cup {made'} /\ made' \notin 1 .. made
    BY <1>1, <1>7
  <2> QED  BY <1>1, <1>6, <1>7, <2>1 DEF ChannelsInv, ReleasedEach
<1>8. CASE Replace /\ state' = "Playing" /\ UNCHANGED <<made, ended, released>> /\ ~Idle
  BY <1>1, <1>6, <1>8 DEF ChannelsInv, ReleasedEach
<1>9. CASE Untouched /\ state = "Publishing" /\ state' = "failed" /\ Idle'
  BY <1>1, <1>9 DEF Untouched, ChannelsInv, ReleasedEach
<1>10. CASE EndedUnreleased
  <2>1. made \in 1 .. made /\ made \notin ended /\ made \notin replaced
    BY <1>10 DEF ChannelsInv, EndedUnreleased
  <2>2. IsFiniteSet(ended) /\ released = Cardinality(ended)
    BY <1>10 DEF ChannelsInv, ReleasedEach, EndedUnreleased
  <2>3. IsFiniteSet(ended') /\ Cardinality(ended') = Cardinality(ended) + 1
    BY <1>10, <2>1, <2>2, FS_AddElement DEF EndedUnreleased
  <2>4. ended' \cap replaced' = {} /\ 1 .. made' \ (ended' \cup replaced') \subseteq {}
    BY <1>10, <2>1 DEF ChannelsInv, EndedUnreleased
  <2>5. ReleasedEach'
    BY <1>10, <2>2, <2>3 DEF EndedUnreleased, ReleasedEach
  <2> QED  BY <1>1, <1>10, <2>1, <2>3, <2>4, <2>5 DEF ChannelsInv, EndedUnreleased
<1> QED  BY <1>2, <1>3, <1>4, <1>5, <1>7, <1>8, <1>9, <1>10, ChannelEffects

\* Every step keeps InitsInv: the cached packets are asked for next after a Join.
LEMMA InitsStep ==
  ASSUME TypeOK, HandshakeInv, GrantsInv, InitsInv, Next
  PROVE  InitsInv'
<1>1. CASE ReadChunk
  <2>1. WellFormed(events')
    BY <1>1, ReadBrings
  <2> QED  BY <2>1 DEF InitsInv, WellFormed
<1>2. CASE QuietAction
  <2>1. events' = <<>>
    BY <1>2, QuietLeaves
  <2> QED  BY <2>1 DEF InitsInv, InitsFollow
<1>3. CASE EventAction
  <2>1. events # <<>> /\ events \in Seq(EventType) /\ events' = Tail(events)
    BY <1>3, EventLeaves DEF TypeOK
  <2>2. /\ InitsFollow(events')
        /\ \A i \in 1 .. Len(events') : i = 2 /\ events'[i].type = "SendInitData" =>
             events[1].type = "JoinChannel" /\ events'[1].type = "ReturnData"
    BY <2>1, RestFollows DEF GrantsInv, InitsInv
  <2>3. ASSUME 2 \in 1 .. Len(events'), events'[2].type = "SendInitData", state' = "Playing"
        PROVE  NoneOfJoin(joins', written') /\ NoneOfJoin(joins', queue')
    <3>1. JoinChannel
      <4>1. events[1].type = "JoinChannel"
        BY <2>2, <2>3
      <4>2. JoinFails => state' # "Playing"
        BY DEF JoinFails
      <4> QED  BY <1>3, <2>3, <4>1, <4>2, HeadDecides
    <3>2. joins' = joins + 1 /\ UNCHANGED <<written, queue>>
      BY <3>1 DEF JoinChannel
    <3>3. joins \in Nat /\ \A n \in 0 .. joins : n # joins + 1
      BY DEF TypeOK
    <3>4. \A i \in 1 .. Len(written) : written[i].join \in 0 .. joins
      BY BackTyped
    <3>5. \A i \in 1 .. Len(queue) : queue[i].join \in 0 .. joins
      BY BackTyped
    <3> QED  BY <3>2, <3>3, <3>4, <3>5 DEF NoneOfJoin
  <2>4. ASSUME 1 \in 1 .. Len(events'), events'[1].type = "SendInitData", state' = "Playing"
        PROVE  NoneOfJoin(joins', written') /\ NoneOfJoin(joins', queue')
    <3>1. 2 \in 1 .. Len(events) /\ events[2].type = "SendInitData"
      BY <2>1, <2>4, TailIndex
    <3>2. /\ events[1].type = "ReturnData"
          /\ state = "Playing" => NoneOfJoin(joins, written) /\ NoneOfJoin(joins, queue)
      BY <3>1 DEF InitsInv
    <3>3. Respond
      BY <1>3, <3>2, HeadDecides
    <3>4. UNCHANGED <<state, joins, written, queue>>
      BY <3>3 DEF Respond, playVars
    <3> QED  BY <2>4, <3>2, <3>4 DEF NoneOfJoin
  <2>5. ASSUME NEW i \in 1 .. Len(events'), i <= 2, events'[i].type = "SendInitData"
        PROVE  /\ i = 2 => events'[1].type = "ReturnData"
               /\ state' = "Playing" => NoneOfJoin(joins', written') /\ NoneOfJoin(joins', queue')
    <3>1. i = 1 \/ i = 2
      BY <2>5
    <3> QED  BY <2>2, <2>3, <2>4, <2>5, <3>1
  <2> QED  BY <2>2, <2>5 DEF InitsInv
<1> QED  BY <1>1, <1>2, <1>3, NextSplit

\* Every step keeps OrderInv: of each Join the cached parts in their order, then the ring.
LEMMA OrderStep ==
  ASSUME TypeOK, HandshakeInv, InitsInv, OrderInv, Next
  PROVE  OrderInv'
<1>0. queue \in Seq(Queued) /\ written \in Seq(Written) /\ joins \in Nat
  BY BackTyped DEF TypeOK
<1>1. CASE UNCHANGED <<written, queue>>
  BY <1>1 DEF OrderInv, InOrder, Before
<1>2. CASE written' = written /\ queue' = <<>>
  BY <1>2 DEF OrderInv, InOrder, Before
<1>3. ASSUME queue # <<>>
      PROVE  InOrder(Tail(queue)) /\ Before(written, Tail(queue)) /\ Before(<<Head(queue)>>, Tail(queue))
  <2> DEFINE t == Tail(queue)
  <2>1. /\ Len(queue) \in Nat /\ Len(queue) >= 1 /\ Head(queue) = queue[1]
        /\ Len(t) = Len(queue) - 1 /\ \A i \in 1 .. Len(queue) - 1 : t[i] = queue[i + 1]
    BY <1>0, <1>3, TailIndex
  <2> HIDE DEF t
  <2>2. \A i \in 1 .. Len(t) : t[i] = queue[i + 1] /\ i + 1 \in 1 .. Len(queue) /\ 1 < i + 1
    BY <2>1
  <2>3. InOrder(t)
    <3> SUFFICES ASSUME NEW i \in 1 .. Len(t), NEW j \in 1 .. Len(t), i < j, t[i].join = t[j].join
                 PROVE  PartOrder[t[i].part] <= PartOrder[t[j].part]
      BY DEF InOrder
    <3>1. i + 1 < j + 1
      BY <2>1
    <3> QED  BY <2>2, <3>1 DEF OrderInv, InOrder
  <2>4. Before(written, t)
    BY <2>2 DEF OrderInv, Before
  <2>5. Before(<<Head(queue)>>, t)
    <3>1. 1 \in 1 .. Len(queue)
      BY <2>1
    <3> SUFFICES ASSUME NEW j \in 1 .. Len(t), queue[1].join = t[j].join
                 PROVE  PartOrder[queue[1].part] <= PartOrder[t[j].part]
      BY <2>1 DEF Before
    <3> QED  BY <2>2, <3>1 DEF OrderInv, InOrder
  <2> QED  BY <2>3, <2>4, <2>5 DEF t
<1>4. CASE WriteBack
  <2> DEFINE x == [part |-> Head(queue).part, join |-> Head(queue).join,
                   media |-> Pack(ToPacket(Head(queue).packet))]
  <2>1. queue # <<>> /\ queue' = Tail(queue) /\ written' = Append(written, x)
    BY <1>4 DEF WriteBack
  <2>2. /\ x \in Written /\ x.part = Head(queue).part /\ x.join = Head(queue).join
        /\ Head(queue) = queue[1] /\ 1 \in 1 .. Len(queue)
    <3>1. Head(queue) \in Queued /\ Head(queue) = queue[1] /\ 1 \in 1 .. Len(queue)
      BY <1>0, <2>1, TailIndex
    <3> QED  BY <3>1 DEF Queued, Written
  <2> HIDE DEF x
  <2>3. written' = written \o <<x>> /\ <<x>> \in Seq(Written)
    BY <1>0, <2>1, <2>2
  <2>4. InOrder(<<x>>) /\ Before(written, <<x>>)
    BY <2>2 DEF OrderInv, InOrder, Before
  <2>5. InOrder(written')
    BY <1>0, <2>3, <2>4, OrderConcat DEF OrderInv
  <2>6. Before(<<x>>, Tail(queue))
    <3>1. \A y : Len(<<y>>) = 1 /\ <<y>>[1] = y
      OBVIOUS
    <3>2. Before(<<Head(queue)>>, Tail(queue))
      BY <1>3, <2>1
    <3> QED  BY <2>2, <3>1, <3>2 DEF Before
  <2>7. Before(written', Tail(queue))
    <3>1. /\ Len(written') = Len(written) + 1 /\ Len(written) \in Nat
          /\ \A i \in 1 .. Len(written) : written'[i] = written[i]
          /\ written'[Len(written) + 1] = x
      BY <1>0, <2>1, <2>2, AppendIndex
    <3>2. \A i \in 1 .. Len(written') : i \in 1 .. Len(written) \/ i = Len(written) + 1
      BY <3>1
    <3>3. Before(written, Tail(queue))
      BY <1>3, <2>1
    <3> DEFINE t == Tail(queue)
    <3>4. ASSUME NEW i \in 1 .. Len(written'), NEW j \in 1 .. Len(t), written'[i].join = t[j].join
          PROVE  PartOrder[written'[i].part] <= PartOrder[t[j].part]
      <4>1. CASE i \in 1 .. Len(written)
        BY <3>1, <3>3, <3>4, <4>1 DEF Before
      <4>2. CASE i = Len(written) + 1
        <5>1. Len(<<x>>) = 1 /\ <<x>>[1] = x /\ written'[i] = x
          BY <3>1, <4>2
        <5> QED  BY <2>6, <3>4, <5>1 DEF Before
      <4> QED  BY <3>2, <4>1, <4>2
    <3> QED  BY <3>4 DEF Before
  <2> QED  BY <1>3, <2>1, <2>5, <2>7 DEF OrderInv
<1>5. CASE WriteBackFails
  <2>1. written' = written /\ (queue' = <<>> \/ (queue # <<>> /\ queue' = Tail(queue)))
    BY <1>5 DEF WriteBackFails, Fail
  <2>2. CASE queue # <<>> /\ queue' = Tail(queue)
    BY <1>3, <2>1, <2>2 DEF OrderInv, InOrder, Before
  <2> QED  BY <1>2, <2>1, <2>2
<1>6. CASE SendInitData
  <2>1. written' = written /\ joins' = joins
    BY <1>6 DEF SendInitData
  <2>2. CASE state = "Playing" /\ ~first
    <3>1. PICK packets \in CachedPackets : queue' = queue \o packets
      BY <1>6, <2>2 DEF SendInitData
    <3>2. /\ packets \in Seq(Queued) /\ InOrder(packets)
          /\ \A i \in 1 .. Len(packets) : packets[i].join = joins
      BY CachedTyped
    <3>3. NoneOfJoin(joins, written) /\ NoneOfJoin(joins, queue)
      <4>1. events # <<>> /\ events[1].type = "SendInitData"
        BY <1>6, Consumed DEF SendInitData
      <4>2. 1 \in 1 .. Len(events)
        BY <4>1 DEF TypeOK
      <4> QED  BY <2>2, <4>1, <4>2 DEF InitsInv
    <3>4. Before(written, packets) /\ Before(queue, packets)
      BY <3>2, <3>3 DEF NoneOfJoin, Before
    <3>5. InOrder(queue')
      BY <1>0, <3>1, <3>2, <3>4, OrderConcat DEF OrderInv
    <3>6. Before(written, queue')
      BY <1>0, <3>1, <3>2, <3>4, BeforeConcat DEF OrderInv
    <3> QED  BY <2>1, <3>5, <3>6 DEF OrderInv
  <2>3. CASE ~(state = "Playing" /\ ~first)
    BY <1>1, <1>6, <2>3 DEF SendInitData
  <2> QED  BY <2>2, <2>3
<1>7. CASE Receive
  <2>1. PICK p \in Arriving : queue' = <<Back("live", p)>>
    BY <1>7 DEF Receive
  <2>2. written' = written
    BY <1>7 DEF Receive
  <2>3. InOrder(queue')
    BY <2>1 DEF InOrder
  <2>4. Before(written, queue')
    <3>1. \A part \in DOMAIN PartOrder : PartOrder[part] <= PartOrder["live"]
      BY DEF PartOrder
    <3>2. \A i \in 1 .. Len(written) : written[i].part \in DOMAIN PartOrder
      BY BackTyped
    <3>3. \A j \in 1 .. Len(queue') : queue'[j].part = "live"
      BY <2>1 DEF Back
    <3> QED  BY <3>1, <3>2, <3>3 DEF Before
  <2> QED  BY <2>2, <2>3, <2>4 DEF OrderInv
<1>8. CASE ReadChunk \/ ReadEnd \/ RingClosed \/ Return \/ Respond \/ Forward \/ AcquireChannel
           \/ JoinChannel \/ JoinFails \/ LeaveOrRelease
  BY <1>1, <1>8 DEF ReadChunk, ReadEnd, RingClosed, Return, Respond, Forward, AcquireChannel,
                    JoinChannel, JoinFails, LeaveOrRelease, playVars
<1>9. CASE ReadFails \/ Silence \/ EventFails
  BY <1>2, <1>9 DEF ReadFails, Silence, EventFails, Fail
<1>10. CASE DisconnectFails
  BY <1>2, <1>10 DEF DisconnectFails
<1> QED  BY <1>4, <1>5, <1>6, <1>7, <1>8, <1>9, <1>10 DEF Next, Connection, HandleEvent

\* The return queue and what is written stay typed, also when joins grows.
LEMMA BackStep ==
  ASSUME TypeOK, HandshakeInv, Next
  PROVE  joins' \in Nat /\ queue' \in Seq(Queued') /\ written' \in Seq(Written')
<1>0. queue \in Seq(Queued) /\ written \in Seq(Written) /\ joins \in Nat
  BY BackTyped DEF TypeOK
<1>1. CASE JoinChannel
  <2>1. joins' = joins + 1 /\ UNCHANGED <<queue, written>>
    BY <1>1 DEF JoinChannel
  <2>2. 0 .. joins \subseteq 0 .. joins'
    BY <1>0, <2>1
  <2>3. Queued \subseteq Queued' /\ Written \subseteq Written'
    BY <2>2 DEF Queued, Written
  <2>4. queue \in Seq(Queued') /\ written \in Seq(Written')
    BY <1>0, <2>3, SeqMonotonic
  <2> QED  BY <1>0, <2>1, <2>4
<1>2. ASSUME ~JoinChannel  PROVE joins' = joins
  <2>1. ReadChunk => joins' = joins
    BY ReadBrings DEF playVars
  <2>2. QuietAction => joins' = joins
    BY QuietLeaves
  <2>3. EventAction => joins' = joins
    BY <1>2 DEF EventAction, Respond, Forward, AcquireChannel, JoinFails, SendInitData,
                LeaveOrRelease, playVars
  <2> QED  BY <2>1, <2>2, <2>3, NextSplit
<1>3. ASSUME ~JoinChannel  PROVE queue' \in Seq(Queued) /\ written' \in Seq(Written)
  <2>1. CASE UNCHANGED <<queue, written>>
    BY <1>0, <2>1
  <2>2. CASE written' = written /\ (queue' = <<>> \/ (queue # <<>> /\ queue' = Tail(queue)))
    <3>1. <<>> \in Seq(Queued)
      OBVIOUS
    <3>2. queue # <<>> => Tail(queue) \in Seq(Queued)
      BY <1>0, TailIndex
    <3> QED  BY <1>0, <2>2, <3>1, <3>2
  <2>3. CASE WriteBack
    <3> DEFINE x == [part |-> Head(queue).part, join |-> Head(queue).join,
                     media |-> Pack(ToPacket(Head(queue).packet))]
    <3>1. queue # <<>> /\ queue' = Tail(queue) /\ written' = Append(written, x)
      BY <2>3 DEF WriteBack
    <3>2. Head(queue) \in Queued /\ Tail(queue) \in Seq(Queued)
      BY <1>0, <3>1, TailIndex
    <3>3. x \in Written
      BY <3>2 DEF Queued, Written
    <3> HIDE DEF x
    <3> QED  BY <1>0, <3>1, <3>2, <3>3
  <2>4. CASE SendInitData
    <3>1. CASE UNCHANGED queue
      BY <1>0, <2>4, <3>1 DEF SendInitData
    <3>2. CASE \E packets \in CachedPackets : queue' = queue \o packets
      <4>1. PICK packets \in CachedPackets : queue' = queue \o packets
        BY <3>2
      <4>2. packets \in Seq(Queued)
        BY CachedTyped
      <4>3. queue \o packets \in Seq(Queued)
        BY <1>0, <4>2
      <4> QED  BY <1>0, <2>4, <4>1, <4>3 DEF SendInitData
    <3> QED  BY <2>4, <3>1, <3>2 DEF SendInitData
  <2>5. CASE Receive
    <3>1. PICK p \in Arriving : queue' = <<Back("live", p)>>
      BY <2>5 DEF Receive
    <3> DEFINE b == Back("live", p)
    <3>2. b \in Queued
      BY <1>0 DEF Back, Queued, PartOrder
    <3> HIDE DEF b
    <3>3. <<b>> \in Seq(Queued)
      BY <3>2
    <3> QED  BY <1>0, <2>5, <3>1, <3>3 DEF Receive, b
  <2>6. CASE WriteBackFails \/ ReadFails \/ Silence \/ EventFails \/ DisconnectFails
    <3>1. written' = written /\ (queue' = <<>> \/ (queue # <<>> /\ queue' = Tail(queue)))
      BY <2>6 DEF WriteBackFails, ReadFails, Silence, EventFails, DisconnectFails, Fail
    <3> QED  BY <2>2, <3>1
  <2>7. CASE ReadChunk \/ ReadEnd \/ RingClosed \/ Return \/ Respond \/ Forward \/ AcquireChannel
             \/ JoinFails \/ LeaveOrRelease
    BY <2>1, <2>7 DEF ReadChunk, ReadEnd, RingClosed, Return, Respond, Forward, AcquireChannel,
                      JoinFails, LeaveOrRelease, playVars
  <2> QED  BY <1>3, <2>3, <2>4, <2>5, <2>6, <2>7 DEF Next, Connection, HandleEvent
<1>4. ASSUME joins' = joins  PROVE Queued' = Queued /\ Written' = Written
  BY <1>4 DEF Queued, Written
<1> QED  BY <1>0, <1>1, <1>2, <1>3, <1>4

\* Every step keeps the types.
LEMMA TypeStep ==
  ASSUME TypeOK, ChannelsInv, HandshakeInv, Next
  PROVE  TypeOK'
<1>1. proto' \in ProtoState /\ lib' \in Library /\ events' \in Seq(EventType)
  <2>1. CASE ReadChunk
    BY <2>1, ReadBrings
  <2>2. CASE QuietAction
    BY <2>2, QuietLeaves DEF TypeOK
  <2>3. CASE EventAction
    <3>1. events # <<>> /\ events \in Seq(EventType) /\ events' = Tail(events)
      BY <2>3, EventLeaves DEF TypeOK
    <3> QED  BY <2>3, <3>1, EventLeaves, TailIndex DEF TypeOK
  <2> QED  BY <2>1, <2>2, <2>3, NextSplit
<1>2. state' \in ConnState
  <2>1. state \in ConnState
    BY DEF TypeOK
  <2> QED  BY <2>1, ChannelEffects DEF ConnState, Fail, EndedUnreleased
<1>3. first' \in BOOLEAN
  <2>1. EventAction => first' \in BOOLEAN
    BY DEF TypeOK, EventAction, Respond, Forward, AcquireChannel, JoinChannel, JoinFails,
           SendInitData, LeaveOrRelease, playVars
  <2>2. ReadChunk => first' = first
    BY ReadBrings DEF playVars
  <2> QED  BY <2>1, <2>2, QuietLeaves, NextSplit DEF TypeOK
<1>4. released' \in Nat
  <2>1. released \in Nat
    BY DEF TypeOK
  <2> QED  BY <2>1, ChannelEffects DEF Untouched, Fail, channelVars, EndChannel, NoChannel, EndedUnreleased
<1>5. granted' \in Nat
  <2>1. granted \in Nat
    BY DEF TypeOK
  <2>2. EventAction => granted' \in {granted, granted + 1}
    BY DEF EventAction, Respond, Forward, AcquireChannel, JoinChannel, JoinFails, SendInitData,
           LeaveOrRelease
  <2> QED  BY <2>1, <2>2, QuietLeaves, ReadBrings, NextSplit
<1>6. forwarded' \subseteq Arriving
  <2>1. forwarded \subseteq Arriving
    BY DEF TypeOK
  <2>2. CASE Forward
    <3>1. events[1].type = "SendPacket" /\ events[1] \in EventType /\ Head(events) = events[1]
      BY <2>2, Consumed DEF Forward
    <3>2. PICK m \in Media : Head(events).packet = PacketOf(m)
      BY <3>1 DEF EventType
    <3>3. ToMediaPacket(Head(events).packet) = Arrived(m) /\ Arrived(m) \in Arriving
      BY <3>2, ArrivesAsSent DEF Arriving
    <3> QED  BY <2>1, <2>2, <3>3 DEF Forward
  <2>3. CASE AcquireChannel
    BY <2>3 DEF AcquireChannel
  <2>4. CASE Respond \/ JoinChannel \/ JoinFails \/ SendInitData \/ LeaveOrRelease
    BY <2>1, <2>4 DEF Respond, JoinChannel, JoinFails, SendInitData, LeaveOrRelease, EndChannel,
                      NoChannel, channelVars
  <2>5. CASE ReadChunk \/ QuietAction
    <3>1. forwarded' = forwarded
      BY <2>5, QuietLeaves, ReadBrings DEF channelVars
    <3> QED  BY <2>1, <3>1
  <2> QED  BY <2>2, <2>3, <2>4, <2>5, NextSplit DEF EventAction
<1>7. chunks' \in 0 .. MaxChunks /\ live' \in 0 .. MaxLive
  <2>1. chunks \in 0 .. MaxChunks /\ live \in 0 .. MaxLive /\ MaxChunks \in Nat /\ MaxLive \in Nat
    BY BoundsAssumption DEF TypeOK
  <2>2. chunks' = chunks \/ (chunks < MaxChunks /\ chunks' = chunks + 1)
    BY QuietLeaves, EventLeaves, ReadBrings, NextSplit
  <2>3. live' = live \/ (live < MaxLive /\ live' = live + 1)
    <3>1. ReadChunk => live' = live
      BY ReadBrings DEF playVars
    <3>2. QuietAction => live' = live \/ (live < MaxLive /\ live' = live + 1)
      BY DEF QuietAction, ReadFails, ReadEnd, Silence, EventFails, WriteBack, WriteBackFails, Receive,
             RingClosed, Return, DisconnectFails, Fail, playVars
    <3> QED  BY <3>1, <3>2, EventLeaves, NextSplit
  <2> QED  BY <2>1, <2>2, <2>3
<1>8. made' \in Nat /\ ended' \subseteq 1 .. made' /\ replaced' \subseteq 1 .. made'
  BY ChannelsStep
<1>9. joins' \in Nat /\ queue' \in Seq(Queued') /\ written' \in Seq(Written')
  BY BackStep
<1> QED  BY <1>1, <1>2, <1>3, <1>4, <1>5, <1>6, <1>7, <1>8, <1>9 DEF TypeOK, Queued, Written

\* Every step of a session keeps the invariant.
LEMMA SessionStep == SessionInv /\ [Next]_vars => SessionInv'
<1> SUFFICES ASSUME SessionInv, [Next]_vars PROVE SessionInv'
  OBVIOUS
<1>1. CASE Next
  BY <1>1, TypeStep, ChannelsStep, GrantsStep, PlaysStep, HandshakeStep, InitsStep, OrderStep
     DEF SessionInv
<1>2. CASE UNCHANGED vars
  <2>1. UNCHANGED <<state, proto, lib, events, queue, written, joins>>
        /\ UNCHANGED <<made, ended, released, replaced, granted>>
    BY <1>2 DEF vars, sessionVars, channelVars, playVars
  <2>2. TypeOK'
    BY <1>2 DEF SessionInv, TypeOK, vars, sessionVars, channelVars, playVars
  <2>3. ChannelsInv'
    BY <2>1 DEF SessionInv, ChannelsInv, ReleasedEach, Idle
  <2>4. GrantsInv'
    BY <2>1 DEF SessionInv, GrantsInv
  <2>5. PlaysInv'
    BY <2>1 DEF SessionInv, PlaysInv
  <2>6. HandshakeInv'
    BY <2>1 DEF SessionInv, HandshakeInv
  <2>7. InitsInv'
    BY <2>1 DEF SessionInv, InitsInv
  <2>8. OrderInv'
    BY <2>1 DEF SessionInv, OrderInv
  <2> QED  BY <2>2, <2>3, <2>4, <2>5, <2>6, <2>7, <2>8 DEF SessionInv
<1> QED  BY <1>1, <1>2

---------------------------------------------------------------------------
(***************************************************************************)
(* What follows from it, for every number of streams, chunks and messages, *)
(* and for all media.                                                      *)
(***************************************************************************)

\* The invariant holds of every session.
THEOREM SessionInvariant == Spec => []SessionInv
<1> QED  BY InitSession, SessionStep, PTL DEF Spec

\* The state of a session is typed: among the rest, every packet that it forwards
\* or is sent is one that a publisher's message becomes.
THEOREM TypeCorrect == Spec => []TypeOK
<1>1. SessionInv => TypeOK
  BY DEF SessionInv
<1> QED  BY <1>1, SessionInvariant, PTL

\* Whatever the peer asks for and whatever fails, every channel that was made is ended
\* or replaced, but the one that is published to; each that was ended is released,
\* but the last of a connection that found the manager gone between the two sends of
\* disconnect() (conn.rs:188-194); and leave to publish is given only when a channel
\* was made for it.
THEOREM ChannelsAreAccounted == Spec => []ChannelsAccounted
<1>1. SessionInv => ChannelsAccounted
  BY DEF SessionInv, ChannelsInv, ReleasedEach, GrantsInv, ChannelsAccounted
<1> QED  BY <1>1, SessionInvariant, PTL

\* A connection that plays knows the stream it writes to, although the handshake
\* sets the state of the protocol after it handled what came with it (rtmp.rs:96).
THEOREM StreamIdIsKnown == Spec => []StreamIdKnown
<1>1. SessionInv => StreamIdKnown
  BY DEF SessionInv, PlaysInv, UndecidedAfter, StreamIdKnown, Idle
<1> QED  BY <1>1, SessionInvariant, PTL

\* What a player is written for one Join is in the order of the parts.
THEOREM HeadersAreFirst == Spec => []HeadersFirst
<1>1. SessionInv => HeadersFirst
  BY DEF SessionInv, OrderInv, InOrder, HeadersFirst
<1> QED  BY <1>1, SessionInvariant, PTL

\* A player gets what a publisher sent, over RTMP and over HTTP.
THEOREM RelayIsUnchanged == Spec => []RelayedUnchanged
<1>1. SessionInv => RelayedUnchanged
  <2> SUFFICES ASSUME TypeOK PROVE RelayedUnchanged
    BY DEF SessionInv
  <2>1. ASSUME NEW p \in Arriving  PROVE Pack(ToPacket(p)) \in Media
    BY PackedAsSent DEF Arriving
  <2>2. \A p \in forwarded : p \in Arriving
    BY DEF TypeOK
  <2>3. OverRtmp
    <3>1. ASSUME NEW i \in 1 .. Len(written)  PROVE written[i].media \in Media
      <4>1. written[i] \in Written
        BY BackTyped
      <4>2. PICK p \in Arriving : written[i].media = Pack(ToPacket(p))
        BY <4>1 DEF Written
      <4> QED  BY <2>1, <4>2
    <3> QED  BY <2>1, <2>2, <3>1 DEF OverRtmp
  <2>4. OverFlv
    <3> SUFFICES ASSUME NEW p \in forwarded
                 PROVE  /\ TagTime(FlvTag(p)) = p.timestamp
                        /\ TagLength(FlvTag(p)) = Len(p.payload)
                        /\ SubSeq(FlvTag(p), 12, 11 + TagLength(FlvTag(p))) = p.payload
      BY DEF OverFlv
    <3>1. PICK m \in Media : p = Arrived(m)
      BY <2>2 DEF Arriving
    <3> QED  BY <3>1, TaggedAsSent
  <2> QED  BY <2>3, <2>4 DEF RelayedUnchanged
<1> QED  BY <1>1, SessionInvariant, PTL
=============================================================================
