---------------------------- MODULE FanoutProofs ----------------------------
(***************************************************************************)
(* Theorems about Fanout, for any set of players, any ring capacity, any   *)
(* number of packets and either setting of full_gop.                       *)
(***************************************************************************)
EXTENDS Fanout, TLAPS, SequenceTheorems

(***************************************************************************)
(* MediaCache first: what set_cache does to a cache, for every cache and   *)
(* every packet.                                                           *)
(***************************************************************************)

(***************************************************************************)
(* The cache functions respect their types.                                *)
(***************************************************************************)

\* The slots of a cache are empty or packets, and the GOP is a sequence.
LEMMA CacheSlots ==
  ASSUME NEW c \in Cache
  PROVE  /\ c.metadata \in MediaPacket \cup {NoPacket}
         /\ c.video_seq_header \in MediaPacket \cup {NoPacket}
         /\ c.audio_seq_header \in MediaPacket \cup {NoPacket}
         /\ c.gop \in Seq(MediaPacket)
<1>1. c.gop \in Seq(GopFrames) /\ GopFrames \subseteq MediaPacket
  BY DEF Cache, GopFrames
<1>2. c.gop \in Seq(MediaPacket)
  BY <1>1
<1> QED
  BY <1>2 DEF Cache, Metadatas, VideoHeaders, AudioHeaders

\* set_cache maps caches to caches: each class of packet goes to its slot.
LEMMA SetCacheType ==
  ASSUME NEW c \in Cache, NEW p \in MediaPacket
  PROVE  SetCache(c, p) \in Cache
<1>1. SetGop(c.gop, p) \in Seq(GopFrames)
  <2>1. c.gop \in Seq(GopFrames)
    BY DEF Cache
  <2>2. (IsKeyFrame(p) \/ (IsInterFrame(p) /\ FullGop)) => p \in GopFrames
    BY DEF GopFrames, IsGopFrame
  <2> QED
    BY <2>1, <2>2 DEF SetGop
<1>2. /\ IsMetadata(p) => p \in Metadatas
      /\ IsVideoHeader(p) => p \in VideoHeaders
      /\ IsAudioHeader(p) => p \in AudioHeaders
  BY DEF Metadatas, VideoHeaders, AudioHeaders
<1> QED
  BY <1>1, <1>2 DEF SetCache, Cache

\* What a joining player is sent is a sequence of packets.
LEMMA InitPacketsType ==
  ASSUME NEW c \in Cache
  PROVE  InitPackets(c) \in Seq(MediaPacket)
<1>1. \A slot \in MediaPacket \cup {NoPacket} : Present(slot) \in Seq(MediaPacket)
  BY DEF Present
<1>2. /\ Present(c.metadata) \in Seq(MediaPacket)
      /\ Present(c.video_seq_header) \in Seq(MediaPacket)
      /\ Present(c.audio_seq_header) \in Seq(MediaPacket)
      /\ c.gop \in Seq(MediaPacket)
  BY <1>1, CacheSlots
<1> QED
  BY <1>2 DEF InitPackets

(***************************************************************************)
(* set_cache keeps a cache what the packets handled so far make it.        *)
(***************************************************************************)

\* Packets are told apart by their timestamps, which increase.
Increasing(h) ==
  \A i, j \in 1 .. Len(h) : i < j => h[i].timestamp < h[j].timestamp

Later(p, h) == \A i \in 1 .. Len(h) : h[i].timestamp < p.timestamp

\* Once there has been a key frame there is a GOP.
GopStarted(gop, h) ==
  \A i \in 1 .. Len(h) : IsKeyFrame(h[i]) => gop # <<>>

\* The three header slots: a packet of the slot's class takes it.
LEMMA SlotStep ==
  ASSUME NEW h \in Seq(MediaPacket), NEW p \in MediaPacket, NEW slot,
         NEW S, S \subseteq MediaPacket,
         IsLast(h, slot, S)
  PROVE  IsLast(Append(h, p), IF p \in S THEN p ELSE slot, S)
<1> DEFINE g == Append(h, p)
<1>1. /\ Len(g) = Len(h) + 1 /\ Len(h) \in Nat
      /\ \A i \in 1 .. Len(h) : g[i] = h[i]
      /\ g[Len(h) + 1] = p
  OBVIOUS
<1> HIDE DEF g
<1>2. CASE p \in S
  <2>1. p # NoPacket
    BY NoPacketAssumption
  <2>2. \A j \in (Len(h) + 1) + 1 .. Len(g) : g[j] \notin S
    BY <1>1
  <2>3. Len(h) + 1 \in 1 .. Len(g)
    BY <1>1
  <2> QED
    BY <1>1, <1>2, <2>1, <2>2, <2>3 DEF IsLast, g
<1>3. CASE p \notin S /\ slot = NoPacket
  BY <1>1, <1>3 DEF IsLast, g
<1>4. CASE p \notin S /\ slot # NoPacket
  <2>1. PICK i \in 1 .. Len(h) :
          h[i] = slot /\ slot \in S /\ \A j \in i + 1 .. Len(h) : h[j] \notin S
    BY <1>4 DEF IsLast
  <2>2. /\ i \in 1 .. Len(g) /\ g[i] = slot /\ slot \in S
        /\ \A j \in i + 1 .. Len(g) : g[j] \notin S
    BY <1>1, <1>4, <2>1
  <2> QED
    BY <1>4, <2>2 DEF IsLast, g
<1> QED
  BY <1>2, <1>3, <1>4

\* The GOP: a key frame starts it anew, an inter frame extends it.
LEMMA GopStep ==
  ASSUME NEW h \in Seq(MediaPacket), NEW p \in MediaPacket,
         NEW gop \in Seq(MediaPacket),
         Later(p, h), IsGopOf(gop, h), GopStarted(gop, h)
  PROVE  /\ IsGopOf(SetGop(gop, p), Append(h, p))
         /\ GopStarted(SetGop(gop, p), Append(h, p))
<1> DEFINE g == Append(h, p)
           n == Len(h)
<1>1. /\ Len(g) = n + 1 /\ n \in Nat
      /\ \A i \in 1 .. n : g[i] = h[i]
      /\ g[n + 1] = p
  OBVIOUS
<1> HIDE DEF g
<1>2. CASE IsKeyFrame(p)
  <2>1. SetGop(gop, p) = <<p>>
    BY <1>2 DEF SetGop
  <2>2. \A i \in 1 .. n : ~InLastGop(g, i, n + 1)
    BY <1>1, <1>2 DEF InLastGop
  <2>3. InLastGop(g, n + 1, n + 1)
    BY <1>1, <1>2 DEF InLastGop, IsGopFrame
  <2>4. IsGopOf(<<p>>, g)
    <3>1. \A i \in 1 .. n + 1 : InLastGop(g, i, n + 1) => i = n + 1
      BY <1>1, <2>2
    <3>2. Len(<<p>>) = 1 /\ <<p>>[1] = p
      OBVIOUS
    <3>3. \A i \in 1 .. Len(g) : InLastGop(g, i, Len(g)) =>
            \E m \in 1 .. Len(<<p>>) : <<p>>[m] = g[i]
      BY <1>1, <3>1, <3>2
    <3>4. \A m \in 1 .. Len(<<p>>) : \E i \in 1 .. Len(g) :
            InLastGop(g, i, Len(g)) /\ <<p>>[m] = g[i]
      BY <1>1, <2>3, <3>2
    <3>5. \A m, k \in 1 .. Len(<<p>>) :
            m < k => <<p>>[m].timestamp < <<p>>[k].timestamp
      BY <3>2
    <3> QED
      BY <3>3, <3>4, <3>5 DEF IsGopOf
  <2> QED
    BY <2>1, <2>4 DEF GopStarted, g
<1>3. CASE ~IsKeyFrame(p)
  <2>1. \A i \in 1 .. n : InLastGop(g, i, n + 1) <=> InLastGop(h, i, n)
    <3> SUFFICES ASSUME NEW i \in 1 .. n
                 PROVE  InLastGop(g, i, n + 1) <=> InLastGop(h, i, n)
      OBVIOUS
    <3>1. g[i] = h[i] /\ \A k \in 1 .. i : g[k] = h[k]
      BY <1>1
    <3>2. (\A j \in i + 1 .. n + 1 : ~IsKeyFrame(g[j]))
          <=> (\A j \in i + 1 .. n : ~IsKeyFrame(h[j]))
      <4>1. \A j \in i + 1 .. n : g[j] = h[j] /\ j \in i + 1 .. n + 1
        BY <1>1
      <4>2. \A j \in i + 1 .. n + 1 : j \in i + 1 .. n \/ j = n + 1
        BY <1>1
      <4> QED
        BY <1>1, <1>3, <4>1, <4>2
    <3> QED
      BY <3>1, <3>2 DEF InLastGop
  <2>2. CASE IsInterFrame(p) /\ FullGop /\ gop # <<>>
    <3>1. SetGop(gop, p) = Append(gop, p)
      BY <1>3, <2>2 DEF SetGop
    <3>2. /\ Len(Append(gop, p)) = Len(gop) + 1 /\ Len(gop) \in Nat \ {0}
          /\ \A m \in 1 .. Len(gop) : Append(gop, p)[m] = gop[m]
          /\ Append(gop, p)[Len(gop) + 1] = p
      BY <2>2
    <3>3. \A m \in 1 .. Len(gop) : \E i \in 1 .. n : InLastGop(h, i, n) /\ gop[m] = h[i]
      BY DEF IsGopOf
    <3>4. InLastGop(g, n + 1, n + 1)
      <4>1. PICK i \in 1 .. n : InLastGop(h, i, n)
        BY <3>2, <3>3
      <4>2. PICK k \in 1 .. i : IsKeyFrame(h[k])
        BY <4>1 DEF InLastGop
      <4>3. k \in 1 .. n + 1 /\ IsKeyFrame(g[k])
        BY <1>1, <4>2
      <4> QED
        BY <1>1, <2>2, <4>3 DEF InLastGop, IsGopFrame
    <3>5. \A i \in 1 .. n + 1 : InLastGop(g, i, n + 1) =>
            \E m \in 1 .. Len(gop) + 1 : Append(gop, p)[m] = g[i]
      <4> SUFFICES ASSUME NEW i \in 1 .. n + 1, InLastGop(g, i, n + 1)
                   PROVE  \E m \in 1 .. Len(gop) + 1 : Append(gop, p)[m] = g[i]
        OBVIOUS
      <4>1. CASE i = n + 1
        BY <1>1, <3>2, <4>1
      <4>2. CASE i \in 1 .. n
        <5>1. PICK m \in 1 .. Len(gop) : gop[m] = h[i]
          BY <2>1, <4>2 DEF IsGopOf
        <5> QED
          BY <1>1, <3>2, <4>2, <5>1
      <4> QED
        BY <1>1, <4>1, <4>2
    <3>6. \A m \in 1 .. Len(gop) + 1 : \E i \in 1 .. n + 1 :
            InLastGop(g, i, n + 1) /\ Append(gop, p)[m] = g[i]
      <4> SUFFICES ASSUME NEW m \in 1 .. Len(gop) + 1
                   PROVE  \E i \in 1 .. n + 1 :
                            InLastGop(g, i, n + 1) /\ Append(gop, p)[m] = g[i]
        OBVIOUS
      <4>1. CASE m = Len(gop) + 1
        BY <1>1, <3>2, <3>4, <4>1
      <4>2. CASE m \in 1 .. Len(gop)
        <5>1. PICK i \in 1 .. n : InLastGop(h, i, n) /\ gop[m] = h[i]
          BY <3>3, <4>2
        <5> QED
          BY <1>1, <2>1, <3>2, <4>2, <5>1
      <4> QED
        BY <3>2, <4>1, <4>2
    <3>7. \A m \in 1 .. Len(gop) : gop[m].timestamp < p.timestamp
      BY <3>3 DEF Later
    <3>8. \A m, k \in 1 .. Len(gop) + 1 :
            m < k => Append(gop, p)[m].timestamp < Append(gop, p)[k].timestamp
      <4> SUFFICES ASSUME NEW m \in 1 .. Len(gop) + 1, NEW k \in 1 .. Len(gop) + 1, m < k
                   PROVE  Append(gop, p)[m].timestamp < Append(gop, p)[k].timestamp
        OBVIOUS
      <4>1. CASE k = Len(gop) + 1
        BY <3>2, <3>7, <4>1
      <4>2. CASE k \in 1 .. Len(gop)
        BY <3>2, <4>2 DEF IsGopOf
      <4> QED
        BY <3>2, <4>1, <4>2
    <3>9. IsGopOf(Append(gop, p), g)
      <4>1. /\ \A i \in 1 .. Len(g) : InLastGop(g, i, Len(g)) =>
                 \E m \in 1 .. Len(Append(gop, p)) : Append(gop, p)[m] = g[i]
            /\ \A m \in 1 .. Len(Append(gop, p)) : \E i \in 1 .. Len(g) :
                 InLastGop(g, i, Len(g)) /\ Append(gop, p)[m] = g[i]
        <5>1. Len(g) = n + 1 /\ Len(Append(gop, p)) = Len(gop) + 1
          BY <1>1, <3>2
        <5> QED
          BY <3>5, <3>6, <5>1, Zenon
      <4>2. \A m, k \in 1 .. Len(Append(gop, p)) :
              m < k => Append(gop, p)[m].timestamp < Append(gop, p)[k].timestamp
        BY <3>2, <3>8
      <4> QED
        BY <4>1, <4>2 DEF IsGopOf
    <3> QED
      BY <3>1, <3>2, <3>9 DEF GopStarted, g
  <2>3. CASE ~(IsInterFrame(p) /\ FullGop /\ gop # <<>>)
    <3>1. SetGop(gop, p) = gop
      BY <1>3, <2>3 DEF SetGop
    <3>2. ~InLastGop(g, n + 1, n + 1)
      <4>1. CASE ~(IsInterFrame(p) /\ FullGop)
        BY <1>1, <1>3, <4>1 DEF InLastGop, IsGopFrame
      <4>2. CASE gop = <<>>
        <5>1. \A k \in 1 .. n : ~IsKeyFrame(h[k])
          BY <4>2 DEF GopStarted
        <5> QED
          BY <1>1, <1>3, <5>1 DEF InLastGop
      <4> QED
        BY <2>3, <4>1, <4>2
    <3>3. IsGopOf(gop, g)
      <4>1. \A i \in 1 .. Len(g) : InLastGop(g, i, Len(g)) =>
              i \in 1 .. n /\ InLastGop(h, i, n) /\ g[i] = h[i]
        BY <1>1, <2>1, <3>2
      <4>2. \A i \in 1 .. n :
              InLastGop(h, i, n) => i \in 1 .. Len(g) /\ InLastGop(g, i, Len(g)) /\ g[i] = h[i]
        BY <1>1, <2>1
      <4>3. \A i \in 1 .. Len(g) : InLastGop(g, i, Len(g)) =>
              \E m \in 1 .. Len(gop) : gop[m] = g[i]
        BY <4>1 DEF IsGopOf
      <4>4. \A m \in 1 .. Len(gop) : \E i \in 1 .. Len(g) :
              InLastGop(g, i, Len(g)) /\ gop[m] = g[i]
        <5> SUFFICES ASSUME NEW m \in 1 .. Len(gop)
                     PROVE  \E i \in 1 .. Len(g) : InLastGop(g, i, Len(g)) /\ gop[m] = g[i]
          OBVIOUS
        <5>1. PICK i \in 1 .. n : InLastGop(h, i, n) /\ gop[m] = h[i]
          BY DEF IsGopOf
        <5> QED
          BY <4>2, <5>1
      <4> QED
        BY <4>3, <4>4 DEF IsGopOf
    <3>4. GopStarted(gop, g)
      BY <1>1, <1>3 DEF GopStarted
    <3> QED
      BY <3>1, <3>3, <3>4 DEF g
  <2> QED
    BY <2>2, <2>3
<1> QED
  BY <1>2, <1>3

\* set_cache is right: the cache of a history becomes, with the next packet,
\* the cache of the longer history.
THEOREM SetCacheCorrect ==
  ASSUME NEW h \in Seq(MediaPacket), NEW p \in MediaPacket, NEW c \in Cache,
         Later(p, h), IsCacheOf(c, h), GopStarted(c.gop, h)
  PROVE  /\ IsCacheOf(SetCache(c, p), Append(h, p))
         /\ GopStarted(SetCache(c, p).gop, Append(h, p))
<1>1. c.gop \in Seq(MediaPacket)
  BY CacheSlots
<1>2. /\ IsMetadata(p) <=> p \in Metadatas
      /\ IsVideoHeader(p) <=> p \in VideoHeaders
      /\ IsAudioHeader(p) <=> p \in AudioHeaders
  BY DEF Metadatas, VideoHeaders, AudioHeaders
<1>3. /\ Metadatas \subseteq MediaPacket
      /\ VideoHeaders \subseteq MediaPacket
      /\ AudioHeaders \subseteq MediaPacket
  BY DEF Metadatas, VideoHeaders, AudioHeaders
<1> DEFINE d == SetCache(c, p)
<1>4. /\ d.metadata = IF p \in Metadatas THEN p ELSE c.metadata
      /\ d.video_seq_header = IF p \in VideoHeaders THEN p ELSE c.video_seq_header
      /\ d.audio_seq_header = IF p \in AudioHeaders THEN p ELSE c.audio_seq_header
      /\ d.gop = SetGop(c.gop, p)
  BY <1>2 DEF SetCache
<1> HIDE DEF d
<1>5. /\ IsLast(Append(h, p), d.metadata, Metadatas)
      /\ IsLast(Append(h, p), d.video_seq_header, VideoHeaders)
      /\ IsLast(Append(h, p), d.audio_seq_header, AudioHeaders)
  BY <1>3, <1>4, SlotStep DEF IsCacheOf
<1>6. IsGopOf(d.gop, Append(h, p)) /\ GopStarted(d.gop, Append(h, p))
  BY <1>1, <1>4, GopStep DEF IsCacheOf
<1> QED
  BY <1>5, <1>6 DEF IsCacheOf, d

\* The packets of a joining player's snapshot include the whole GOP.
LEMMA InitPacketsHaveGop ==
  ASSUME NEW c \in Cache, NEW m \in 1 .. Len(c.gop)
  PROVE  \E i \in 1 .. Len(InitPackets(c)) : InitPackets(c)[i] = c.gop[m]
<1> DEFINE headers == Present(c.metadata) \o Present(c.video_seq_header)
                        \o Present(c.audio_seq_header)
<1>1. \A slot \in MediaPacket \cup {NoPacket} : Present(slot) \in Seq(MediaPacket)
  BY DEF Present
<1>2. headers \in Seq(MediaPacket) /\ c.gop \in Seq(MediaPacket)
  BY <1>1, CacheSlots
<1>3. InitPackets(c) = headers \o c.gop
  BY DEF InitPackets
<1> HIDE DEF headers
<1>4. /\ Len(headers) + m \in 1 .. Len(headers \o c.gop)
      /\ (headers \o c.gop)[Len(headers) + m] = c.gop[m]
  BY <1>2
<1> QED
  BY <1>3, <1>4
\* An element of a concatenation comes from one of its parts.
LEMMA FromConcat ==
  \A a, b \in Seq(MediaPacket) : \A i \in 1 .. Len(a \o b) :
    \/ \E n \in 1 .. Len(a) : (a \o b)[i] = a[n]
    \/ \E n \in 1 .. Len(b) : (a \o b)[i] = b[n]
<1> SUFFICES ASSUME NEW a \in Seq(MediaPacket), NEW b \in Seq(MediaPacket),
                    NEW i \in 1 .. Len(a \o b)
             PROVE  \/ \E n \in 1 .. Len(a) : (a \o b)[i] = a[n]
                    \/ \E n \in 1 .. Len(b) : (a \o b)[i] = b[n]
  OBVIOUS
<1>1. CASE i <= Len(a)
  BY <1>1
<1>2. CASE i > Len(a)
  <2>1. i - Len(a) \in 1 .. Len(b) /\ (a \o b)[i] = b[i - Len(a)]
    BY <1>2
  <2> QED
    BY <2>1
<1> QED
  BY <1>1, <1>2

\* The packets of a snapshot are those of the cache.
LEMMA InitPacketsAreCached ==
  ASSUME NEW c \in Cache, NEW i \in 1 .. Len(InitPackets(c))
  PROVE  \/ InitPackets(c)[i] \in
              {c.metadata, c.video_seq_header, c.audio_seq_header} \ {NoPacket}
         \/ \E n \in 1 .. Len(c.gop) : InitPackets(c)[i] = c.gop[n]
<1> DEFINE M == Present(c.metadata)
           V == Present(c.video_seq_header)
           A == Present(c.audio_seq_header)
<1>1. ASSUME NEW slot \in MediaPacket \cup {NoPacket}
      PROVE  /\ Present(slot) \in Seq(MediaPacket)
             /\ \A n \in 1 .. Len(Present(slot)) :
                  Present(slot)[n] = slot /\ slot # NoPacket
  BY DEF Present
<1>2. /\ M \in Seq(MediaPacket) /\ V \in Seq(MediaPacket)
      /\ A \in Seq(MediaPacket) /\ c.gop \in Seq(MediaPacket)
  BY <1>1, CacheSlots
<1>3. /\ \A n \in 1 .. Len(M) : M[n] \in {c.metadata} \ {NoPacket}
      /\ \A n \in 1 .. Len(V) : V[n] \in {c.video_seq_header} \ {NoPacket}
      /\ \A n \in 1 .. Len(A) : A[n] \in {c.audio_seq_header} \ {NoPacket}
  BY <1>1, CacheSlots
<1>4. InitPackets(c) = ((M \o V) \o A) \o c.gop
  BY DEF InitPackets
<1> HIDE DEF M, V, A
<1>5. M \o V \in Seq(MediaPacket) /\ (M \o V) \o A \in Seq(MediaPacket)
  BY <1>2
<1>6. CASE \E n \in 1 .. Len(c.gop) : InitPackets(c)[i] = c.gop[n]
  BY <1>6
<1>7. ASSUME NEW n \in 1 .. Len((M \o V) \o A),
             InitPackets(c)[i] = ((M \o V) \o A)[n]
      PROVE  InitPackets(c)[i] \in
               {c.metadata, c.video_seq_header, c.audio_seq_header} \ {NoPacket}
  <2>1. CASE \E m \in 1 .. Len(A) : ((M \o V) \o A)[n] = A[m]
    BY <1>3, <1>7, <2>1
  <2>2. ASSUME NEW m \in 1 .. Len(M \o V), ((M \o V) \o A)[n] = (M \o V)[m]
        PROVE  InitPackets(c)[i] \in
                 {c.metadata, c.video_seq_header, c.audio_seq_header} \ {NoPacket}
    <3>1. \/ \E l \in 1 .. Len(M) : (M \o V)[m] = M[l]
          \/ \E l \in 1 .. Len(V) : (M \o V)[m] = V[l]
      BY <1>2, FromConcat
    <3> QED
      BY <1>3, <1>7, <2>2, <3>1
  <2> QED
    BY <1>2, <1>5, <2>1, <2>2, FromConcat, SMTT(30)
<1>8. \/ \E n \in 1 .. Len((M \o V) \o A) : InitPackets(c)[i] = ((M \o V) \o A)[n]
      \/ \E n \in 1 .. Len(c.gop) : InitPackets(c)[i] = c.gop[n]
  <2> DEFINE H == (M \o V) \o A
             G == c.gop
             I == InitPackets(c)
  <2>1. I = H \o G /\ H \in Seq(MediaPacket) /\ G \in Seq(MediaPacket)
    BY <1>2, <1>4, <1>5
  <2>2. i \in 1 .. Len(I)
    OBVIOUS
  <2> HIDE DEF H, G, I
  <2>3. \/ \E n \in 1 .. Len(H) : I[i] = H[n]
        \/ \E n \in 1 .. Len(G) : I[i] = G[n]
    BY <2>1, <2>2, FromConcat
  <2> QED
    BY <2>3 DEF H, G, I
<1> QED
  BY <1>6, <1>7, <1>8

\* A snapshot has the video header of the cache.
LEMMA InitPacketsHaveHeader ==
  ASSUME NEW c \in Cache, c.video_seq_header # NoPacket
  PROVE  \E i \in 1 .. Len(InitPackets(c)) :
           InitPackets(c)[i] = c.video_seq_header
<1> DEFINE M == Present(c.metadata)
           V == Present(c.video_seq_header)
           rest == Present(c.audio_seq_header) \o c.gop
<1>1. \A slot \in MediaPacket \cup {NoPacket} : Present(slot) \in Seq(MediaPacket)
  BY DEF Present
<1>2. M \in Seq(MediaPacket) /\ rest \in Seq(MediaPacket)
  BY <1>1, CacheSlots
<1>3. V = <<c.video_seq_header>>
  BY DEF Present
<1>4. InitPackets(c) = (M \o V) \o rest
  <2>1. /\ Present(c.audio_seq_header) \in Seq(MediaPacket)
        /\ c.gop \in Seq(MediaPacket) /\ V \in Seq(MediaPacket)
    BY <1>1, CacheSlots
  <2>2. \A a, b, d \in Seq(MediaPacket) : (a \o b) \o d = a \o (b \o d)
    OBVIOUS
  <2>3. M \o V \in Seq(MediaPacket)
    BY <1>2, <2>1
  <2> HIDE DEF M, V
  <2> QED
    BY <2>1, <2>2, <2>3 DEF InitPackets, M, V
<1> HIDE DEF M, rest
<1>5. c.video_seq_header \in MediaPacket
  BY CacheSlots
<1>6. /\ Len(M) + 1 \in 1 .. Len((M \o <<c.video_seq_header>>) \o rest)
      /\ ((M \o <<c.video_seq_header>>) \o rest)[Len(M) + 1] = c.video_seq_header
  BY <1>2, <1>5
<1> QED
  BY <1>3, <1>4, <1>6

(***************************************************************************)
(* Type correctness.                                                       *)
(***************************************************************************)

\* A message has the fields that go with its type.
LEMMA MessageFields ==
  ASSUME NEW m \in Message
  PROVE  /\ m.type = "Packet" => m.packet \in MediaPacket
         /\ m.type = "InitData" => m.player \in Players
<1>1. CASE m \in [type : {"Packet"}, packet : MediaPacket]
  BY <1>1
<1>2. CASE m \in [type : {"InitData"}, player : Players]
  BY <1>2
<1>3. CASE m \in [type : {"Disconnect"}]
  BY <1>3
<1> QED
  BY <1>1, <1>2, <1>3 DEF Message

\* What the channel takes from its queue, and what it leaves there.
LEMMA TakeMessage ==
  ASSUME incoming \in Seq(Message), incoming # <<>>
  PROVE  Head(incoming) \in Message /\ Tail(incoming) \in Seq(Message)
  OBVIOUS

\* Every step of the data plane keeps the types.
LEMMA TypeStep == TypeOK /\ [Next]_vars => TypeOK'
<1> SUFFICES ASSUME TypeOK, [Next]_vars PROVE TypeOK'
  OBVIOUS
<1> USE CapacityAssumption, MaxPacketsAssumption, ShapesAssumption
<1>1. CASE Publish
  <2>1. PICK s \in Shapes :
          incoming' = Append(incoming, PacketMsg(
            [kind |-> s.kind, is_seq_header |-> s.is_seq_header,
             is_key_frame |-> s.is_key_frame, timestamp |-> sent + 1]))
    BY <1>1 DEF Publish
  <2>2. PacketMsg([kind |-> s.kind, is_seq_header |-> s.is_seq_header,
          is_key_frame |-> s.is_key_frame, timestamp |-> sent + 1]) \in Message
    BY DEF TypeOK, PacketMsg, Message, MediaPacket
  <2>3. incoming' \in Seq(Message)
    BY <2>1, <2>2 DEF TypeOK
  <2> QED
    BY <1>1, <2>3 DEF Publish, TypeOK, channelVars, playerVars
<1>2. CASE Disconnect
  <2>1. incoming' \in Seq(Message)
    BY <1>2 DEF Disconnect, TypeOK, DisconnectMsg, Message
  <2> QED
    BY <1>2, <2>1 DEF Disconnect, TypeOK, channelVars, playerVars
<1>3. CASE Release
  BY <1>3 DEF Release, TypeOK, channelVars, playerVars
<1>4. CASE HandlePacket
  <2>1. Head(incoming).packet \in MediaPacket /\ incoming' \in Seq(Message)
    BY <1>4, TakeMessage, MessageFields DEF HandlePacket, TypeOK
  <2>2. cache' \in Cache /\ history' \in Seq(MediaPacket)
    BY <1>4, <2>1, SetCacheType DEF HandlePacket, TypeOK
  <2> QED
    BY <1>4, <2>1, <2>2 DEF HandlePacket, TypeOK, playerVars
<1>5. CASE HandleInitData
  <2>1. Head(incoming).player \in Players /\ incoming' \in Seq(Message)
    BY <1>5, TakeMessage, MessageFields DEF HandleInitData, TypeOK
  <2>2. Ready(InitPackets(cache)) \in Reply
    BY InitPacketsType DEF TypeOK, Ready, Reply
  <2>3. reply' \in [Players -> Reply] /\ snap' \in [Players -> Nat]
    BY <1>5, <2>1, <2>2 DEF HandleInitData, TypeOK
  <2>4. UNCHANGED <<sent, listed, channel, cache, history, state, cursor, out, sub, lost>>
    BY <1>5 DEF HandleInitData, channelVars
  <2> QED
    BY <2>1, <2>3, <2>4 DEF TypeOK
<1>6. CASE HandleDisconnect
  BY <1>6 DEF HandleDisconnect, TypeOK, DroppedReply, Reply
<1>7. ASSUME NEW q \in Players, Join(q) PROVE TypeOK'
  BY <1>7 DEF Join, TypeOK, channelVars, PlayerState
<1>8. ASSUME NEW q \in Players, RequestInit(q) PROVE TypeOK'
  <2>1. InitDataMsg(q) \in Message
    BY DEF InitDataMsg, Message
  <2>2. incoming' = Append(incoming, InitDataMsg(q)) \/ incoming' = incoming
    BY <1>8 DEF RequestInit
  <2>3. incoming' \in Seq(Message)
    <3>1. incoming \in Seq(Message)
      BY DEF TypeOK
    <3>2. Append(incoming, InitDataMsg(q)) \in Seq(Message)
      BY <3>1, <2>1
    <3> QED
      BY <3>1, <3>2, <2>2
  <2>4. state' \in [Players -> PlayerState]
    BY <1>8 DEF RequestInit, TypeOK, PlayerState
  <2> QED
    BY <1>8, <2>3, <2>4 DEF RequestInit, TypeOK, channelVars
<1>9. ASSUME NEW q \in Players, ReceiveInit(q) PROVE TypeOK'
  <2>1. reply[q].status = "ready" => reply[q].packets \in Seq(MediaPacket)
    BY DEF TypeOK, Reply
  <2>2. out' \in [Players -> Seq(MediaPacket)]
    BY <1>9, <2>1 DEF ReceiveInit, TypeOK
  <2> QED
    BY <1>9, <2>2 DEF ReceiveInit, TypeOK, channelVars, PlayerState
<1>10. ASSUME NEW q \in Players, Receive(q) PROVE TypeOK'
  <2>1. cursor[q] + 1 \in 1 .. Len(history)
    BY <1>10 DEF Receive, Unread, TypeOK
  <2>2. history[cursor[q] + 1] \in MediaPacket
    BY <2>1 DEF TypeOK
  <2>3. cursor' \in [Players -> Nat] /\ out' \in [Players -> Seq(MediaPacket)]
    BY <1>10, <2>2 DEF Receive, TypeOK
  <2>4. UNCHANGED <<sent, incoming, listed, channel, cache, history, state, reply,
                    sub, snap, lost>>
    BY <1>10 DEF Receive, channelVars
  <2> QED
    BY <2>3, <2>4 DEF TypeOK
<1>11. ASSUME NEW q \in Players, Lag(q) PROVE TypeOK'
  <2>1. Len(history) - Capacity \in Nat
    BY <1>11 DEF Lag, Unread, TypeOK
  <2> QED
    BY <1>11, <2>1 DEF Lag, TypeOK, channelVars
<1>12. ASSUME NEW q \in Players, Closed(q) PROVE TypeOK'
  BY <1>12 DEF Closed, TypeOK, channelVars, PlayerState
<1>13. ASSUME NEW q \in Players, Leave(q) PROVE TypeOK'
  BY <1>13 DEF Leave, TypeOK, channelVars, PlayerState
<1>14. CASE UNCHANGED vars
  BY <1>14 DEF vars, TypeOK
<1> QED
  BY <1>1, <1>2, <1>3, <1>4, <1>5, <1>6, <1>7, <1>8, <1>9, <1>10, <1>11,
     <1>12, <1>13, <1>14 DEF Next, Channel, Player

\* The initial state has the types.
LEMMA TypeInit == Init => TypeOK
  BY MaxPacketsAssumption
     DEF Init, TypeOK, EmptyCache, Cache, NoReply, Reply, PlayerState

\* The variables of the data plane have their types in every reachable state.
THEOREM TypeCorrect == Spec => []TypeOK
  BY TypeInit, TypeStep, PTL DEF Spec

(***************************************************************************)
(* The inductive invariant.                                                *)
(***************************************************************************)

IsPacket(m)   == m.type = "Packet"
IsInitData(m) == m.type = "InitData"

\* The packets have increasing timestamps, from the history through the queue.
Ordered ==
  /\ \A i \in 1 .. Len(history) : history[i].timestamp <= sent
  /\ \A i, j \in 1 .. Len(history) :
       i < j => history[i].timestamp < history[j].timestamp
  /\ \A i \in 1 .. Len(incoming) : IsPacket(incoming[i]) =>
       /\ incoming[i].packet.timestamp <= sent
       /\ \A j \in 1 .. Len(history) :
            history[j].timestamp < incoming[i].packet.timestamp
  /\ \A i, j \in 1 .. Len(incoming) :
       i < j /\ IsPacket(incoming[i]) /\ IsPacket(incoming[j])
       => incoming[i].packet.timestamp < incoming[j].packet.timestamp

\* A player that has an InitData in the queue waits for it, and has one only.
Requested ==
  /\ \A i \in 1 .. Len(incoming) : IsInitData(incoming[i]) =>
       /\ state[incoming[i].player] = "waiting"
       /\ reply[incoming[i].player].status = "none"
  /\ \A i, j \in 1 .. Len(incoming) :
       i < j /\ IsInitData(incoming[i]) /\ IsInitData(incoming[j])
       => incoming[i].player # incoming[j].player

\* Subscribed before the snapshot, read from the subscription on.
Positions ==
  \A q \in Players :
    /\ sub[q] <= cursor[q]
    /\ cursor[q] <= Len(history)
    /\ state[q] \in {"joined", "waiting"} => cursor[q] = sub[q]
    /\ state[q] \in {"idle", "joined"} => reply[q].status = "none"
    /\ reply[q].status = "ready" => sub[q] <= snap[q] /\ snap[q] <= Len(history)

\* The snapshot holds the GOP that was open when it was taken.
SnapshotHasGop ==
  \A q \in Players : reply[q].status = "ready" =>
    \A i \in 1 .. snap[q] : InLastGop(history, i, snap[q]) =>
      \E m \in 1 .. Len(reply[q].packets) : reply[q].packets[m] = history[i]

\* A player has got its snapshot's GOP and what it has read of the ring.
Copied ==
  \A q \in Players : Served(q) =>
    /\ \A i \in 1 .. snap[q] : InLastGop(history, i, snap[q]) => Received(q, history[i])
    /\ \A i \in sub[q] + 1 .. cursor[q] : i > lost[q] => Received(q, history[i])

FanoutInv ==
  /\ TypeOK
  /\ Ordered
  /\ CacheFollowsHistory
  /\ GopStarted(cache.gop, history)
  /\ Requested
  /\ Positions
  /\ SnapshotHasGop
  /\ Copied

---------------------------------------------------------------------------
(***************************************************************************)
(* How a step may change the queue and the history.                        *)
(***************************************************************************)

Unchanged1 == UNCHANGED <<sent, cache, history>>

\* A packet is queued, another message is queued, a packet is handled, an
\* InitData is answered, the queue is dropped, or none of these.
LEMMA QueueStep ==
  ASSUME TypeOK, [Next]_vars
  PROVE  \/ /\ Publish
            /\ \E p \in MediaPacket :
                 p.timestamp = sent + 1 /\ incoming' = Append(incoming, PacketMsg(p))
         \/ Unchanged1 /\ incoming' = Append(incoming, DisconnectMsg)
         \/ HandlePacket
         \/ HandleInitData
         \/ HandleDisconnect
         \/ Unchanged1 /\ \E q \in Players :
              state[q] = "joined" /\ incoming' = Append(incoming, InitDataMsg(q))
         \/ Unchanged1 /\ incoming' = incoming
<1> USE DEF Unchanged1, channelVars
<1>1. CASE Publish
  <2>1. PICK s \in Shapes :
          incoming' = Append(incoming, PacketMsg(
            [kind |-> s.kind, is_seq_header |-> s.is_seq_header,
             is_key_frame |-> s.is_key_frame, timestamp |-> sent + 1]))
    BY <1>1 DEF Publish
  <2> DEFINE p == [kind |-> s.kind, is_seq_header |-> s.is_seq_header,
                   is_key_frame |-> s.is_key_frame, timestamp |-> sent + 1]
  <2>2. p \in MediaPacket /\ p.timestamp = sent + 1
    BY ShapesAssumption, MaxPacketsAssumption DEF TypeOK, MediaPacket
  <2> QED
    BY <1>1, <2>1, <2>2
<1>2. CASE Disconnect
  BY <1>2 DEF Disconnect
<1>3. CASE Release
  BY <1>3 DEF Release
<1>4. CASE Channel
  BY <1>4 DEF Channel
<1>5. ASSUME NEW q \in Players, Join(q) PROVE Unchanged1 /\ incoming' = incoming
  BY <1>5 DEF Join
<1>6. ASSUME NEW q \in Players, RequestInit(q)
      PROVE  /\ Unchanged1
             /\ \/ incoming' = incoming
                \/ state[q] = "joined" /\ incoming' = Append(incoming, InitDataMsg(q))
  BY <1>6 DEF RequestInit
<1>7. ASSUME NEW q \in Players,
             ReceiveInit(q) \/ Receive(q) \/ Lag(q) \/ Closed(q) \/ Leave(q)
      PROVE  Unchanged1 /\ incoming' = incoming
  BY <1>7 DEF ReceiveInit, Receive, Lag, Closed, Leave
<1>8. CASE UNCHANGED vars
  BY <1>8 DEF vars
<1> HIDE DEF Unchanged1
<1> QED
  BY <1>1, <1>2, <1>3, <1>4, <1>5, <1>6, <1>7, <1>8 DEF Next, Player

\* Timestamps stay in order: the queue is first in, first out.
LEMMA OrderedStep ==
  ASSUME TypeOK, TypeOK', Ordered, [Next]_vars
  PROVE  Ordered'
<1> USE DEF IsPacket
<1>0. /\ sent \in Nat /\ incoming \in Seq(Message) /\ history \in Seq(MediaPacket)
      /\ \A m \in Message : m.type = "Packet" => m.packet.timestamp \in Nat
      /\ \A p \in MediaPacket : p.timestamp \in Nat
  BY MessageFields, MaxPacketsAssumption DEF TypeOK, MediaPacket
<1>1. ASSUME Publish, NEW p \in MediaPacket, p.timestamp = sent + 1,
             incoming' = Append(incoming, PacketMsg(p))
      PROVE  Ordered'
  <2>1. sent' = sent + 1 /\ history' = history
    BY <1>1 DEF Publish, channelVars
  <2>2. /\ Len(incoming') = Len(incoming) + 1
        /\ \A i \in 1 .. Len(incoming) : incoming'[i] = incoming[i]
        /\ incoming'[Len(incoming) + 1] = PacketMsg(p)
    BY <1>0, <1>1
  <2>3. PacketMsg(p).packet = p
    BY DEF PacketMsg
  <2>4. \A i \in 1 .. Len(history) : history[i].timestamp \in Nat
    BY <1>0
  <2>5. \A i \in 1 .. Len(incoming) :
          IsPacket(incoming[i]) => incoming[i].packet.timestamp \in Nat
    BY <1>0
  <2>6. \A i \in 1 .. Len(history') : history'[i].timestamp <= sent'
    BY <1>0, <2>1, <2>4 DEF Ordered
  <2>7. \A i \in 1 .. Len(incoming') : IsPacket(incoming'[i]) =>
          /\ incoming'[i].packet.timestamp <= sent'
          /\ \A j \in 1 .. Len(history') :
               history'[j].timestamp < incoming'[i].packet.timestamp
    <3> SUFFICES ASSUME NEW i \in 1 .. Len(incoming'), IsPacket(incoming'[i])
                 PROVE  /\ incoming'[i].packet.timestamp <= sent'
                        /\ \A j \in 1 .. Len(history') :
                             history'[j].timestamp < incoming'[i].packet.timestamp
      OBVIOUS
    <3>1. CASE i \in 1 .. Len(incoming)
      BY <1>0, <2>1, <2>2, <2>5, <3>1 DEF Ordered
    <3>2. CASE i = Len(incoming) + 1
      BY <1>0, <1>1, <2>1, <2>2, <2>3, <2>4, <3>2 DEF Ordered
    <3> QED
      BY <1>0, <2>2, <3>1, <3>2
  <2>8. \A i, j \in 1 .. Len(incoming') :
          i < j /\ IsPacket(incoming'[i]) /\ IsPacket(incoming'[j])
          => incoming'[i].packet.timestamp < incoming'[j].packet.timestamp
    <3> SUFFICES ASSUME NEW i \in 1 .. Len(incoming'), NEW j \in 1 .. Len(incoming'),
                        i < j, IsPacket(incoming'[i]), IsPacket(incoming'[j])
                 PROVE  incoming'[i].packet.timestamp < incoming'[j].packet.timestamp
      OBVIOUS
    <3>1. CASE j \in 1 .. Len(incoming)
      BY <1>0, <2>2, <3>1 DEF Ordered
    <3>2. CASE j = Len(incoming) + 1
      BY <1>0, <1>1, <2>2, <2>3, <2>5, <3>2 DEF Ordered
    <3> QED
      BY <1>0, <2>2, <3>1, <3>2
  <2> QED
    BY <2>1, <2>6, <2>7, <2>8 DEF Ordered
<1>2. ASSUME Unchanged1, NEW m, m.type # "Packet", incoming' = Append(incoming, m)
      PROVE  Ordered'
  <2>1. /\ Len(incoming') = Len(incoming) + 1
        /\ \A i \in 1 .. Len(incoming) : incoming'[i] = incoming[i]
        /\ incoming'[Len(incoming) + 1] = m
    BY <1>0, <1>2
  <2> QED
    BY <1>0, <1>2, <2>1 DEF Ordered, Unchanged1
<1>3. ASSUME incoming # <<>>, incoming' = Tail(incoming), sent' = sent,
             \/ history' = history
             \/ /\ IsPacket(Head(incoming))
                /\ history' = Append(history, Head(incoming).packet)
      PROVE  Ordered'
  <2>1. /\ Len(incoming') = Len(incoming) - 1
        /\ \A i \in 1 .. Len(incoming') : incoming'[i] = incoming[i + 1]
        /\ Head(incoming) = incoming[1] /\ 1 \in 1 .. Len(incoming)
    BY <1>0, <1>3
  <2>2. CASE history' = history
    BY <1>0, <1>3, <2>1, <2>2 DEF Ordered
  <2>3. CASE /\ IsPacket(Head(incoming))
             /\ history' = Append(history, Head(incoming).packet)
    <3>1. /\ Len(history') = Len(history) + 1
          /\ \A i \in 1 .. Len(history) : history'[i] = history[i]
          /\ history'[Len(history) + 1] = incoming[1].packet
      BY <1>0, <2>1, <2>3
    <3>4. \A i \in 1 .. Len(history') : history'[i].timestamp <= sent'
      BY <1>0, <1>3, <2>1, <2>3, <3>1 DEF Ordered
    <3>5. \A i, j \in 1 .. Len(history') :
            i < j => history'[i].timestamp < history'[j].timestamp
      <4>1. \A i, j \in 1 .. Len(history) :
              i < j => history[i].timestamp < history[j].timestamp
        BY DEF Ordered
      <4>2. \A i \in 1 .. Len(history) :
              history[i].timestamp < incoming[1].packet.timestamp
        BY <2>1, <2>3 DEF Ordered
      <4> SUFFICES ASSUME NEW i \in 1 .. Len(history'), NEW j \in 1 .. Len(history'),
                          i < j
                   PROVE  history'[i].timestamp < history'[j].timestamp
        OBVIOUS
      <4>3. i \in 1 .. Len(history) /\ history'[i] = history[i]
        BY <1>0, <3>1
      <4>4. CASE j \in 1 .. Len(history)
        BY <3>1, <4>1, <4>3, <4>4
      <4>5. CASE j = Len(history) + 1
        BY <3>1, <4>2, <4>3, <4>5
      <4> QED
        BY <1>0, <3>1, <4>4, <4>5
    <3>6. \A i \in 1 .. Len(incoming') : IsPacket(incoming'[i]) =>
            /\ incoming'[i].packet.timestamp <= sent'
            /\ \A j \in 1 .. Len(history') :
                 history'[j].timestamp < incoming'[i].packet.timestamp
      BY <1>0, <1>3, <2>1, <2>3, <3>1 DEF Ordered
    <3>7. \A i, j \in 1 .. Len(incoming') :
            i < j /\ IsPacket(incoming'[i]) /\ IsPacket(incoming'[j])
            => incoming'[i].packet.timestamp < incoming'[j].packet.timestamp
      BY <1>0, <1>3, <2>1 DEF Ordered
    <3> QED
      BY <3>4, <3>5, <3>6, <3>7 DEF Ordered
  <2> QED
    BY <1>3, <2>2, <2>3
<1>4. CASE HandlePacket
  BY <1>3, <1>4 DEF HandlePacket
<1>5. CASE HandleInitData
  BY <1>3, <1>5 DEF HandleInitData, channelVars
<1>6. CASE HandleDisconnect
  BY <1>6, <1>0 DEF HandleDisconnect, Ordered
<1>7. CASE Unchanged1 /\ incoming' = incoming
  BY <1>7 DEF Unchanged1, Ordered
<1>8. \A q \in Players : InitDataMsg(q).type # "Packet"
  BY DEF InitDataMsg
<1>9. DisconnectMsg.type # "Packet"
  BY DEF DisconnectMsg
<1> QED
  BY QueueStep, <1>1, <1>2, <1>4, <1>5, <1>6, <1>7, <1>8, <1>9

\* The cache follows the history.
LEMMA CacheStep ==
  ASSUME TypeOK, Ordered, CacheFollowsHistory, GopStarted(cache.gop, history),
         [Next]_vars
  PROVE  CacheFollowsHistory' /\ GopStarted(cache.gop, history)'
<1>1. CASE HandlePacket
  <2> DEFINE p == Head(incoming).packet
  <2>1. /\ Head(incoming) = incoming[1] /\ 1 \in 1 .. Len(incoming)
        /\ IsPacket(incoming[1])
        /\ cache' = SetCache(cache, p) /\ history' = Append(history, p)
    BY <1>1 DEF HandlePacket, TypeOK, IsPacket
  <2>2. p \in MediaPacket
    BY <1>1, TakeMessage, MessageFields DEF HandlePacket, TypeOK
  <2>3. Later(p, history)
    BY <2>1 DEF Ordered, Later
  <2>4. cache \in Cache /\ history \in Seq(MediaPacket)
    BY DEF TypeOK
  <2> HIDE DEF p
  <2>5. /\ IsCacheOf(SetCache(cache, p), Append(history, p))
        /\ GopStarted(SetCache(cache, p).gop, Append(history, p))
    BY <2>2, <2>3, <2>4, SetCacheCorrect DEF CacheFollowsHistory
  <2> QED
    BY <2>1, <2>5 DEF CacheFollowsHistory
<1>2. CASE UNCHANGED <<cache, history>>
  BY <1>2 DEF CacheFollowsHistory
<1> QED
  BY <1>1, <1>2, QueueStep
     DEF Publish, HandleInitData, HandleDisconnect, Unchanged1, channelVars

\* Each waiting player has at most one InitData in the queue.
LEMMA RequestedStep ==
  ASSUME TypeOK, Requested, Positions, [Next]_vars
  PROVE  Requested'
<1> USE DEF IsInitData
<1>0. /\ incoming \in Seq(Message)
      /\ state \in [Players -> PlayerState] /\ reply \in [Players -> Reply]
      /\ \A m \in Message : m.type = "InitData" => m.player \in Players
  BY MessageFields DEF TypeOK
<1>1. ASSUME NEW m, m.type # "InitData", incoming' = Append(incoming, m),
             UNCHANGED <<state, reply>>
      PROVE  Requested'
  <2>1. /\ Len(incoming') = Len(incoming) + 1
        /\ \A i \in 1 .. Len(incoming) : incoming'[i] = incoming[i]
        /\ incoming'[Len(incoming) + 1] = m
    BY <1>0, <1>1
  <2> QED
    BY <1>0, <1>1, <2>1 DEF Requested
<1>2. CASE Publish
  <2>1. PICK p : incoming' = Append(incoming, PacketMsg(p))
    BY <1>2 DEF Publish
  <2> QED
    BY <1>1, <1>2, <2>1 DEF Publish, playerVars, PacketMsg
<1>3. CASE Disconnect
  BY <1>1, <1>3 DEF Disconnect, playerVars, DisconnectMsg
<1>4. CASE Release
  BY <1>4 DEF Release, playerVars, Requested
<1>5. CASE HandlePacket \/ HandleInitData
  <2>1. /\ Len(incoming') = Len(incoming) - 1
        /\ \A i \in 1 .. Len(incoming') : incoming'[i] = incoming[i + 1]
        /\ Head(incoming) = incoming[1] /\ 1 \in 1 .. Len(incoming)
    <3>1. incoming # <<>> /\ incoming' = Tail(incoming)
      BY <1>5 DEF HandlePacket, HandleInitData
    <3> QED
      BY <1>0, <3>1
  <2>2. \A i, j \in 1 .. Len(incoming') :
          i < j /\ IsInitData(incoming'[i]) /\ IsInitData(incoming'[j])
          => incoming'[i].player # incoming'[j].player
    BY <1>0, <2>1 DEF Requested
  <2>3. \A i \in 1 .. Len(incoming') : IsInitData(incoming'[i]) =>
          /\ state'[incoming'[i].player] = "waiting"
          /\ reply'[incoming'[i].player].status = "none"
    <3> SUFFICES ASSUME NEW i \in 1 .. Len(incoming'), IsInitData(incoming'[i])
                 PROVE  /\ state'[incoming'[i].player] = "waiting"
                        /\ reply'[incoming'[i].player].status = "none"
      OBVIOUS
    <3>1. /\ i + 1 \in 1 .. Len(incoming) /\ 1 < i + 1
          /\ incoming'[i] = incoming[i + 1]
      BY <1>0, <2>1
    <3>2. /\ state[incoming'[i].player] = "waiting"
          /\ reply[incoming'[i].player].status = "none"
      BY <3>1 DEF Requested
    <3>3. CASE HandlePacket
      BY <3>2, <3>3 DEF HandlePacket, playerVars
    <3>4. CASE HandleInitData
      <4>1. incoming'[i].player # Head(incoming).player
        BY <2>1, <3>1, <3>4 DEF Requested, HandleInitData
      <4> QED
        BY <1>0, <3>2, <3>4, <4>1 DEF HandleInitData
    <3> QED
      BY <1>5, <3>3, <3>4
  <2> QED
    BY <2>2, <2>3 DEF Requested
<1>6. CASE HandleDisconnect
  BY <1>0, <1>6 DEF HandleDisconnect, Requested
<1>7. ASSUME NEW q \in Players, Join(q) PROVE Requested'
  BY <1>0, <1>7 DEF Join, Requested
<1>8. ASSUME NEW q \in Players, RequestInit(q) PROVE Requested'
  <2>1. \A i \in 1 .. Len(incoming) : IsInitData(incoming[i]) =>
          incoming[i].player # q
    BY <1>0, <1>8 DEF RequestInit, Requested
  <2>2. CASE incoming' = incoming
    BY <1>0, <1>8, <2>1, <2>2 DEF RequestInit, Requested
  <2>3. CASE /\ incoming' = Append(incoming, InitDataMsg(q))
             /\ state' = [state EXCEPT ![q] = "waiting"]
    <3>1. /\ Len(incoming') = Len(incoming) + 1
          /\ \A i \in 1 .. Len(incoming) : incoming'[i] = incoming[i]
          /\ incoming'[Len(incoming) + 1] = InitDataMsg(q)
      BY <1>0, <2>3
    <3>2. InitDataMsg(q).player = q
      BY DEF InitDataMsg
    <3>3. reply' = reply /\ reply[q].status = "none"
      BY <1>8 DEF RequestInit, Positions
    <3>4. \A i \in 1 .. Len(incoming') : IsInitData(incoming'[i]) =>
            /\ state'[incoming'[i].player] = "waiting"
            /\ reply'[incoming'[i].player].status = "none"
      BY <1>0, <2>3, <3>1, <3>2, <3>3 DEF Requested
    <3>5. \A i, j \in 1 .. Len(incoming') :
            i < j /\ IsInitData(incoming'[i]) /\ IsInitData(incoming'[j])
            => incoming'[i].player # incoming'[j].player
      BY <1>0, <2>1, <3>1, <3>2 DEF Requested
    <3> QED
      BY <3>4, <3>5 DEF Requested
  <2> QED
    BY <1>8, <2>2, <2>3 DEF RequestInit
<1>9. ASSUME NEW q \in Players,
             ReceiveInit(q) \/ Receive(q) \/ Lag(q) \/ Closed(q) \/ Leave(q)
      PROVE  Requested'
  BY <1>0, <1>9 DEF ReceiveInit, Receive, Lag, Closed, Leave, Requested
<1>10. CASE UNCHANGED vars
  BY <1>10 DEF vars, Requested
<1> QED
  BY <1>2, <1>3, <1>4, <1>5, <1>6, <1>7, <1>8, <1>9, <1>10
     DEF Next, Channel, Player

\* Where the players stand in the history.
LEMMA PositionsStep ==
  ASSUME TypeOK, Requested, Positions, [Next]_vars
  PROVE  Positions'
<1>0. /\ Len(history) \in Nat
      /\ history \in Seq(MediaPacket) /\ incoming \in Seq(Message)
      /\ state \in [Players -> PlayerState] /\ reply \in [Players -> Reply]
      /\ cursor \in [Players -> Nat] /\ sub \in [Players -> Nat]
      /\ snap \in [Players -> Nat]
  BY DEF TypeOK
<1>1. CASE UNCHANGED <<history, playerVars>>
  BY <1>1 DEF playerVars, Positions
<1>2. CASE HandlePacket
  <2>1. Len(history') = Len(history) + 1
    BY <1>0, <1>2 DEF HandlePacket
  <2> QED
    BY <1>0, <1>2, <2>1 DEF HandlePacket, playerVars, Positions
<1>3. CASE HandleInitData
  <2>1. Head(incoming) = incoming[1] /\ 1 \in 1 .. Len(incoming)
    BY <1>0, <1>3 DEF HandleInitData
  <2>2. state[Head(incoming).player] = "waiting"
    BY <1>3, <2>1 DEF HandleInitData, Requested, IsInitData
  <2> QED
    BY <1>0, <1>3, <2>2 DEF HandleInitData, channelVars, Positions
<1>4. CASE HandleDisconnect
  <2>1. \A q \in Players : reply'[q] = reply[q] \/
          (reply'[q].status = "dropped" /\ state[q] = "waiting")
    <3> SUFFICES ASSUME NEW q \in Players, reply'[q] # reply[q]
                 PROVE  reply'[q].status = "dropped" /\ state[q] = "waiting"
      OBVIOUS
    <3>1. PICK i \in 1 .. Len(incoming) : incoming[i] = InitDataMsg(q)
      BY <1>0, <1>4 DEF HandleDisconnect
    <3>2. incoming[i].type = "InitData" /\ incoming[i].player = q
      BY <3>1 DEF InitDataMsg
    <3>3. state[q] = "waiting"
      BY <3>2 DEF Requested, IsInitData
    <3>4. reply'[q] = DroppedReply
      BY <1>0, <1>4, <3>1 DEF HandleDisconnect
    <3> QED
      BY <3>3, <3>4 DEF DroppedReply
  <2> QED
    BY <1>4, <2>1 DEF HandleDisconnect, Positions
<1>5. ASSUME NEW q \in Players, Join(q) PROVE Positions'
  BY <1>0, <1>5 DEF Join, channelVars, Positions
<1>6. ASSUME NEW q \in Players, RequestInit(q) PROVE Positions'
  BY <1>0, <1>6 DEF RequestInit, channelVars, Positions
<1>7. ASSUME NEW q \in Players, ReceiveInit(q) PROVE Positions'
  BY <1>0, <1>7 DEF ReceiveInit, channelVars, Positions
<1>8. ASSUME NEW q \in Players, Receive(q) PROVE Positions'
  BY <1>0, <1>8 DEF Receive, Unread, channelVars, Positions
<1>9. ASSUME NEW q \in Players, Lag(q) PROVE Positions'
  BY <1>0, <1>9, CapacityAssumption DEF Lag, Unread, channelVars, Positions
<1>10. ASSUME NEW q \in Players, Closed(q) \/ Leave(q) PROVE Positions'
  BY <1>0, <1>10 DEF Closed, Leave, channelVars, Positions
<1> QED
  BY <1>1, <1>2, <1>3, <1>4, <1>5, <1>6, <1>7, <1>8, <1>9, <1>10
     DEF Next, Channel, Player, Publish, Disconnect, Release, channelVars, vars,
         playerVars

\* What the history says of an earlier GOP does not change as it grows.
LEMMA GopStable ==
  ASSUME NEW h \in Seq(MediaPacket), NEW p \in MediaPacket,
         NEW n \in Nat, n <= Len(h), NEW i \in 1 .. n
  PROVE  /\ InLastGop(Append(h, p), i, n) <=> InLastGop(h, i, n)
         /\ Append(h, p)[i] = h[i]
<1> DEFINE g == Append(h, p)
<1>1. \A k \in 1 .. Len(h) : g[k] = h[k]
  OBVIOUS
<1> HIDE DEF g
<1>2. InLastGop(g, i, n) <=> InLastGop(h, i, n)
  BY <1>1 DEF InLastGop
<1> QED
  BY <1>1, <1>2 DEF g

\* A snapshot holds the GOP that was open when it was taken.
LEMMA SnapshotStep ==
  ASSUME TypeOK, CacheFollowsHistory, Positions, SnapshotHasGop, [Next]_vars
  PROVE  SnapshotHasGop'
<1>0. /\ history \in Seq(MediaPacket) /\ Len(history) \in Nat
      /\ reply \in [Players -> Reply] /\ snap \in [Players -> Nat]
      /\ cache \in Cache
  BY DEF TypeOK
<1>1. CASE UNCHANGED <<history, reply, snap>>
  BY <1>1 DEF SnapshotHasGop
<1>2. CASE HandlePacket
  <2>1. PICK p \in MediaPacket : history' = Append(history, p)
    BY <1>2, TakeMessage, MessageFields DEF HandlePacket, TypeOK
  <2>2. reply' = reply /\ snap' = snap
    BY <1>2 DEF HandlePacket, playerVars
  <2> SUFFICES ASSUME NEW q \in Players, reply[q].status = "ready",
                      NEW i \in 1 .. snap[q], InLastGop(history', i, snap[q])
               PROVE  \E m \in 1 .. Len(reply[q].packets) :
                        reply[q].packets[m] = history'[i]
    BY <2>2 DEF SnapshotHasGop
  <2>3. snap[q] \in Nat /\ snap[q] <= Len(history)
    BY <1>0 DEF Positions
  <2>4. InLastGop(history, i, snap[q]) /\ history'[i] = history[i]
    BY <1>0, <2>1, <2>3, GopStable
  <2> QED
    BY <2>4 DEF SnapshotHasGop
<1>3. CASE HandleInitData
  <2> DEFINE p == Head(incoming).player
  <2>1. \A i \in 1 .. Len(history) : InLastGop(history, i, Len(history)) =>
          \E m \in 1 .. Len(InitPackets(cache)) : InitPackets(cache)[m] = history[i]
    <3> SUFFICES ASSUME NEW i \in 1 .. Len(history),
                        InLastGop(history, i, Len(history))
                 PROVE  \E m \in 1 .. Len(InitPackets(cache)) :
                          InitPackets(cache)[m] = history[i]
      OBVIOUS
    <3>1. PICK m \in 1 .. Len(cache.gop) : cache.gop[m] = history[i]
      BY DEF CacheFollowsHistory, IsCacheOf, IsGopOf
    <3> QED
      BY <1>0, <3>1, InitPacketsHaveGop
  <2>2. /\ history' = history
        /\ \A q \in Players : q # p => reply'[q] = reply[q] /\ snap'[q] = snap[q]
        /\ p \in Players => /\ reply'[p].packets = InitPackets(cache)
                            /\ snap'[p] = Len(history)
    BY <1>0, <1>3 DEF HandleInitData, channelVars, Ready
  <2> SUFFICES ASSUME NEW q \in Players, reply'[q].status = "ready",
                      NEW i \in 1 .. snap'[q], InLastGop(history, i, snap'[q])
               PROVE  \E m \in 1 .. Len(reply'[q].packets) :
                        reply'[q].packets[m] = history[i]
    BY <2>2 DEF SnapshotHasGop
  <2> HIDE DEF p
  <2>3. CASE q = p
    BY <2>1, <2>2, <2>3
  <2>4. CASE q # p
    BY <2>2, <2>4 DEF SnapshotHasGop
  <2> QED
    BY <2>3, <2>4
<1>4. CASE HandleDisconnect
  <2>1. \A q \in Players :
          reply'[q] = reply[q] \/ reply'[q].status = "dropped"
    BY <1>0, <1>4 DEF HandleDisconnect, DroppedReply
  <2> QED
    BY <1>4, <2>1 DEF HandleDisconnect, SnapshotHasGop
<1> QED
  BY <1>1, <1>2, <1>3, <1>4
     DEF Next, Channel, Player, Publish, Disconnect, Release, Join, RequestInit,
         ReceiveInit, Receive, Lag, Closed, Leave, channelVars, playerVars, vars

\* What a player has been sent.
LEMMA CopiedStep ==
  ASSUME TypeOK, Requested, Positions, SnapshotHasGop, Copied, [Next]_vars
  PROVE  Copied'
<1>0. /\ history \in Seq(MediaPacket) /\ Len(history) \in Nat
      /\ incoming \in Seq(Message)
      /\ state \in [Players -> PlayerState] /\ reply \in [Players -> Reply]
      /\ cursor \in [Players -> Nat] /\ sub \in [Players -> Nat]
      /\ snap \in [Players -> Nat] /\ lost \in [Players -> Nat]
      /\ out \in [Players -> Seq(MediaPacket)]
  BY DEF TypeOK
<1>1. CASE UNCHANGED <<history, playerVars>>
  BY <1>1 DEF playerVars, Copied, Served, Received
<1>2. CASE HandlePacket
  <2>1. PICK p \in MediaPacket : history' = Append(history, p)
    BY <1>2, TakeMessage, MessageFields DEF HandlePacket, TypeOK
  <2>2. UNCHANGED playerVars
    BY <1>2 DEF HandlePacket
  <2> SUFFICES ASSUME NEW q \in Players, Served(q)
               PROVE  /\ \A i \in 1 .. snap[q] :
                           InLastGop(history', i, snap[q]) => Received(q, history'[i])
                      /\ \A i \in sub[q] + 1 .. cursor[q] :
                           i > lost[q] => Received(q, history'[i])
    BY <2>2 DEF Copied, Served, Received, playerVars
  <2>3. /\ snap[q] \in Nat /\ snap[q] <= Len(history)
        /\ sub[q] \in Nat /\ cursor[q] \in Nat /\ cursor[q] <= Len(history)
    BY <1>0 DEF Positions, Served
  <2>4. \A i \in 1 .. snap[q] :
          /\ InLastGop(history', i, snap[q]) <=> InLastGop(history, i, snap[q])
          /\ history'[i] = history[i]
    BY <1>0, <2>1, <2>3, GopStable
  <2>5. \A i \in sub[q] + 1 .. cursor[q] : history'[i] = history[i]
    BY <1>0, <2>1, <2>3
  <2> QED
    BY <2>4, <2>5 DEF Copied
<1>3. CASE HandleInitData
  <2>1. Head(incoming) = incoming[1] /\ 1 \in 1 .. Len(incoming)
    BY <1>0, <1>3 DEF HandleInitData
  <2>2. state[Head(incoming).player] = "waiting"
    BY <1>3, <2>1 DEF HandleInitData, Requested, IsInitData
  <2>3. \A q \in Players : state[q] = "live" =>
          reply'[q] = reply[q] /\ snap'[q] = snap[q]
    BY <1>0, <1>3, <2>2 DEF HandleInitData
  <2> QED
    BY <1>3, <2>3 DEF HandleInitData, channelVars, Copied, Served, Received
<1>4. CASE HandleDisconnect
  <2>1. \A q \in Players :
          reply'[q] = reply[q] \/ reply'[q].status = "dropped"
    BY <1>0, <1>4 DEF HandleDisconnect, DroppedReply
  <2> QED
    BY <1>4, <2>1 DEF HandleDisconnect, Copied, Served, Received
<1>5. ASSUME NEW q \in Players,
             Join(q) \/ RequestInit(q) \/ Closed(q) \/ Leave(q)
      PROVE  Copied'
  <2>1. /\ history' = history /\ reply' = reply /\ out' = out
        /\ snap' = snap /\ lost' = lost
        /\ \A p \in Players : p # q =>
             state'[p] = state[p] /\ cursor'[p] = cursor[p] /\ sub'[p] = sub[p]
        /\ state'[q] # "live"
    <3>1. CASE Join(q)
      BY <1>0, <3>1 DEF Join, channelVars
    <3>2. CASE RequestInit(q)
      BY <1>0, <3>2 DEF RequestInit, channelVars
    <3>3. CASE Closed(q) \/ Leave(q)
      BY <1>0, <3>3 DEF Closed, Leave, channelVars
    <3> QED
      BY <1>5, <3>1, <3>2, <3>3
  <2> QED
    BY <2>1 DEF Copied, Served, Received
<1>6. ASSUME NEW q \in Players, ReceiveInit(q) PROVE Copied'
  <2>1. /\ history' = history /\ reply' = reply /\ snap' = snap
        /\ lost' = lost /\ cursor' = cursor /\ sub' = sub
        /\ \A p \in Players : p # q => state'[p] = state[p] /\ out'[p] = out[p]
    BY <1>0, <1>6 DEF ReceiveInit, channelVars
  <2>2. reply[q].status = "ready" => out'[q] = reply[q].packets
    BY <1>0, <1>6 DEF ReceiveInit
  <2>3. cursor[q] = sub[q]
    BY <1>6 DEF ReceiveInit, Positions
  <2>4. reply[q].status = "ready" =>
          \A i \in 1 .. snap[q] :
            InLastGop(history, i, snap[q]) => Received(q, history[i])'
    BY <2>1, <2>2 DEF SnapshotHasGop, Received
  <2>5. \A i \in sub[q] + 1 .. cursor[q] : FALSE
    BY <1>0, <2>3
  <2> QED
    BY <2>1, <2>4, <2>5 DEF Copied, Served, Received
<1>7. ASSUME NEW q \in Players, Receive(q) PROVE Copied'
  <2>1. /\ history' = history /\ reply' = reply /\ snap' = snap /\ sub' = sub
        /\ lost' = lost /\ state' = state
        /\ \A p \in Players : p # q => cursor'[p] = cursor[p] /\ out'[p] = out[p]
        /\ cursor'[q] = cursor[q] + 1
        /\ out'[q] = Append(out[q], history[cursor[q] + 1])
    BY <1>0, <1>7 DEF Receive, channelVars
  <2> DEFINE Got(x) == \E m \in 1 .. Len(out'[q]) : out'[q][m] = x
  <2>2. \A x : Received(q, x) => Got(x)
    BY <1>0, <2>1 DEF Received
  <2>3. Got(history[cursor[q] + 1])
    <3>1. /\ Len(out'[q]) = Len(out[q]) + 1 /\ Len(out[q]) \in Nat
          /\ out'[q][Len(out[q]) + 1] = history[cursor[q] + 1]
      BY <1>0, <2>1
    <3> QED
      BY <3>1
  <2>4. \A i \in sub[q] + 1 .. cursor'[q] :
          i \in sub[q] + 1 .. cursor[q] \/ i = cursor[q] + 1
    BY <1>0, <2>1
  <2> HIDE DEF Got
  <2>5. Served(q) =>
          /\ \A i \in 1 .. snap[q] :
               InLastGop(history, i, snap[q]) => Got(history[i])
          /\ \A i \in sub[q] + 1 .. cursor'[q] : i > lost[q] => Got(history[i])
    BY <2>2, <2>3, <2>4 DEF Copied
  <2> USE DEF Got
  <2> SUFFICES ASSUME NEW p \in Players, Served(p)'
               PROVE  /\ \A i \in 1 .. snap[p] :
                           InLastGop(history, i, snap[p]) =>
                             \E m \in 1 .. Len(out'[p]) : out'[p][m] = history[i]
                      /\ \A i \in sub[p] + 1 .. cursor'[p] : i > lost[p] =>
                           \E m \in 1 .. Len(out'[p]) : out'[p][m] = history[i]
    BY <2>1 DEF Copied, Received
  <2>6. CASE p = q
    BY <2>1, <2>5, <2>6 DEF Served
  <2>7. CASE p # q
    BY <2>1, <2>7 DEF Copied, Served, Received
  <2> QED
    BY <2>6, <2>7
<1>8. ASSUME NEW q \in Players, Lag(q) PROVE Copied'
  <2>1. /\ history' = history /\ reply' = reply /\ snap' = snap /\ sub' = sub
        /\ out' = out /\ state' = state
        /\ \A p \in Players : p # q => cursor'[p] = cursor[p] /\ lost'[p] = lost[p]
        /\ cursor'[q] = lost'[q] /\ lost'[q] \in Int
    BY <1>0, <1>8, CapacityAssumption DEF Lag, Unread, channelVars
  <2>2. \A i \in sub[q] + 1 .. cursor'[q] : ~(i > lost'[q])
    BY <1>0, <2>1
  <2> QED
    BY <2>1, <2>2 DEF Copied, Served, Received
<1> QED
  BY <1>1, <1>2, <1>3, <1>4, <1>5, <1>6, <1>7, <1>8
     DEF Next, Channel, Player, Publish, Disconnect, Release, channelVars,
         playerVars, vars

---------------------------------------------------------------------------
(***************************************************************************)
(* The theorems.                                                           *)
(***************************************************************************)

\* The initial state satisfies the inductive invariant.
LEMMA InvInit == Init => FanoutInv
<1> SUFFICES ASSUME Init PROVE FanoutInv
  OBVIOUS
<1>1. TypeOK
  BY TypeInit
<1>2. Len(history) = 0 /\ Len(incoming) = 0
  BY DEF Init
<1>3. CacheFollowsHistory
  <2>1. \A i \in 1 .. 0 : FALSE
    OBVIOUS
  <2>2. cache.gop = <<>> /\ Len(<<>>) = 0
    BY DEF Init, EmptyCache
  <2>3. IsGopOf(cache.gop, history)
    BY <1>2, <2>1, <2>2 DEF IsGopOf
  <2>4. \A S : IsLast(history, NoPacket, S)
    BY <1>2, <2>1 DEF IsLast
  <2> QED
    BY <2>3, <2>4 DEF Init, EmptyCache, CacheFollowsHistory, IsCacheOf
<1>4. Ordered /\ GopStarted(cache.gop, history) /\ Requested
  BY <1>2 DEF Ordered, GopStarted, Requested
<1>5. Positions /\ SnapshotHasGop /\ Copied
  BY <1>2 DEF Init, Positions, SnapshotHasGop, Copied, Served, NoReply
<1> QED
  BY <1>1, <1>3, <1>4, <1>5 DEF FanoutInv

\* Every step preserves it.
LEMMA InvStep == FanoutInv /\ [Next]_vars => FanoutInv'
<1> SUFFICES ASSUME FanoutInv, [Next]_vars PROVE FanoutInv'
  OBVIOUS
<1>1. TypeOK'
  BY TypeStep DEF FanoutInv
<1>2. Ordered'
  BY <1>1, OrderedStep DEF FanoutInv
<1>3. CacheFollowsHistory' /\ GopStarted(cache.gop, history)'
  BY CacheStep DEF FanoutInv
<1>4. Requested' /\ Positions'
  BY RequestedStep, PositionsStep DEF FanoutInv
<1>5. SnapshotHasGop' /\ Copied'
  BY SnapshotStep, CopiedStep DEF FanoutInv
<1> QED
  BY <1>1, <1>2, <1>3, <1>4, <1>5 DEF FanoutInv

\* The invariant holds in every reachable state.
THEOREM Invariant == Spec => []FanoutInv
  BY InvInit, InvStep, PTL DEF Spec

\* The cache of a channel is, in every reachable state, what the packets it
\* has handled make it: the latest headers, and exactly the open GOP.
THEOREM CacheCorrect == Spec => []CacheFollowsHistory
<1>1. FanoutInv => CacheFollowsHistory
  BY DEF FanoutInv
<1> QED
  BY <1>1, Invariant, PTL

\* A player that is served misses nothing between its snapshot and its
\* subscription, however its join interleaves with the packets.
THEOREM NoGapCorrect == Spec => []NoGap
<1>1. FanoutInv => NoGap
  <2> SUFFICES ASSUME FanoutInv, NEW q \in Players, Served(q),
                      NEW i \in 1 .. Len(history),
                      \/ i <= snap[q] /\ InLastGop(history, i, snap[q])
                      \/ i \in snap[q] + 1 .. cursor[q] /\ i > lost[q]
               PROVE  Received(q, history[i])
    BY DEF NoGap
  <2>1. /\ snap[q] \in Nat /\ sub[q] \in Nat /\ cursor[q] \in Nat
        /\ sub[q] <= snap[q] /\ Len(history) \in Nat
    BY DEF FanoutInv, TypeOK, Positions, Served
  <2>2. CASE i <= snap[q] /\ InLastGop(history, i, snap[q])
    BY <2>1, <2>2 DEF FanoutInv, Copied
  <2>3. CASE i \in snap[q] + 1 .. cursor[q] /\ i > lost[q]
    BY <2>1, <2>3 DEF FanoutInv, Copied
  <2> QED
    BY <2>2, <2>3
<1> QED
  BY <1>1, Invariant, PTL
---------------------------------------------------------------------------
(***************************************************************************)
(* Nobody is forgotten: the safety that the liveness of a channel rests on. *)
(***************************************************************************)

\* A message that is not at the head is still in the queue when that is taken.
LEMMA StillQueued ==
  ASSUME incoming \in Seq(Message), incoming # <<>>, NEW m, m # Head(incoming),
         NEW i \in 1 .. Len(incoming), incoming[i] = m
  PROVE  \E j \in 1 .. Len(Tail(incoming)) : Tail(incoming)[j] = m
<1>1. /\ Head(incoming) = incoming[1] /\ Len(Tail(incoming)) = Len(incoming) - 1
      /\ Len(incoming) \in Nat
      /\ \A j \in 1 .. Len(incoming) - 1 : Tail(incoming)[j] = incoming[j + 1]
  OBVIOUS
<1>2. i - 1 \in 1 .. Len(incoming) - 1 /\ (i - 1) + 1 = i
  BY <1>1
<1> QED
  BY <1>1, <1>2

\* And when another joins.
LEMMA QueuedStill ==
  ASSUME incoming \in Seq(Message), NEW x \in Message, NEW m,
         NEW i \in 1 .. Len(incoming), incoming[i] = m
  PROVE  \E j \in 1 .. Len(Append(incoming, x)) : Append(incoming, x)[j] = m
<1>1. i \in 1 .. Len(Append(incoming, x)) /\ Append(incoming, x)[i] = incoming[i]
  OBVIOUS
<1> QED
  BY <1>1

\* A player waits in the queue until it is answered: no step takes its InitData
\* away without a reply, and only an end of the channel drops it, with one.
LEMMA ForgottenStep ==
  ASSUME TypeOK, NobodyForgotten, [Next]_vars
  PROVE  NobodyForgotten'
<1> DEFINE Queued(q) == \E i \in 1 .. Len(incoming) : incoming[i] = InitDataMsg(q)
<1>0. /\ incoming \in Seq(Message)
      /\ state \in [Players -> PlayerState] /\ reply \in [Players -> Reply]
  BY DEF TypeOK
<1> SUFFICES ASSUME NEW q \in Players, state'[q] = "waiting", reply'[q].status = "none"
             PROVE  channel' = "running" /\ Queued(q)'
  BY DEF NobodyForgotten
<1>1. CASE RequestInit(q)
  <2>1. channel = "running" /\ incoming' = Append(incoming, InitDataMsg(q))
    BY <1>0, <1>1 DEF RequestInit
  <2>2. InitDataMsg(q) \in Message
    BY DEF InitDataMsg, Message
  <2>3. /\ Len(incoming) + 1 \in 1 .. Len(incoming')
        /\ incoming'[Len(incoming) + 1] = InitDataMsg(q)
    BY <1>0, <2>1, <2>2
  <2> QED
    BY <1>1, <2>1, <2>3 DEF RequestInit, channelVars
<1>2. CASE ~RequestInit(q)
  <2>1. state[q] = "waiting" /\ reply[q].status = "none"
    <3>1. ASSUME NEW p \in Players, Join(p) \/ Player(p) \/ Leave(p), ~RequestInit(q)
          PROVE  state[q] = "waiting" /\ reply[q].status = "none"
      BY <1>0, <3>1
         DEF Join, Player, RequestInit, ReceiveInit, Receive, Lag, Closed, Leave
    <3>2. CASE Publish \/ Disconnect \/ Release \/ HandlePacket \/ UNCHANGED vars
      BY <3>2 DEF Publish, Disconnect, Release, HandlePacket, playerVars, vars
    <3>3. CASE HandleInitData \/ HandleDisconnect
      <4>1. state' = state /\ (reply'[q] = reply[q] \/ reply'[q].status # "none")
        BY <1>0, <3>3
           DEF HandleInitData, HandleDisconnect, Ready, DroppedReply, channelVars
      <4> QED
        BY <4>1
    <3> QED
      BY <1>2, <3>1, <3>2, <3>3 DEF Next, Channel
  <2>2. channel = "running" /\ Queued(q)
    BY <2>1 DEF NobodyForgotten
  <2> PICK i \in 1 .. Len(incoming) : incoming[i] = InitDataMsg(q)
    BY <2>2
  <2>3. CASE incoming' = incoming /\ channel' = channel
    BY <2>2, <2>3
  <2>4. ASSUME NEW x \in Message, incoming' = Append(incoming, x), channel' = channel
        PROVE  channel' = "running" /\ Queued(q)'
    <3>1. \E j \in 1 .. Len(Append(incoming, x)) : Append(incoming, x)[j] = InitDataMsg(q)
      BY <1>0, QueuedStill
    <3> QED
      BY <2>2, <2>4, <3>1
  <2>5. ASSUME incoming # <<>>, incoming' = Tail(incoming), channel' = channel,
               InitDataMsg(q) # Head(incoming)
        PROVE  channel' = "running" /\ Queued(q)'
    <3>1. \E j \in 1 .. Len(Tail(incoming)) : Tail(incoming)[j] = InitDataMsg(q)
      BY <1>0, <2>5, StillQueued
    <3> QED
      BY <2>2, <2>5, <3>1
  <2>6. CASE Publish
    <3>1. PICK s \in Shapes : incoming' = Append(incoming, PacketMsg(
            [kind |-> s.kind, is_seq_header |-> s.is_seq_header,
             is_key_frame |-> s.is_key_frame, timestamp |-> sent + 1]))
      BY <2>6 DEF Publish
    <3> DEFINE p == [kind |-> s.kind, is_seq_header |-> s.is_seq_header,
                     is_key_frame |-> s.is_key_frame, timestamp |-> sent + 1]
    <3>2. p \in MediaPacket
      BY ShapesAssumption, MaxPacketsAssumption DEF TypeOK, MediaPacket
    <3> HIDE DEF p
    <3>3. PacketMsg(p) \in Message
      BY <3>2 DEF PacketMsg, Message
    <3>4. incoming' = Append(incoming, PacketMsg(p)) /\ channel' = channel
      BY <2>6, <3>1 DEF p, Publish, channelVars
    <3> QED
      BY <2>4, <3>3, <3>4
  <2>7. CASE Disconnect
    <3>1. DisconnectMsg \in Message
      BY DEF DisconnectMsg, Message
    <3> QED
      BY <2>4, <2>7, <3>1 DEF Disconnect, channelVars
  <2>8. CASE HandlePacket
    <3>1. InitDataMsg(q) # Head(incoming)
      BY <2>8 DEF HandlePacket, InitDataMsg
    <3> QED
      BY <2>5, <2>8, <3>1 DEF HandlePacket
  <2>9. CASE HandleInitData
    <3>1. InitDataMsg(q) # Head(incoming)
      <4> SUFFICES ASSUME InitDataMsg(q) = Head(incoming) PROVE FALSE
        OBVIOUS
      <4>1. Head(incoming).player = q
        BY DEF InitDataMsg
      <4> QED
        BY <1>0, <2>9, <4>1 DEF HandleInitData, Ready
    <3> QED
      BY <2>5, <2>9, <3>1 DEF HandleInitData, channelVars
  <2>10. CASE HandleDisconnect
    BY <1>0, <2>2, <2>10 DEF HandleDisconnect, DroppedReply
  <2>11. ASSUME NEW p \in Players, RequestInit(p)
         PROVE  channel' = "running" /\ Queued(q)'
    <3>1. InitDataMsg(p) \in Message
      BY DEF InitDataMsg, Message
    <3> QED
      BY <2>3, <2>4, <2>11, <3>1 DEF RequestInit, channelVars
  <2>12. ASSUME NEW p \in Players,
                \/ Join(p) \/ ReceiveInit(p) \/ Receive(p) \/ Lag(p) \/ Closed(p)
                \/ Leave(p)
         PROVE  channel' = "running" /\ Queued(q)'
    BY <2>3, <2>12 DEF Join, ReceiveInit, Receive, Lag, Closed, Leave, channelVars
  <2>13. CASE Release \/ UNCHANGED vars
    BY <2>3, <2>13 DEF Release, channelVars, vars
  <2> QED
    BY <2>6, <2>7, <2>8, <2>9, <2>10, <2>11, <2>12, <2>13 DEF Next, Channel, Player
<1> QED
  BY <1>1, <1>2

\* A player whose cached packets have not come is in the queue of a channel
\* that runs, so that InitAnswered only needs the channel to go on: an end of
\* the channel drops the queue and, with it, the responders.
THEOREM Remembered == Spec => []NobodyForgotten
<1>1. Init => NobodyForgotten
  BY DEF Init, NobodyForgotten
<1>2. TypeOK /\ NobodyForgotten /\ [Next]_vars => NobodyForgotten'
  BY ForgottenStep
<1> QED
  BY <1>1, <1>2, TypeCorrect, PTL DEF Spec

\* Where no task of the channel or of its players has anything to do, the
\* players of a channel that ended have all been told, and those of one that
\* runs have all it has broadcast (the safety part of PlayersReleased).
THEOREM ReleasedAtRest == Spec => []RestIsReleased
<1>1. FanoutInv /\ NobodyForgotten => RestIsReleased
  <2> SUFFICES ASSUME FanoutInv, NobodyForgotten, AtRest, NEW q \in Players,
                      state[q] \notin {"idle", "ended"}
               PROVE  channel = "running" /\ state[q] = "live"
                      /\ cursor[q] = Len(history)
    BY DEF RestIsReleased
  <2>1. /\ state[q] \in PlayerState /\ channel \in {"running", "closed"}
        /\ cursor[q] \in Nat /\ Len(history) \in Nat /\ cursor[q] <= Len(history)
    BY DEF FanoutInv, TypeOK, Positions
  <2>2. state[q] # "waiting"
    <3> SUFFICES ASSUME state[q] = "waiting" PROVE FALSE
      OBVIOUS
    <3>1. reply[q].status = "none"
      BY DEF AtRest
    <3>2. channel = "running" /\ \E i \in 1 .. Len(incoming) : incoming[i] = InitDataMsg(q)
      BY <3>1 DEF NobodyForgotten
    <3>3. incoming # <<>>
      BY <3>2
    <3> QED
      BY <3>2, <3>3 DEF AtRest
  <2>3. state[q] = "live"
    BY <2>1, <2>2 DEF AtRest, PlayerState
  <2>4. cursor[q] = Len(history)
    BY <2>1, <2>3 DEF AtRest, Unread
  <2>5. channel = "running"
    BY <2>1, <2>3 DEF AtRest, Stopped
  <2> QED
    BY <2>3, <2>4, <2>5
<1> QED
  BY <1>1, Invariant, Remembered, PTL

---------------------------------------------------------------------------
(***************************************************************************)
(* Decodability.  The packets a player was sent are its snapshot and then  *)
(* packets of the ring, each after all that its subscription has before    *)
(* it.  What a frame after the snapshot needs is either later than the     *)
(* snapshot, and then came through the ring before it, or is the header or *)
(* the open GOP of the snapshot.                                           *)
(***************************************************************************)

\* A packet's timestamp is its position in the history, and none is missing
\* from the queue.
Numbered ==
  /\ \A i \in 1 .. Len(history) : history[i].timestamp = i
  /\ \A i \in 1 .. Len(incoming) : IsPacket(incoming[i]) =>
       incoming[i].packet.timestamp > Len(history)
  /\ channel = "running" =>
       \A t \in Len(history) + 1 .. sent : \E i \in 1 .. Len(incoming) :
         IsPacket(incoming[i]) /\ incoming[i].packet.timestamp = t

\* A snapshot holds nothing later than its time, and the header then in force.
SnapshotHasHeader ==
  \A q \in Players : reply[q].status = "ready" =>
    /\ \A m \in 1 .. Len(reply[q].packets) : reply[q].packets[m].timestamp <= snap[q]
    /\ \A j \in 1 .. snap[q] :
         IsVideoHeader(history[j])
         /\ (\A k \in j + 1 .. snap[q] : ~IsVideoHeader(history[k]))
         => \E m \in 1 .. Len(reply[q].packets) : reply[q].packets[m] = history[j]

\* The socket of a player got the snapshot, then the ring in its order.
Laid ==
  \A q \in Players : Served(q) =>
    /\ Len(reply[q].packets) <= Len(out[q])
    /\ \A n \in 1 .. Len(reply[q].packets) : out[q][n] = reply[q].packets[n]
    /\ \A m \in Len(reply[q].packets) + 1 .. Len(out[q]) :
         /\ out[q][m].timestamp <= cursor[q]
         /\ \A j \in sub[q] + 1 .. out[q][m].timestamp - 1 :
              j > lost[q] => \E n \in 1 .. m - 1 : out[q][n] = history[j]

DecodeInv == FanoutInv /\ Numbered /\ SnapshotHasHeader /\ Laid

\* Packets are numbered as they are sent, and handled in that order.
LEMMA NumberedStep ==
  ASSUME TypeOK, TypeOK', Ordered, Ordered', Numbered, [Next]_vars
  PROVE  Numbered'
<1> USE DEF IsPacket
<1>0. /\ sent \in Nat /\ incoming \in Seq(Message) /\ history \in Seq(MediaPacket)
      /\ Len(history) \in Nat
      /\ \A m \in Message : m.type = "Packet" => m.packet.timestamp \in Nat
      /\ \A p \in MediaPacket : p.timestamp \in Nat
  BY MessageFields, MaxPacketsAssumption DEF TypeOK, MediaPacket
<1>1. ASSUME Publish, NEW p \in MediaPacket, p.timestamp = sent + 1,
             incoming' = Append(incoming, PacketMsg(p))
      PROVE  Numbered'
  <2>1. sent' = sent + 1 /\ history' = history /\ channel' = channel
    BY <1>1 DEF Publish, channelVars
  <2>2. /\ Len(incoming') = Len(incoming) + 1
        /\ \A i \in 1 .. Len(incoming) : incoming'[i] = incoming[i]
        /\ incoming'[Len(incoming) + 1] = PacketMsg(p)
    BY <1>0, <1>1
  <2>3. PacketMsg(p).packet = p /\ PacketMsg(p).type = "Packet"
    BY DEF PacketMsg
  <2>4. Len(history) <= sent
    <3>1. CASE Len(history) = 0
      BY <1>0, <3>1
    <3>2. CASE Len(history) # 0
      <4>1. Len(history) \in 1 .. Len(history)
        BY <1>0, <3>2
      <4> QED
        BY <4>1 DEF Ordered, Numbered
    <3> QED
      BY <3>1, <3>2
  <2>5. \A i \in 1 .. Len(incoming') : IsPacket(incoming'[i]) =>
          incoming'[i].packet.timestamp > Len(history')
    BY <1>0, <1>1, <2>1, <2>2, <2>3, <2>4 DEF Numbered
  <2>6. ASSUME channel = "running", NEW t \in Len(history) + 1 .. sent + 1
        PROVE  \E i \in 1 .. Len(incoming') :
                 IsPacket(incoming'[i]) /\ incoming'[i].packet.timestamp = t
    <3>1. CASE t = sent + 1
      <4>1. Len(incoming) + 1 \in 1 .. Len(incoming')
        BY <1>0, <2>2
      <4> QED
        BY <1>1, <2>2, <2>3, <3>1, <4>1
    <3>2. CASE t # sent + 1
      <4>1. t \in Len(history) + 1 .. sent
        BY <1>0, <2>6, <3>2
      <4>2. PICK i \in 1 .. Len(incoming) :
              IsPacket(incoming[i]) /\ incoming[i].packet.timestamp = t
        BY <2>6, <4>1 DEF Numbered
      <4> QED
        BY <1>0, <2>2, <4>2
    <3> QED
      BY <3>1, <3>2
  <2>7. \A i \in 1 .. Len(history') : history'[i].timestamp = i
    BY <2>1 DEF Numbered
  <2> QED
    BY <2>1, <2>5, <2>6, <2>7 DEF Numbered
<1>2. ASSUME Unchanged1, channel' = channel, NEW m, m.type # "Packet",
             incoming' = Append(incoming, m)
      PROVE  Numbered'
  <2>1. /\ Len(incoming') = Len(incoming) + 1
        /\ \A i \in 1 .. Len(incoming) : incoming'[i] = incoming[i]
        /\ incoming'[Len(incoming) + 1] = m
    BY <1>0, <1>2
  <2> QED
    BY <1>0, <1>2, <2>1 DEF Numbered, Unchanged1
<1>3. CASE HandlePacket
  <2>1. /\ Len(incoming') = Len(incoming) - 1
        /\ \A i \in 1 .. Len(incoming') : incoming'[i] = incoming[i + 1]
        /\ Head(incoming) = incoming[1] /\ 1 \in 1 .. Len(incoming)
        /\ Len(incoming) \in Nat
    BY <1>0, <1>3 DEF HandlePacket
  <2>2. /\ Len(history') = Len(history) + 1
        /\ \A i \in 1 .. Len(history) : history'[i] = history[i]
        /\ history'[Len(history) + 1] = incoming[1].packet
    BY <1>0, <1>3, <2>1 DEF HandlePacket
  <2>3. /\ IsPacket(incoming[1]) /\ sent' = sent
        /\ channel = "running" /\ channel' = channel
    BY <1>3, <2>1 DEF HandlePacket
  <2>4. incoming[1].packet.timestamp = Len(history) + 1
    <3>1. /\ incoming[1].packet.timestamp \in Nat
          /\ incoming[1].packet.timestamp > Len(history)
          /\ incoming[1].packet.timestamp <= sent
      BY <1>0, <2>1, <2>3 DEF Numbered, Ordered
    <3>2. Len(history) + 1 \in Len(history) + 1 .. sent
      BY <1>0, <3>1
    <3>3. PICK i \in 1 .. Len(incoming) :
            /\ IsPacket(incoming[i])
            /\ incoming[i].packet.timestamp = Len(history) + 1
      BY <2>3, <3>2 DEF Numbered
    <3>4. 1 < i => incoming[1].packet.timestamp < incoming[i].packet.timestamp
      BY <2>1, <2>3, <3>3 DEF Ordered
    <3> QED
      BY <1>0, <3>1, <3>3, <3>4
  <2>5. \A i \in 1 .. Len(history') : history'[i].timestamp = i
    BY <1>0, <2>2, <2>4 DEF Numbered
  <2>6. \A i \in 1 .. Len(incoming') : IsPacket(incoming'[i]) =>
          incoming'[i].packet.timestamp > Len(history')
    <3> SUFFICES ASSUME NEW i \in 1 .. Len(incoming'), IsPacket(incoming'[i])
                 PROVE  incoming'[i].packet.timestamp > Len(history')
      OBVIOUS
    <3>1. i + 1 \in 1 .. Len(incoming) /\ incoming'[i] = incoming[i + 1] /\ 1 < i + 1
      BY <2>1
    <3>2. incoming[1].packet.timestamp < incoming[i + 1].packet.timestamp
      BY <2>1, <2>3, <3>1 DEF Ordered
    <3>3. incoming[i + 1].packet.timestamp \in Nat
      BY <1>0, <3>1
    <3> QED
      BY <1>0, <2>2, <2>4, <3>1, <3>2, <3>3
  <2>7. ASSUME NEW t \in Len(history') + 1 .. sent'
        PROVE  \E i \in 1 .. Len(incoming') :
                 IsPacket(incoming'[i]) /\ incoming'[i].packet.timestamp = t
    <3>1. t \in Len(history) + 1 .. sent /\ t # Len(history) + 1
      BY <1>0, <2>2, <2>3, <2>7
    <3>2. PICK i \in 1 .. Len(incoming) :
            IsPacket(incoming[i]) /\ incoming[i].packet.timestamp = t
      BY <2>3, <3>1 DEF Numbered
    <3>3. i - 1 \in 1 .. Len(incoming') /\ incoming'[i - 1] = incoming[i]
      BY <2>1, <2>4, <3>1, <3>2
    <3> QED
      BY <3>2, <3>3
  <2> QED
    BY <2>5, <2>6, <2>7 DEF Numbered
<1>4. CASE HandleInitData
  <2>1. /\ Len(incoming') = Len(incoming) - 1
        /\ \A i \in 1 .. Len(incoming') : incoming'[i] = incoming[i + 1]
        /\ Head(incoming) = incoming[1] /\ 1 \in 1 .. Len(incoming)
        /\ Len(incoming) \in Nat
    BY <1>0, <1>4 DEF HandleInitData
  <2>2. /\ sent' = sent /\ history' = history /\ channel' = channel
        /\ ~IsPacket(incoming[1])
    BY <1>4, <2>1 DEF HandleInitData, channelVars
  <2>3. \A i \in 1 .. Len(incoming) : IsPacket(incoming[i]) =>
          i - 1 \in 1 .. Len(incoming') /\ incoming'[i - 1] = incoming[i]
    BY <2>1, <2>2
  <2>4. ASSUME channel = "running", NEW t \in Len(history) + 1 .. sent
        PROVE  \E i \in 1 .. Len(incoming') :
                 IsPacket(incoming'[i]) /\ incoming'[i].packet.timestamp = t
    <3>1. PICK i \in 1 .. Len(incoming) :
            IsPacket(incoming[i]) /\ incoming[i].packet.timestamp = t
      BY <2>4 DEF Numbered
    <3> QED
      BY <2>3, <3>1
  <2>5. \A i \in 1 .. Len(incoming') : i + 1 \in 1 .. Len(incoming)
    BY <2>1
  <2> QED
    BY <2>1, <2>2, <2>4, <2>5 DEF Numbered
<1>5. CASE HandleDisconnect
  <2>1. channel' = "closed" /\ Len(incoming') = 0 /\ history' = history
    BY <1>5 DEF HandleDisconnect
  <2> QED
    BY <2>1 DEF Numbered
<1>6. CASE Unchanged1 /\ incoming' = incoming /\ channel' = channel
  BY <1>6 DEF Unchanged1, Numbered
<1>7. \A q \in Players : InitDataMsg(q).type # "Packet"
  BY DEF InitDataMsg
<1>8. DisconnectMsg.type # "Packet"
  BY DEF DisconnectMsg
<1>9. \/ HandlePacket \/ HandleInitData \/ HandleDisconnect
      \/ channel' = channel
  BY DEF Next, Channel, Player, Publish, Disconnect, Release, Join, RequestInit,
         ReceiveInit, Receive, Lag, Closed, Leave, channelVars, vars
<1> QED
  BY QueueStep, <1>1, <1>2, <1>3, <1>4, <1>5, <1>6, <1>7, <1>8, <1>9

\* What a snapshot holds, when it is taken.
LEMMA SnapshotTaken ==
  ASSUME TypeOK, CacheFollowsHistory, Numbered
  PROVE  /\ \A m \in 1 .. Len(InitPackets(cache)) :
              InitPackets(cache)[m].timestamp <= Len(history)
         /\ \A j \in 1 .. Len(history) :
              IsVideoHeader(history[j])
              /\ (\A k \in j + 1 .. Len(history) : ~IsVideoHeader(history[k]))
              => \E m \in 1 .. Len(InitPackets(cache)) :
                   InitPackets(cache)[m] = history[j]
<1>0. history \in Seq(MediaPacket) /\ Len(history) \in Nat /\ cache \in Cache
  BY DEF TypeOK
<1>1. ASSUME NEW slot, slot # NoPacket, NEW S, IsLast(history, slot, S)
      PROVE  \E i \in 1 .. Len(history) : slot = history[i]
  BY <1>1 DEF IsLast
<1>2. ASSUME NEW m \in 1 .. Len(InitPackets(cache))
      PROVE  \E i \in 1 .. Len(history) : InitPackets(cache)[m] = history[i]
  <2>1. CASE InitPackets(cache)[m] \in
               {cache.metadata, cache.video_seq_header, cache.audio_seq_header}
               \ {NoPacket}
    BY <1>1, <2>1 DEF CacheFollowsHistory, IsCacheOf
  <2>2. CASE \E n \in 1 .. Len(cache.gop) : InitPackets(cache)[m] = cache.gop[n]
    BY <2>2 DEF CacheFollowsHistory, IsCacheOf, IsGopOf
  <2> QED
    BY <1>0, <2>1, <2>2, InitPacketsAreCached
<1>3. \A m \in 1 .. Len(InitPackets(cache)) :
        InitPackets(cache)[m].timestamp <= Len(history)
  BY <1>0, <1>2 DEF Numbered
<1>4. ASSUME NEW j \in 1 .. Len(history), IsVideoHeader(history[j]),
             \A k \in j + 1 .. Len(history) : ~IsVideoHeader(history[k])
      PROVE  \E m \in 1 .. Len(InitPackets(cache)) :
               InitPackets(cache)[m] = history[j]
  <2>1. history[j] \in VideoHeaders
    BY <1>0, <1>4 DEF VideoHeaders
  <2>2. \A k \in 1 .. Len(history) : history[k] \in VideoHeaders => k <= j
    BY <1>0, <1>4 DEF VideoHeaders
  <2>3. IsLast(history, cache.video_seq_header, VideoHeaders)
    BY DEF CacheFollowsHistory, IsCacheOf
  <2>4. cache.video_seq_header # NoPacket
    BY <2>1, <2>3 DEF IsLast
  <2>5. PICK i \in 1 .. Len(history) :
          /\ history[i] = cache.video_seq_header
          /\ cache.video_seq_header \in VideoHeaders
          /\ \A k \in i + 1 .. Len(history) : history[k] \notin VideoHeaders
    BY <2>3, <2>4 DEF IsLast
  <2>6. i = j
    BY <1>0, <2>1, <2>2, <2>5
  <2> QED
    BY <1>0, <2>4, <2>5, <2>6, InitPacketsHaveHeader
<1> QED
  BY <1>3, <1>4

\* A snapshot keeps its header and its time as the history grows.
LEMMA SnapshotHeaderStep ==
  ASSUME TypeOK, CacheFollowsHistory, Positions, Numbered, SnapshotHasHeader,
         [Next]_vars
  PROVE  SnapshotHasHeader'
<1>0. /\ history \in Seq(MediaPacket) /\ Len(history) \in Nat
      /\ reply \in [Players -> Reply] /\ snap \in [Players -> Nat]
  BY DEF TypeOK
<1>1. CASE UNCHANGED <<history, reply, snap>>
  BY <1>1 DEF SnapshotHasHeader
<1>2. CASE HandlePacket
  <2>1. PICK p \in MediaPacket : history' = Append(history, p)
    BY <1>2, TakeMessage, MessageFields DEF HandlePacket, TypeOK
  <2>2. \A i \in 1 .. Len(history) : history'[i] = history[i]
    BY <1>0, <2>1
  <2>3. reply' = reply /\ snap' = snap
    BY <1>2 DEF HandlePacket, playerVars
  <2>4. \A q \in Players : reply[q].status = "ready" =>
          \A i \in 1 .. snap[q] : history'[i] = history[i]
    BY <1>0, <2>2 DEF Positions
  <2>5. ASSUME NEW q \in Players, reply[q].status = "ready",
               NEW j \in 1 .. snap[q], IsVideoHeader(history'[j]),
               \A k \in j + 1 .. snap[q] : ~IsVideoHeader(history'[k])
        PROVE  \E m \in 1 .. Len(reply[q].packets) :
                 reply[q].packets[m] = history'[j]
    <3>1. \A k \in j + 1 .. snap[q] : k \in 1 .. snap[q]
      BY <1>0, <2>5
    <3>2. /\ history'[j] = history[j]
          /\ \A k \in j + 1 .. snap[q] : history'[k] = history[k]
      BY <2>4, <2>5, <3>1
    <3>3. \A k \in j + 1 .. snap[q] : ~IsVideoHeader(history[k])
      BY <2>5, <3>2
    <3>4. IsVideoHeader(history[j])
      BY <2>5, <3>2
    <3> QED
      BY <2>5, <3>2, <3>3, <3>4 DEF SnapshotHasHeader
  <2> QED
    BY <2>3, <2>5 DEF SnapshotHasHeader
<1>3. CASE HandleInitData
  <2> DEFINE p == Head(incoming).player
  <2>1. /\ history' = history
        /\ \A q \in Players : q # p => reply'[q] = reply[q] /\ snap'[q] = snap[q]
        /\ p \in Players => /\ reply'[p].packets = InitPackets(cache)
                            /\ snap'[p] = Len(history)
    BY <1>0, <1>3 DEF HandleInitData, channelVars, Ready
  <2> HIDE DEF p
  <2> SUFFICES ASSUME NEW q \in Players, reply'[q].status = "ready"
               PROVE  /\ \A m \in 1 .. Len(reply'[q].packets) :
                           reply'[q].packets[m].timestamp <= snap'[q]
                      /\ \A j \in 1 .. snap'[q] :
                           IsVideoHeader(history[j])
                           /\ (\A k \in j + 1 .. snap'[q] : ~IsVideoHeader(history[k]))
                           => \E m \in 1 .. Len(reply'[q].packets) :
                                reply'[q].packets[m] = history[j]
    BY <2>1 DEF SnapshotHasHeader
  <2>2. CASE q = p
    BY <2>1, <2>2, SnapshotTaken
  <2>3. CASE q # p
    BY <2>1, <2>3 DEF SnapshotHasHeader
  <2> QED
    BY <2>2, <2>3
<1>4. CASE HandleDisconnect
  <2>1. \A q \in Players :
          reply'[q] = reply[q] \/ reply'[q].status = "dropped"
    BY <1>0, <1>4 DEF HandleDisconnect, DroppedReply
  <2>2. history' = history /\ snap' = snap
    BY <1>4 DEF HandleDisconnect
  <2>3. \A q \in Players : reply'[q].status = "ready" => reply'[q] = reply[q]
    BY <2>1
  <2> HIDE DEF SnapshotHasHeader
  <2>4. ASSUME NEW q \in Players, reply'[q].status = "ready"
        PROVE  reply'[q] = reply[q] /\ reply[q].status = "ready"
    BY <2>3, <2>4
  <2> QED
    BY <2>2, <2>4 DEF SnapshotHasHeader
<1> QED
  BY <1>1, <1>2, <1>3, <1>4
     DEF Next, Channel, Player, Publish, Disconnect, Release, Join, RequestInit,
         ReceiveInit, Receive, Lag, Closed, Leave, channelVars, playerVars, vars

\* What is written to a player's socket keeps its order.
LEMMA LaidStep ==
  ASSUME TypeOK, Requested, Positions, Copied, Numbered, Laid, [Next]_vars
  PROVE  Laid'
<1>0. /\ history \in Seq(MediaPacket) /\ Len(history) \in Nat
      /\ incoming \in Seq(Message)
      /\ state \in [Players -> PlayerState] /\ reply \in [Players -> Reply]
      /\ cursor \in [Players -> Nat] /\ sub \in [Players -> Nat]
      /\ snap \in [Players -> Nat] /\ lost \in [Players -> Nat]
      /\ out \in [Players -> Seq(MediaPacket)]
      /\ \A p \in MediaPacket : p.timestamp \in Nat
  <2>1. \A p \in MediaPacket : p.timestamp \in Nat
    BY DEF MediaPacket
  <2> QED
    BY <2>1 DEF TypeOK
<1>9. \A q \in Players : Served(q) => Len(reply[q].packets) \in Nat
  BY <1>0 DEF Served, Reply
<1>1. CASE UNCHANGED <<history, playerVars>>
  BY <1>1 DEF playerVars, Laid, Served
<1>2. CASE HandlePacket
  <2>1. PICK p \in MediaPacket : history' = Append(history, p)
    BY <1>2, TakeMessage, MessageFields DEF HandlePacket, TypeOK
  <2>2. \A i \in 1 .. Len(history) : history'[i] = history[i]
    BY <1>0, <2>1
  <2>3. UNCHANGED playerVars
    BY <1>2 DEF HandlePacket
  <2>4. ASSUME NEW q \in Players, Served(q),
               NEW m \in Len(reply[q].packets) + 1 .. Len(out[q]),
               NEW j \in sub[q] + 1 .. out[q][m].timestamp - 1
        PROVE  history'[j] = history[j]
    <3>1. m \in 1 .. Len(out[q])
      BY <1>0, <1>9, <2>4
    <3>2. out[q][m].timestamp \in Nat
      BY <1>0, <3>1
    <3>3. out[q][m].timestamp <= cursor[q] /\ cursor[q] <= Len(history)
      BY <2>4 DEF Laid, Positions
    <3>4. j \in 1 .. Len(history)
      BY <1>0, <2>4, <3>2, <3>3
    <3> QED
      BY <2>2, <3>4
  <2> QED
    BY <2>3, <2>4 DEF Laid, Served, playerVars
<1>3. CASE HandleInitData
  <2>1. Head(incoming) = incoming[1] /\ 1 \in 1 .. Len(incoming)
    BY <1>0, <1>3 DEF HandleInitData
  <2>2. state[Head(incoming).player] = "waiting"
    BY <1>3, <2>1 DEF HandleInitData, Requested, IsInitData
  <2>3. \A q \in Players : state[q] = "live" => reply'[q] = reply[q]
    BY <1>0, <1>3, <2>2 DEF HandleInitData
  <2> QED
    BY <1>3, <2>3 DEF HandleInitData, channelVars, Laid, Served
<1>4. CASE HandleDisconnect
  <2>1. \A q \in Players :
          reply'[q] = reply[q] \/ reply'[q].status = "dropped"
    BY <1>0, <1>4 DEF HandleDisconnect, DroppedReply
  <2> QED
    BY <1>4, <2>1 DEF HandleDisconnect, Laid, Served
<1>5. ASSUME NEW q \in Players,
             Join(q) \/ RequestInit(q) \/ Closed(q) \/ Leave(q)
      PROVE  Laid'
  <2>1. /\ history' = history /\ reply' = reply /\ out' = out /\ lost' = lost
        /\ \A p \in Players : p # q =>
             state'[p] = state[p] /\ cursor'[p] = cursor[p] /\ sub'[p] = sub[p]
        /\ state'[q] # "live"
    <3>1. CASE Join(q)
      BY <1>0, <3>1 DEF Join, channelVars
    <3>2. CASE RequestInit(q)
      BY <1>0, <3>2 DEF RequestInit, channelVars
    <3>3. CASE Closed(q) \/ Leave(q)
      BY <1>0, <3>3 DEF Closed, Leave, channelVars
    <3> QED
      BY <1>5, <3>1, <3>2, <3>3
  <2> QED
    BY <2>1 DEF Laid, Served
<1>6. ASSUME NEW q \in Players, ReceiveInit(q) PROVE Laid'
  <2>1. /\ history' = history /\ reply' = reply
        /\ lost' = lost /\ cursor' = cursor /\ sub' = sub
        /\ \A p \in Players : p # q => state'[p] = state[p] /\ out'[p] = out[p]
    BY <1>0, <1>6 DEF ReceiveInit, channelVars
  <2>2. reply[q].status = "ready" =>
          out'[q] = reply[q].packets /\ Len(reply[q].packets) \in Nat
    BY <1>0, <1>6 DEF ReceiveInit, Reply
  <2>3. reply[q].status = "ready" =>
          \A m \in Len(reply[q].packets) + 1 .. Len(out'[q]) : FALSE
    BY <2>2
  <2> QED
    BY <2>1, <2>2, <2>3, SMTT(30) DEF Laid, Served
<1>7. ASSUME NEW q \in Players, Receive(q) PROVE Laid'
  <2>1. /\ history' = history /\ reply' = reply /\ sub' = sub
        /\ lost' = lost /\ state' = state
        /\ \A p \in Players : p # q => cursor'[p] = cursor[p] /\ out'[p] = out[p]
        /\ cursor'[q] = cursor[q] + 1
        /\ out'[q] = Append(out[q], history[cursor[q] + 1])
    BY <1>0, <1>7 DEF Receive, channelVars
  <2>2. cursor[q] + 1 \in 1 .. Len(history)
    BY <1>0, <1>7 DEF Receive, Unread
  <2>3. /\ Len(out'[q]) = Len(out[q]) + 1 /\ Len(out[q]) \in Nat
        /\ \A m \in 1 .. Len(out[q]) : out'[q][m] = out[q][m]
        /\ out'[q][Len(out[q]) + 1] = history[cursor[q] + 1]
    BY <1>0, <2>1, <2>2
  <2>4. history[cursor[q] + 1].timestamp = cursor[q] + 1
    BY <2>2 DEF Numbered
  <2> DEFINE Good(p) ==
               /\ Len(reply[p].packets) <= Len(out'[p])
               /\ \A n \in 1 .. Len(reply[p].packets) :
                    out'[p][n] = reply[p].packets[n]
               /\ \A m \in Len(reply[p].packets) + 1 .. Len(out'[p]) :
                    /\ out'[p][m].timestamp <= cursor'[p]
                    /\ \A j \in sub[p] + 1 .. out'[p][m].timestamp - 1 :
                         j > lost[p] =>
                           \E n \in 1 .. m - 1 : out'[p][n] = history[j]
  <2>9. ASSUME NEW p \in Players, p # q, Served(p) PROVE Good(p)
    <3>1. out'[p] = out[p] /\ cursor'[p] = cursor[p]
      BY <2>1, <2>9
    <3>2. /\ Len(reply[p].packets) <= Len(out[p])
          /\ \A n \in 1 .. Len(reply[p].packets) : out[p][n] = reply[p].packets[n]
      BY <2>9 DEF Laid
    <3>3. \A m \in Len(reply[p].packets) + 1 .. Len(out[p]) :
            /\ out[p][m].timestamp <= cursor[p]
            /\ \A j \in sub[p] + 1 .. out[p][m].timestamp - 1 :
                 j > lost[p] => \E n \in 1 .. m - 1 : out[p][n] = history[j]
      BY <2>9 DEF Laid
    <3> QED
      BY <3>1, <3>2, <3>3
  <2>10. (\A p \in Players : Served(p) => Good(p)) => Laid'
    BY <2>1 DEF Laid, Served
  <2> SUFFICES ASSUME Served(q) PROVE Good(q)
    BY <2>9, <2>10, SMTT(30)
  <2> DEFINE k == Len(reply[q].packets)
  <2>5. k \in Nat /\ k <= Len(out[q])
    BY <1>9 DEF Laid
  <2>6. \A n \in 1 .. k : out'[q][n] = reply[q].packets[n]
    BY <2>3, <2>5 DEF Laid
  <2>7. ASSUME NEW m \in k + 1 .. Len(out'[q])
        PROVE  /\ out'[q][m].timestamp <= cursor'[q]
               /\ \A j \in sub[q] + 1 .. out'[q][m].timestamp - 1 :
                    j > lost[q] => \E n \in 1 .. m - 1 : out'[q][n] = history[j]
    <3>1. CASE m = Len(out[q]) + 1
      <4>1. out'[q][m].timestamp = cursor[q] + 1
        BY <2>3, <2>4, <3>1
      <4>2. ASSUME NEW j \in sub[q] + 1 .. cursor[q], j > lost[q]
            PROVE  \E n \in 1 .. m - 1 : out'[q][n] = history[j]
        <5>1. PICK n \in 1 .. Len(out[q]) : out[q][n] = history[j]
          BY <4>2 DEF Copied, Received
        <5> QED
          BY <2>3, <3>1, <5>1
      <4>3. sub[q] + 1 .. out'[q][m].timestamp - 1 = sub[q] + 1 .. cursor[q]
        BY <1>0, <4>1
      <4> QED
        BY <1>0, <2>1, <4>1, <4>2, <4>3, SMTT(30)
    <3>2. CASE m # Len(out[q]) + 1
      <4>1. m \in k + 1 .. Len(out[q]) /\ m \in 1 .. Len(out[q])
        BY <2>3, <2>5, <2>7, <3>2
      <4>2. out'[q][m] = out[q][m] /\ out[q][m].timestamp \in Nat
        BY <1>0, <2>3, <4>1
      <4>3. out[q][m].timestamp <= cursor[q]
        BY <4>1 DEF Laid
      <4>4. ASSUME NEW j \in sub[q] + 1 .. out[q][m].timestamp - 1, j > lost[q]
            PROVE  \E n \in 1 .. m - 1 : out'[q][n] = history[j]
        <5>1. PICK n \in 1 .. m - 1 : out[q][n] = history[j]
          BY <4>1, <4>4 DEF Laid
        <5>2. n \in 1 .. Len(out[q])
          BY <2>3, <4>1, <5>1
        <5> QED
          BY <2>3, <5>1, <5>2
      <4>5. out'[q][m].timestamp = out[q][m].timestamp
        BY <4>2
      <4>6. out'[q][m].timestamp <= cursor'[q]
        BY <1>0, <2>1, <4>2, <4>3, <4>5
      <4> QED
        BY <4>4, <4>5, <4>6
    <3> QED
      BY <3>1, <3>2
  <2>8. k <= Len(out'[q])
    BY <2>3, <2>5
  <2> QED
    BY <2>6, <2>7, <2>8, Zenon
<1>8. ASSUME NEW q \in Players, Lag(q) PROVE Laid'
  <2>1. /\ history' = history /\ reply' = reply /\ sub' = sub
        /\ out' = out /\ state' = state
        /\ \A p \in Players : p # q => cursor'[p] = cursor[p] /\ lost'[p] = lost[p]
        /\ cursor'[q] = Len(history) - Capacity
        /\ lost'[q] = Len(history) - Capacity
        /\ cursor[q] <= cursor'[q] /\ cursor'[q] \in Int
    BY <1>0, <1>8, CapacityAssumption DEF Lag, Unread, channelVars
  <2>2. ASSUME Served(q), NEW m \in Len(reply[q].packets) + 1 .. Len(out[q])
        PROVE  /\ out[q][m].timestamp <= cursor'[q]
               /\ \A j \in sub[q] + 1 .. out[q][m].timestamp - 1 : ~(j > lost'[q])
    <3>1. m \in 1 .. Len(out[q])
      BY <1>0, <1>9, <2>2
    <3>2. out[q][m].timestamp \in Nat /\ out[q][m].timestamp <= cursor[q]
      BY <1>0, <2>2, <3>1 DEF Laid
    <3>3. /\ cursor[q] \in Nat /\ sub[q] \in Nat
          /\ cursor'[q] \in Int /\ cursor[q] <= cursor'[q] /\ lost'[q] = cursor'[q]
      BY <1>0, <2>1
    <3>4. out[q][m].timestamp <= cursor'[q]
      BY <3>2, <3>3
    <3>5. ASSUME NEW j \in sub[q] + 1 .. out[q][m].timestamp - 1 PROVE ~(j > lost'[q])
      BY <3>2, <3>3
    <3> QED
      BY <3>4, <3>5
  <2> DEFINE Good(p) ==
               /\ Len(reply[p].packets) <= Len(out[p])
               /\ \A n \in 1 .. Len(reply[p].packets) : out[p][n] = reply[p].packets[n]
               /\ \A m \in Len(reply[p].packets) + 1 .. Len(out[p]) :
                    /\ out[p][m].timestamp <= cursor'[p]
                    /\ \A j \in sub[p] + 1 .. out[p][m].timestamp - 1 :
                         j > lost'[p] => \E n \in 1 .. m - 1 : out[p][n] = history[j]
  <2>3. ASSUME NEW p \in Players, p # q, Served(p) PROVE Good(p)
    <3>1. cursor'[p] = cursor[p] /\ lost'[p] = lost[p]
      BY <2>1, <2>3
    <3>2. /\ Len(reply[p].packets) <= Len(out[p])
          /\ \A n \in 1 .. Len(reply[p].packets) : out[p][n] = reply[p].packets[n]
          /\ \A m \in Len(reply[p].packets) + 1 .. Len(out[p]) :
               /\ out[p][m].timestamp <= cursor[p]
               /\ \A j \in sub[p] + 1 .. out[p][m].timestamp - 1 :
                    j > lost[p] => \E n \in 1 .. m - 1 : out[p][n] = history[j]
      BY <2>3 DEF Laid
    <3> QED
      BY <3>1, <3>2, Zenon
  <2>4. ASSUME Served(q) PROVE Good(q)
    <3>1. /\ Len(reply[q].packets) <= Len(out[q])
          /\ \A n \in 1 .. Len(reply[q].packets) : out[q][n] = reply[q].packets[n]
      BY <2>4 DEF Laid
    <3> QED
      BY <2>2, <2>4, <3>1, Zenon
  <2>5. \A p \in Players : Served(p) => Good(p)
    BY <2>3, <2>4
  <2>6. \A p \in Players : Served(p)' => Served(p)
    BY <2>1 DEF Served
  <2> HIDE DEF Good
  <2>7. (\A p \in Players : Served(p)' => Good(p)) => Laid'
    BY <2>1 DEF Laid, Good
  <2> QED
    BY <2>5, <2>6, <2>7
<1> QED
  BY <1>1, <1>2, <1>3, <1>4, <1>5, <1>6, <1>7, <1>8
     DEF Next, Channel, Player, Publish, Disconnect, Release, channelVars,
         playerVars, vars

\* In a state of the invariant, what a player was sent can be decoded.
LEMMA LaidDecodes == DecodeInv => Decodable
<1> SUFFICES ASSUME DecodeInv, NEW q \in Players, Served(q),
                    NEW m \in 1 .. Len(out[q]),
                    out[q][m].timestamp > snap[q], out[q][m].timestamp > lost[q],
                    NEW j \in Needed(out[q][m].timestamp),
                    lost[q] = 0 \/ j > lost[q]
             PROVE  \E n \in 1 .. m - 1 : out[q][n] = history[j]
  BY DEF Decodable
<1> DEFINE i == out[q][m].timestamp
           k == Len(reply[q].packets)
<1>0. /\ history \in Seq(MediaPacket)
      /\ out[q] \in Seq(MediaPacket) /\ Len(out[q]) \in Nat
      /\ snap[q] \in Nat /\ sub[q] \in Nat /\ lost[q] \in Nat
      /\ sub[q] <= snap[q] /\ i \in Nat /\ j \in 1 .. i - 1
  <2>1. out[q] \in Seq(MediaPacket)
    BY DEF DecodeInv, FanoutInv, TypeOK
  <2>2. i \in Nat
    <3>1. out[q][m] \in MediaPacket
      BY <2>1
    <3> QED
      BY <3>1 DEF MediaPacket
  <2> QED
    BY <2>1, <2>2, SMTT(30) DEF DecodeInv, FanoutInv, TypeOK, Positions, Served, Needed
<1>1. k \in Nat /\ k <= Len(out[q])
  BY DEF DecodeInv, FanoutInv, TypeOK, Served, Reply, Laid
<1>2. m \in k + 1 .. Len(out[q])
  <2>1. CASE m \in 1 .. k
    <3>1. i <= snap[q]
      BY <2>1 DEF DecodeInv, Laid, SnapshotHasHeader, Served
    <3> QED
      BY <1>0, <3>1
  <2> QED
    BY <1>0, <1>1, <2>1
<1>3. CASE j > snap[q]
  <2>1. j \in sub[q] + 1 .. i - 1 /\ j > lost[q]
    BY <1>0, <1>3
  <2> QED
    BY <1>2, <2>1 DEF DecodeInv, Laid
<1>4. CASE j <= snap[q]
  <2>1. j \in 1 .. snap[q]
    BY <1>0, <1>4
  <2>2. \E n \in 1 .. k : reply[q].packets[n] = history[j]
    <3>1. CASE /\ IsVideoHeader(history[j])
               /\ \A l \in j + 1 .. i - 1 : ~IsVideoHeader(history[l])
      <4>1. \A l \in j + 1 .. snap[q] : l \in j + 1 .. i - 1
        BY <1>0
      <4> QED
        BY <2>1, <3>1, <4>1 DEF DecodeInv, SnapshotHasHeader, Served
    <3>2. CASE InLastGop(history, j, i)
      <4>1. \A l \in j + 1 .. snap[q] : l \in j + 1 .. i
        BY <1>0
      <4>2. InLastGop(history, j, snap[q])
        BY <3>2, <4>1 DEF InLastGop
      <4> QED
        BY <2>1, <4>2 DEF DecodeInv, FanoutInv, SnapshotHasGop, Served
    <3> QED
      BY <3>1, <3>2 DEF Needed
  <2>3. PICK n \in 1 .. k : reply[q].packets[n] = history[j]
    BY <2>2
  <2>4. n \in 1 .. m - 1
    BY <1>1, <1>2, <2>3
  <2> QED
    BY <2>3, <2>4 DEF DecodeInv, Laid
<1> QED
  BY <1>0, <1>3, <1>4

\* A player that is served can decode every frame after its snapshot: the
\* header in force and the GOP up to the frame were written to it before, save
\* what the ring overran, for any ring and any number of packets.
THEOREM DecodableCorrect == Spec => []Decodable
<1>1. Init => DecodeInv
  <2> SUFFICES ASSUME Init PROVE DecodeInv
    OBVIOUS
  <2>1. FanoutInv
    BY InvInit
  <2>2. Len(history) = 0 /\ Len(incoming) = 0 /\ sent = 0
    BY DEF Init
  <2>3. Numbered
    BY <2>2 DEF Numbered
  <2>4. SnapshotHasHeader /\ Laid
    BY DEF Init, SnapshotHasHeader, Laid, Served, NoReply
  <2> QED
    BY <2>1, <2>3, <2>4 DEF DecodeInv
<1>2. DecodeInv /\ [Next]_vars => DecodeInv'
  <2> SUFFICES ASSUME DecodeInv, [Next]_vars PROVE DecodeInv'
    OBVIOUS
  <2>1. FanoutInv'
    BY InvStep DEF DecodeInv
  <2>2. Numbered'
    BY <2>1, NumberedStep DEF DecodeInv, FanoutInv
  <2>3. SnapshotHasHeader' /\ Laid'
    BY SnapshotHeaderStep, LaidStep DEF DecodeInv, FanoutInv
  <2> QED
    BY <2>1, <2>2, <2>3 DEF DecodeInv
<1> QED
  BY <1>1, <1>2, LaidDecodes, PTL DEF Spec
=============================================================================
