---------------------------- MODULE CodecProofs ----------------------------
(***************************************************************************)
(* What survives the encodings of Codec, for every packet.                 *)
(***************************************************************************)
EXTENDS Codec, TLAPS, SequenceTheorems

\* The two bits and the two flags of the first byte are apart.
LEMMA FirstByte ==
  ASSUME NEW k \in 1 .. 3, NEW h \in 0 .. 1, NEW f \in 0 .. 1
  PROVE  LET b == k * 64 + h * 32 + f * 16
         IN  b \div 64 = k /\ (b \div 32) % 2 = h /\ (b \div 16) % 2 = f
  BY SMT

\* A 32-bit number is put together again from its bytes.
LEMMA WordBytes ==
  ASSUME NEW n \in Word
  PROVE  LET t == BigEndian(n)
         IN  /\ t[1] \in Byte /\ t[2] \in Byte /\ t[3] \in Byte /\ t[4] \in Byte
             /\ FromBigEndian(t[1], t[2], t[3], t[4]) = n
<1> DEFINE t == BigEndian(n)
<1>1. /\ t[1] = (n \div 16777216) % 256 /\ t[2] = (n \div 65536) % 256
      /\ t[3] = (n \div 256) % 256 /\ t[4] = n % 256
  BY SMT DEF BigEndian
<1>2. n \in Nat /\ n \div 16777216 < 256
  BY SMT DEF Word
<1>3. \A i \in Nat : i % 256 \in Byte
  BY SMT DEF Byte
<1>4. n \div 16777216 \in Nat /\ n \div 65536 \in Nat /\ n \div 256 \in Nat
  BY <1>2, SMT
<1>5. t[1] \in Byte /\ t[2] \in Byte /\ t[3] \in Byte /\ t[4] \in Byte
  <2> HIDE DEF t
  <2> QED  BY <1>1, <1>2, <1>3, <1>4
<1>6. FromBigEndian(t[1], t[2], t[3], t[4]) = n
  <2> HIDE DEF t
  <2> QED  BY <1>1, <1>2, SMT DEF FromBigEndian
<1> QED  BY <1>5, <1>6

\* And so is one that fits in three bytes.
LEMMA Bytes24 ==
  ASSUME NEW n \in Nat, n < 16777216
  PROVE  n = ((n \div 65536) % 256) * 65536 + ((n \div 256) % 256) * 256 + (n % 256)
<1>1. n \div 65536 \in Nat /\ n \div 65536 < 256
  BY SMT
<1>2. (n \div 65536) % 256 = n \div 65536
  BY <1>1, SMT
<1>3. (n \div 256) % 256 = n \div 256 - 256 * (n \div 65536)
  BY SMT
<1>4. n % 256 = n - 256 * (n \div 256)
  BY SMT
<1> QED  BY <1>2, <1>3, <1>4, SMT

\* Every kind has a number that leads back to it.
LEMMA KindNumbers ==
  /\ \A k \in {"Metadata", "Video", "Audio"} :
       MediaKindNumber[k] \in 1 .. 3 /\ NameOf(MediaKindNumber, MediaKindNumber[k]) = k
  /\ \A k \in {"Errors", "Init", "Media", "Ok"} :
       KindNumber[k] \in 1 .. 4 /\ NameOf(KindNumber, KindNumber[k]) = k
  BY SMT DEF MediaKindNumber, KindNumber, NameOf

\* The numbers of the kinds and of the tags are bytes.
LEMMA NumberIsByte ==
  \A n \in {0, 1, 2, 3, 4, 8, 9, 18} : n \in Byte
  BY SMT DEF Byte

\* What was put before a payload is cut off again.
LEMMA CutPrefix ==
  ASSUME NEW S, NEW s \in Seq(S), NEW t \in Seq(S)
  PROVE  /\ s \o t \in Seq(S)
         /\ Len(s \o t) = Len(s) + Len(t)
         /\ SubSeq(s \o t, Len(s) + 1, Len(s \o t)) = t
         /\ \A i \in 1 .. Len(s) : (s \o t)[i] = s[i]
         /\ \A i \in 1 .. Len(t) : (s \o t)[Len(s) + i] = t[i]
  BY SMT

\* A header of n items is cut off again by its length.
LEMMA Header ==
  \A S : \A s, t \in Seq(S) : \A n \in Nat :
    Len(s) = n =>
      /\ s \o t \in Seq(S)
      /\ Len(s \o t) = n + Len(t)
      /\ SubSeq(s \o t, n + 1, Len(s \o t)) = t
      /\ \A i \in 1 .. n : (s \o t)[i] = s[i]
  OBVIOUS

\* What is put before something is still there.
LEMMA Front ==
  \A S : \A s, t \in Seq(S) :
    /\ s \o t \in Seq(S)
    /\ Len(s \o t) = Len(s) + Len(t)
    /\ \A i \in 1 .. Len(s) : (s \o t)[i] = s[i]
  OBVIOUS

\* Four bytes are a sequence.
LEMMA FourBytes ==
  ASSUME NEW S, Byte \subseteq S,
         NEW e, NEW a \in Byte, NEW b \in Byte, NEW c \in Byte, NEW d \in Byte,
         e = <<a, b, c, d>>
  PROVE  e \in Seq(S)
  BY SMT

\* Eleven bytes are a sequence.
LEMMA ElevenBytes ==
  ASSUME NEW S, Byte \subseteq S
  PROVE  \A a, b1, b2, b3, c1, c2, c3, d, z \in Byte :
           <<a, b1, b2, b3, c1, c2, c3, d, z, z, z>> \in Seq(S)
  BY SMT

\* And so it is when something follows.
LEMMA CutMiddle ==
  ASSUME NEW S, NEW s \in Seq(S), NEW t \in Seq(S), NEW v \in Seq(S),
         Len(t) <= Len(v), \A i \in 1 .. Len(t) : v[i] = t[i]
  PROVE  SubSeq(s \o v, Len(s) + 1, Len(s) + Len(t)) = t
<1> DEFINE w == s \o v
           r == SubSeq(w, Len(s) + 1, Len(s) + Len(t))
<1>1. Len(s) \in Nat /\ Len(t) \in Nat /\ Len(v) \in Nat
  BY LenProperties
<1>2. /\ w \in Seq(S) /\ Len(w) = Len(s) + Len(v)
      /\ \A i \in 1 .. Len(v) : w[Len(s) + i] = v[i]
  BY CutPrefix
<1>3. \A i \in Len(s) + 1 .. Len(s) + Len(t) : w[i] \in S
  <2> TAKE i \in Len(s) + 1 .. Len(s) + Len(t)
  <2> HIDE DEF w
  <2>1. i \in 1 .. Len(w)
    BY <1>1, <1>2
  <2> QED  BY <1>2, <2>1, ElementOfSeq
<1>4. /\ r \in Seq(S)
      /\ Len(r) = IF Len(s) + 1 <= Len(s) + Len(t)
                  THEN Len(s) + Len(t) - (Len(s) + 1) + 1 ELSE 0
      /\ \A i \in 1 .. Len(s) + Len(t) - (Len(s) + 1) + 1 : r[i] = w[Len(s) + 1 + i - 1]
  <2> HIDE DEF w
  <2>1. Len(s) + 1 \in Int /\ Len(s) + Len(t) \in Int
    BY <1>1
  <2> QED  BY <1>3, <2>1, SubSeqProperties
<1>5. r \in Seq(S) /\ Len(r) = Len(t) /\ \A i \in 1 .. Len(t) : r[i] = t[i]
  <2> HIDE DEF w, r
  <2>1. Len(r) = Len(t)
    BY <1>1, <1>4, SMT
  <2>2. ASSUME NEW i \in 1 .. Len(t)  PROVE r[i] = t[i]
    <3>1. i \in 1 .. Len(s) + Len(t) - (Len(s) + 1) + 1 /\ i \in 1 .. Len(v)
      BY <1>1, SMT
    <3>2. r[i] = w[Len(s) + 1 + i - 1]
      BY <1>4, <3>1, Zenon
    <3>3. Len(s) + 1 + i - 1 = Len(s) + i
      BY <1>1, SMT
    <3>4. w[Len(s) + i] = v[i]
      BY <1>2, <3>1, Zenon
    <3> QED  BY <3>2, <3>3, <3>4
  <2> QED  BY <1>4, <2>1, <2>2
<1>6. r = t
  <2> HIDE DEF w, r
  <2> QED  BY <1>5, SeqEqual
<1> QED  BY <1>6

---------------------------------------------------------------------------
\* A packet whose payload may also hold what is not looked into: the payload of
\* metadata is a serialized map, which the session's model keeps as one value.
MediaPacketOf(S) ==
  [kind : {"Metadata", "Video", "Audio"}, is_seq_header : BOOLEAN, is_key_frame : BOOLEAN,
   timestamp : Word, payload : Seq(S)]

\* A MediaPacket is one of bytes.
LEMMA MediaPacketIsOfBytes == MediaPacket = MediaPacketOf(Byte)
  BY DEF MediaPacket, MediaPacketOf, Bytes

\* A MediaPacket that one node encodes is what the next one decodes: its kind,
\* its flags, all 32 bits of its timestamp and its payload (message.rs).
THEOREM MediaPacketRoundTrip ==
  ASSUME NEW S, Byte \subseteq S, NEW m \in MediaPacketOf(S)
  PROVE  LET bytes == EncodeMediaPacket(m)
         IN  bytes \in Seq(S) /\ ~Undecodable(bytes) /\ DecodeMediaPacket(bytes) = m
<1> DEFINE k == MediaKindNumber[m.kind]
           h == Bit(m.is_seq_header)
           f == Bit(m.is_key_frame)
           b == k * 64 + h * 32 + f * 16
           t == BigEndian(m.timestamp)
           header == MediaHeader(m)
           bytes == EncodeMediaPacket(m)
<1>1. k \in 1 .. 3 /\ h \in 0 .. 1 /\ f \in 0 .. 1
  BY KindNumbers DEF MediaPacketOf, Bit
<1>2. b \div 64 = k /\ (b \div 32) % 2 = h /\ (b \div 16) % 2 = f
  BY <1>1, FirstByte
<1>3. b \in Byte
  BY <1>1, SMT DEF Byte
<1>4. /\ t[1] \in Byte /\ t[2] \in Byte /\ t[3] \in Byte /\ t[4] \in Byte
      /\ FromBigEndian(t[1], t[2], t[3], t[4]) = m.timestamp
  <2>1. m.timestamp \in Word
    BY DEF MediaPacketOf
  <2> QED  BY <2>1, WordBytes
<1>5. /\ header \in Seq(S) /\ Len(header) = 5
      /\ header[1] = b /\ header[2] = t[1] /\ header[3] = t[2]
      /\ header[4] = t[3] /\ header[5] = t[4]
  <2>1. header = <<b, t[1], t[2], t[3], t[4]>>
    BY DEF MediaHeader
  <2> HIDE DEF b, t, header
  <2> QED  BY <1>3, <1>4, <2>1, SMT
<1>6. bytes = header \o m.payload /\ m.payload \in Seq(S)
  BY DEF EncodeMediaPacket, MediaPacketOf
<1>7. /\ bytes \in Seq(S)
      /\ Len(bytes) = 5 + Len(m.payload)
      /\ SubSeq(bytes, 6, Len(bytes)) = m.payload
      /\ \A i \in 1 .. 5 : bytes[i] = header[i]
  <2> HIDE DEF header, bytes
  <2>1. 5 \in Nat /\ 5 + 1 = 6
    BY SMT
  <2>3. \A u, w \in Seq(S) : \A n \in Nat :
          Len(u) = n =>
            /\ u \o w \in Seq(S)
            /\ Len(u \o w) = n + Len(w)
            /\ SubSeq(u \o w, n + 1, Len(u \o w)) = w
            /\ \A i \in 1 .. n : (u \o w)[i] = u[i]
    BY Header
  <2>2. /\ bytes \in Seq(S)
        /\ Len(bytes) = 5 + Len(m.payload)
        /\ SubSeq(bytes, 5 + 1, Len(bytes)) = m.payload
        /\ \A i \in 1 .. 5 : bytes[i] = header[i]
    BY <1>5, <1>6, <2>1, <2>3, ZenonT(40)
  <2> QED  BY <2>1, <2>2, Zenon
<1>8. /\ bytes[1] = b
      /\ FromBigEndian(bytes[2], bytes[3], bytes[4], bytes[5]) = m.timestamp
  <2> HIDE DEF b, t, header, bytes
  <2> QED  BY <1>4, <1>5, <1>7
<1>9. ~Undecodable(bytes)
  <2> HIDE DEF b, t, header, bytes, k
  <2>1. Len(m.payload) \in Nat
    BY <1>6, LenProperties
  <2> QED  BY <1>1, <1>2, <1>7, <1>8, <2>1 DEF Undecodable
<1>10. DecodeMediaPacket(bytes) =
        [kind |-> m.kind, is_seq_header |-> m.is_seq_header,
         is_key_frame |-> m.is_key_frame, timestamp |-> m.timestamp, payload |-> m.payload]
  <2>1. NameOf(MediaKindNumber, bytes[1] \div 64) = m.kind
    <3>1. m.kind \in {"Metadata", "Video", "Audio"}
      BY DEF MediaPacketOf
    <3>2. bytes[1] \div 64 = k
      BY <1>2, <1>8
    <3> QED  BY <3>1, <3>2, KindNumbers
  <2>2. ((bytes[1] \div 32) % 2 = 1) = m.is_seq_header
    <3>1. m.is_seq_header \in BOOLEAN
      BY DEF MediaPacketOf
    <3>2. (bytes[1] \div 32) % 2 = h
      BY <1>2, <1>8
    <3> QED  BY <3>1, <3>2 DEF Bit
  <2>3. ((bytes[1] \div 16) % 2 = 1) = m.is_key_frame
    <3>1. m.is_key_frame \in BOOLEAN
      BY DEF MediaPacketOf
    <3>2. (bytes[1] \div 16) % 2 = f
      BY <1>2, <1>8
    <3> QED  BY <3>1, <3>2 DEF Bit
  <2> HIDE DEF b, t, header, bytes, k, h, f
  <2> QED  BY <2>1, <2>2, <2>3, <1>7, <1>8, Zenon DEF DecodeMediaPacket
<1>11. DecodeMediaPacket(bytes) = m
  BY <1>10 DEF MediaPacketOf
<1> QED  BY <1>7, <1>9, <1>11

\* A frame of the cluster is read as it was sent (ProtoMessage).
THEOREM FrameRoundTrip ==
  ASSUME NEW S, Byte \subseteq S,
         NEW f \in [kind : {"Errors", "Init", "Media", "Ok"}, payload : Seq(S)]
  PROVE  ~Unreadable(EncodeFrame(f)) /\ DecodeFrame(EncodeFrame(f)) = f
<1> DEFINE n == KindNumber[f.kind]
           one == <<n>>
           bytes == EncodeFrame(f)
<1>1. n \in 1 .. 4 /\ NameOf(KindNumber, n) = f.kind
  BY KindNumbers
<1>2. one \in Seq(S) /\ Len(one) = 1 /\ one[1] = n
  <2>1. n \in Byte
    <3>1. n \in {1, 2, 3, 4}
      BY <1>1
    <3> QED  BY <3>1, NumberIsByte, Zenon
  <2> QED  BY <2>1
<1>3. f.payload \in Seq(S) /\ bytes = one \o f.payload
  BY DEF EncodeFrame
<1>4. bytes[1] = n /\ SubSeq(bytes, 2, Len(bytes)) = f.payload
  <2> HIDE DEF one, bytes, n
  <2>1. 1 \in Nat /\ 1 + 1 = 2 /\ 1 \in 1 .. 1
    BY SMT
  <2>2. /\ SubSeq(one \o f.payload, Len(one) + 1, Len(one \o f.payload)) = f.payload
        /\ \A i \in 1 .. Len(one) : (one \o f.payload)[i] = one[i]
    BY <1>2, <1>3, CutPrefix
  <2>3. SubSeq(bytes, 1 + 1, Len(bytes)) = f.payload
    BY <1>2, <1>3, <2>2, Zenon
  <2>4. bytes[1] = one[1]
    BY <1>2, <1>3, <2>1, <2>2, Zenon
  <2> QED  BY <1>2, <2>1, <2>3, <2>4, Zenon
<1>5. DecodeFrame(bytes) = [kind |-> f.kind, payload |-> f.payload]
  <2> HIDE DEF bytes, n
  <2> QED  BY <1>1, <1>4 DEF DecodeFrame
<1> QED  BY <1>1, <1>4, <1>5 DEF Unreadable

\* A packet that crosses the cluster gives the edge that plays it what the edge
\* that published it made of it: the flags are a function of what is kept, and
\* the time that metadata lacks is zero from the first node on (packet.rs).
THEOREM PacketRoundTrip ==
  ASSUME NEW p \in Packet
  PROVE  /\ ToMediaPacket(p) \in MediaPacket
         /\ ToMediaPacket(ToPacket(ToMediaPacket(p))) = ToMediaPacket(p)
         /\ p.timestamp # NoTime => ToPacket(ToMediaPacket(p)) = p
<1>1. ToMediaPacket(p) \in MediaPacket
  BY DEF Packet, MediaPacket, ToMediaPacket, IsVideoSequenceHeader, IsAudioSequenceHeader,
         IsVideoKeyframe, Second, Word
<1>2. ToMediaPacket(p).timestamp # NoTime
  BY DEF ToMediaPacket, Packet, Word, NoTime
<1>3. ToMediaPacket(ToPacket(ToMediaPacket(p))) = ToMediaPacket(p)
  BY <1>2 DEF ToMediaPacket, ToPacket
<1>4. p.timestamp # NoTime => ToPacket(ToMediaPacket(p)) = p
  BY DEF ToMediaPacket, ToPacket, Packet
<1> QED  BY <1>1, <1>3, <1>4

\* Every field of a stream's metadata that is set arrives at the player, with the
\* value that it had, and no other: the keys written are those read (packet.rs).
THEOREM MetadataRoundTrip ==
  ASSUME NEW D \in SUBSET Field, NEW V, NEW m \in [D -> V]
  PROVE  IntoMetadata(FromMetadata(m)) = m
<1> DEFINE map == FromMetadata(m)
<1>1. \A f \in Field : KeyRead[f] = KeyWritten[f]
  BY DEF Field, KeyRead, KeyWritten
<1>2. \A f, g \in Field : KeyWritten[f] = KeyWritten[g] => f = g
  BY DEF Field, KeyWritten
<1>3. DOMAIN map = {KeyWritten[f] : f \in D}
  BY DEF FromMetadata
<1>4. \A f \in D : map[KeyWritten[f]] = ToText(m[f])
  <2> TAKE f \in D
  <2> DEFINE k == KeyWritten[f]
             g == CHOOSE g \in D : KeyWritten[g] = k
  <2>1. g \in D /\ KeyWritten[g] = k
    OBVIOUS
  <2>2. g = f
    BY <1>2, <2>1
  <2>3. map[k] = ToText(m[g])
    BY <1>3 DEF FromMetadata
  <2> QED  BY <2>2, <2>3
<1>5. {f \in Field : KeyRead[f] \in DOMAIN map} = D
  BY <1>1, <1>2, <1>3
<1>6. IntoMetadata(map) = [f \in D |-> m[f]]
  <2>1. IntoMetadata(map) = [f \in D |-> FromText(map[KeyRead[f]])]
    BY <1>5 DEF IntoMetadata
  <2>2. ASSUME NEW f \in D  PROVE FromText(map[KeyRead[f]]) = m[f]
    <3> HIDE DEF map
    <3>1. map[KeyRead[f]] = [text |-> m[f]]
      BY <1>1, <1>4 DEF ToText
    <3> QED  BY <3>1 DEF FromText
  <2> HIDE DEF map
  <2> QED  BY <2>1, <2>2
<1> QED  BY <1>6

\* An HTTP player reads in the tag of a packet all 32 bits of its timestamp, and
\* finds the payload whole, as long as its length fits in 24 bits (http_flv.rs).
THEOREM FlvTagReadable ==
  ASSUME NEW S, Byte \subseteq S, NEW m \in MediaPacketOf(S), Len(m.payload) \in ThreeBytes
  PROVE  /\ TagTime(FlvTag(m)) = m.timestamp
         /\ TagLength(FlvTag(m)) = Len(m.payload)
         /\ SubSeq(FlvTag(m), 12, 11 + TagLength(FlvTag(m))) = m.payload
<1> DEFINE n == Len(m.payload)
           t == m.timestamp
           h == FlvHeader(m)
           v == m.payload \o BigEndian(n + 11)
           tag == FlvTag(m)
<1>1. n \in Nat /\ n < 16777216 /\ t \in Nat /\ t \div 16777216 < 256
  <2>1. t \in Word
    BY SMT DEF MediaPacketOf
  <2>2. n \in ThreeBytes
    OBVIOUS
  <2> HIDE DEF n, t
  <2>3. n \in Nat /\ n < 16777216
    BY <2>2, SMT DEF ThreeBytes
  <2>4. t \in Nat /\ t \div 16777216 < 256
    BY <2>1, SMT DEF Word
  <2> QED  BY <2>3, <2>4, SMT
<1>2. /\ Len(h) = 11
      /\ h[2] = (n \div 65536) % 256 /\ h[3] = (n \div 256) % 256 /\ h[4] = n % 256
      /\ h[5] = ((t % 16777216) \div 65536) % 256 /\ h[6] = ((t % 16777216) \div 256) % 256
      /\ h[7] = (t % 16777216) % 256 /\ h[8] = (t \div 16777216) % 256
  BY SMT DEF FlvHeader, PutI24
<1>3. h \in Seq(S)
  <2>1. \A i \in Nat : i % 256 \in Byte
    BY SMT DEF Byte
  <2>2. /\ n \div 65536 \in Nat /\ n \div 256 \in Nat /\ t % 16777216 \in Nat
        /\ (t % 16777216) \div 65536 \in Nat /\ (t % 16777216) \div 256 \in Nat
        /\ t \div 16777216 \in Nat
    <3> HIDE DEF n, t
    <3> QED  BY <1>1, SMT
  <2>3. TagType[m.kind] \in Byte /\ 0 \in Byte
    <3>1. m.kind \in {"Metadata", "Video", "Audio"}
      BY DEF MediaPacketOf
    <3>2. TagType[m.kind] \in {8, 9, 18}
      BY <3>1 DEF TagType
    <3> QED  BY <3>2, NumberIsByte, Zenon
  <2>4. h = <<TagType[m.kind], (n \div 65536) % 256, (n \div 256) % 256, n % 256,
              ((t % 16777216) \div 65536) % 256, ((t % 16777216) \div 256) % 256,
              (t % 16777216) % 256, (t \div 16777216) % 256, 0, 0, 0>>
    BY SMT DEF FlvHeader, PutI24
  <2>5. /\ (n \div 65536) % 256 \in Byte /\ (n \div 256) % 256 \in Byte /\ n % 256 \in Byte
        /\ ((t % 16777216) \div 65536) % 256 \in Byte
        /\ ((t % 16777216) \div 256) % 256 \in Byte
        /\ (t % 16777216) % 256 \in Byte /\ (t \div 16777216) % 256 \in Byte
    <3> HIDE DEF n, t
    <3> QED  BY <1>1, <2>1, <2>2, SMT
  <2>6. \A a, b1, b2, b3, c1, c2, c3, d, z \in Byte :
          <<a, b1, b2, b3, c1, c2, c3, d, z, z, z>> \in Seq(S)
    BY ElevenBytes
  <2> HIDE DEF h, n, t
  <2> QED  BY <2>3, <2>4, <2>5, <2>6, SMT
<1>4. /\ m.payload \in Seq(S) /\ v \in Seq(S)
      /\ n <= Len(v) /\ \A i \in 1 .. n : v[i] = m.payload[i]
  <2>1. m.payload \in Seq(S)
    BY SMT DEF MediaPacketOf
  <2>2. n + 11 \in Word
    BY <1>1, SMT DEF Word
  <2> DEFINE e == BigEndian(n + 11)
  <2>3. e[1] \in Byte /\ e[2] \in Byte /\ e[3] \in Byte /\ e[4] \in Byte
    BY <2>2, WordBytes, SMT
  <2>4. e = <<e[1], e[2], e[3], e[4]>>
    BY SMT DEF BigEndian
  <2> HIDE DEF e
  <2>5. e \in Seq(S)
    BY <2>3, <2>4, FourBytes, Zenon
  <2>6. /\ v \in Seq(S) /\ Len(v) = n + Len(e)
        /\ \A i \in 1 .. n : v[i] = m.payload[i]
    <3>1. v = m.payload \o e
      BY Zenon DEF e
    <3> HIDE DEF v
    <3> QED  BY <2>1, <2>5, <3>1, Front, Zenon
  <2>7. Len(e) \in Nat
    BY <2>5, LenProperties, SMT
  <2> HIDE DEF v
  <2> QED  BY <1>1, <2>1, <2>6, <2>7, SMT
<1>5. /\ tag[2] = h[2] /\ tag[3] = h[3] /\ tag[4] = h[4] /\ tag[5] = h[5]
      /\ tag[6] = h[6] /\ tag[7] = h[7] /\ tag[8] = h[8]
      /\ SubSeq(tag, 12, 11 + n) = m.payload
  <2>1. tag = h \o v
    BY SMT DEF FlvTag
  <2> HIDE DEF h, v, tag
  <2>2. SubSeq(h \o v, Len(h) + 1, Len(h) + n) = m.payload
    BY <1>3, <1>4, CutMiddle, Zenon
  <2>3. \A i \in 1 .. 11 : tag[i] = h[i]
    <3>1. 11 \in Nat /\ Len(h) = 11
      BY <1>2, SMT
    <3> QED  BY <1>3, <1>4, <2>1, <3>1, Header, ZenonT(40)
  <2>4. Len(h) + 1 = 12 /\ Len(h) + n = 11 + n
    BY <1>2, SMT
  <2>5. \A i \in 2 .. 8 : i \in 1 .. 11
    BY SMT
  <2>6. SubSeq(tag, 12, 11 + n) = m.payload
    BY <2>1, <2>2, <2>4, Zenon
  <2>7. \A i \in 2 .. 8 : tag[i] = h[i]
    BY <2>3, <2>5, Zenon
  <2> QED  BY <2>6, <2>7, SMT
<1>6. TagLength(tag) = n
  <2>1. TagLength(tag) = h[2] * 65536 + h[3] * 256 + h[4]
    <3> HIDE DEF h, tag
    <3> QED  BY <1>5, SMT DEF TagLength
  <2>2. n = ((n \div 65536) % 256) * 65536 + ((n \div 256) % 256) * 256 + (n % 256)
    <3> HIDE DEF n
    <3> QED  BY <1>1, Bytes24, SMT
  <2> HIDE DEF h, tag, n, t
  <2>3. /\ h[2] = (n \div 65536) % 256
        /\ h[3] = (n \div 256) % 256 /\ h[4] = n % 256
    BY <1>2, SMT
  <2> QED  BY <2>1, <2>2, <2>3, SMT
<1>7. TagTime(tag) = t
  <2>1. TagTime(tag) = h[8] * 16777216 + h[5] * 65536 + h[6] * 256 + h[7]
    <3> HIDE DEF h, tag
    <3> QED  BY <1>5, SMT DEF TagTime, FromBigEndian
  <2> DEFINE r == t % 16777216
  <2>2. r \in Nat /\ r < 16777216 /\ t = (t \div 16777216) * 16777216 + r
        /\ (t \div 16777216) % 256 = t \div 16777216
    <3> HIDE DEF t
    <3> QED  BY <1>1, SMT
  <2>3. r = ((r \div 65536) % 256) * 65536 + ((r \div 256) % 256) * 256 + (r % 256)
    <3> HIDE DEF r
    <3> QED  BY <2>2, Bytes24, SMT
  <2>4. TagTime(tag) = (t \div 16777216) * 16777216 + ((r \div 65536) % 256) * 65536
                       + ((r \div 256) % 256) * 256 + (r % 256)
    <3> HIDE DEF h, tag, t
    <3> QED  BY <1>2, <2>1, <2>2, SMT
  <2>5. t \div 16777216 \in Int /\ (r \div 65536) % 256 \in Int
        /\ (r \div 256) % 256 \in Int /\ r % 256 \in Int /\ t \in Int
    <3> HIDE DEF r, t
    <3> QED  BY <1>1, <2>2, SMT
  <2> HIDE DEF h, tag, t, r
  <2> QED  BY <2>2, <2>3, <2>4, <2>5, SMT
<1> QED  BY <1>5, <1>6, <1>7, SMT
===========================================================================
