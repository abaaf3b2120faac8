------------------------------- MODULE Codec -------------------------------
(***************************************************************************)
(* What the packets of a stream look like on their way from a publisher's  *)
(* RTMP session to a player: the edge's Packet, the cluster's MediaPacket  *)
(* and frame, and the FLV tag of an HTTP player.  Everything here is a     *)
(* pure function; bytes are numbers and integers keep their width.         *)
(***************************************************************************)
EXTENDS Integers, Sequences

Byte  == 0 .. 255
Word  == {n \in Nat : n \div 16777216 < 256}  \* u32
Bytes == Seq(Byte)

\* The lengths that the header of an FLV tag can hold.
ThreeBytes == {n \in Nat : n \div 65536 < 256}

\* The text of a value and what is parsed from it: every type that occurs in
\* the metadata is read back as what was written.
ToText(v)   == [text |-> v]
FromText(t) == t.text

---------------------------------------------------------------------------
(***************************************************************************)
(* The flags of a packet, guessed from the first two bytes of its payload. *)
(***************************************************************************)
Second(data, b) == Len(data) >= 2 /\ data[2] = b

IsVideoSequenceHeader(data) == Second(data, 0)
IsAudioSequenceHeader(data) == Second(data, 0) /\ data[1] = 175  \* 0xaf, AAC

IsVideoKeyframe(data) == Len(data) >= 2 /\ data[1] \in {23, 28}  \* 0x17, 0x1c

---------------------------------------------------------------------------
(***************************************************************************)
(* The edge's packets and the cluster's.  A Packet may lack a timestamp.   *)
(***************************************************************************)
NoTime == -1

Packet == [kind : {"Metadata", "Video", "Audio"}, timestamp : Word \cup {NoTime}, payload : Bytes]

MediaPacket ==
  [kind : {"Metadata", "Video", "Audio"}, is_seq_header : BOOLEAN, is_key_frame : BOOLEAN,
   timestamp : Word, payload : Bytes]

ToMediaPacket(p) ==
  [kind          |-> p.kind,
   is_seq_header |-> \/ p.kind = "Video" /\ IsVideoSequenceHeader(p.payload)
                     \/ p.kind = "Audio" /\ IsAudioSequenceHeader(p.payload),
   is_key_frame  |-> p.kind = "Video" /\ IsVideoKeyframe(p.payload),
   timestamp     |-> IF p.timestamp = NoTime THEN 0 ELSE p.timestamp,
   payload       |-> p.payload]

ToPacket(m) == [kind |-> m.kind, timestamp |-> m.timestamp, payload |-> m.payload]

---------------------------------------------------------------------------
(***************************************************************************)
(* The cluster's frames: a byte for the kind, then the payload.  That of a *)
(* MediaPacket begins with two bits for its kind and one for each flag.    *)
(***************************************************************************)
MediaKindNumber == [Metadata |-> 1, Video |-> 2, Audio |-> 3]
KindNumber      == [Errors |-> 1, Init |-> 2, Media |-> 3, Ok |-> 4]

\* Which name has the number n: the inverse of the two tables.
NameOf(table, n) == CHOOSE k \in DOMAIN table : table[k] = n

Bit(b) == IF b THEN 1 ELSE 0

BigEndian(n) ==
  <<(n \div 16777216) % 256, (n \div 65536) % 256, (n \div 256) % 256, n % 256>>

FromBigEndian(a, b, c, d) == a * 16777216 + b * 65536 + c * 256 + d

MediaHeader(m) ==
  LET t == BigEndian(m.timestamp)
  IN  <<MediaKindNumber[m.kind] * 64 + Bit(m.is_seq_header) * 32 + Bit(m.is_key_frame) * 16,
        t[1], t[2], t[3], t[4]>>

EncodeMediaPacket(m) == MediaHeader(m) \o m.payload

\* What cannot be decoded: too short (a panic) or a kind that there is not.
Undecodable(bytes) == Len(bytes) < 5 \/ bytes[1] \div 64 = 0

DecodeMediaPacket(bytes) ==
  [kind          |-> NameOf(MediaKindNumber, bytes[1] \div 64),
   is_seq_header |-> (bytes[1] \div 32) % 2 = 1,
   is_key_frame  |-> (bytes[1] \div 16) % 2 = 1,
   timestamp     |-> FromBigEndian(bytes[2], bytes[3], bytes[4], bytes[5]),
   payload       |-> SubSeq(bytes, 6, Len(bytes))]

\* A frame has a body, so its first byte is there.
EncodeFrame(f) == <<KindNumber[f.kind]>> \o f.payload

Unreadable(bytes) == bytes[1] \notin 1 .. 4

DecodeFrame(bytes) ==
  [kind |-> NameOf(KindNumber, bytes[1]), payload |-> SubSeq(bytes, 2, Len(bytes))]

MediaFrame(m) == [kind |-> "Media", payload |-> EncodeMediaPacket(m)]

---------------------------------------------------------------------------
(***************************************************************************)
(* FLV: a tag header of eleven bytes, the payload, and their total length  *)
(* as an i32.  Lengths and times are cut to 24 bits; a byte of its own     *)
(* carries the time's high bits.                                           *)
(***************************************************************************)
PutI24(v) == <<(v \div 65536) % 256, (v \div 256) % 256, v % 256>>

TagType == [Audio |-> 8, Metadata |-> 18, Video |-> 9]

FlvHeader(m) ==
  LET n == PutI24(Len(m.payload))
      t == PutI24(m.timestamp % 16777216)
  IN  <<TagType[m.kind], n[1], n[2], n[3], t[1], t[2], t[3],
        (m.timestamp \div 16777216) % 256, 0, 0, 0>>

FlvTag(m) == FlvHeader(m) \o (m.payload \o BigEndian(Len(m.payload) + 11))

\* How a player reads a tag: its length tells where the payload ends.
TagLength(tag) == tag[2] * 65536 + tag[3] * 256 + tag[4]
TagTime(tag)   == FromBigEndian(tag[8], tag[5], tag[6], tag[7])

---------------------------------------------------------------------------
(***************************************************************************)
(* The metadata of a stream: the library's record with optional fields,    *)
(* sent through the cluster as a map from strings to strings.              *)
(***************************************************************************)
KeyWritten ==
  [audio_bitrate_kbps |-> "audio.bitrate",     audio_channels    |-> "audio.channels",
   audio_codec        |-> "audio.codec",       audio_is_stereo   |-> "audio.stereo",
   audio_sample_rate  |-> "audio.sampling_rate", video_bitrate_kbps |-> "video.bitrate",
   video_codec        |-> "video.codec",       video_frame_rate  |-> "video.frame_rate",
   video_height       |-> "video.height",      video_width       |-> "video.width",
   encoder            |-> "encoder"]

KeyRead ==
  [video_width        |-> "video.width",       video_height      |-> "video.height",
   video_codec        |-> "video.codec",       video_frame_rate  |-> "video.frame_rate",
   video_bitrate_kbps |-> "video.bitrate",     audio_codec       |-> "audio.codec",
   audio_bitrate_kbps |-> "audio.bitrate",     audio_sample_rate |-> "audio.sampling_rate",
   audio_channels     |-> "audio.channels",    audio_is_stereo   |-> "audio.stereo",
   encoder            |-> "encoder"]

Field == DOMAIN KeyWritten

\* m maps the fields that are set to their values; the others are None.
FromMetadata(m) ==
  [k \in {KeyWritten[f] : f \in DOMAIN m} |->
     ToText(m[CHOOSE f \in DOMAIN m : KeyWritten[f] = k])]

IntoMetadata(map) ==
  [f \in {f \in Field : KeyRead[f] \in DOMAIN map} |-> FromText(map[KeyRead[f]])]
===========================================================================
