---------------------------- MODULE MediaCache ----------------------------
(***************************************************************************)
(* The packets that flow through the cluster and the cache every channel   *)
(* keeps of them: the last metadata, the last video and audio sequence     *)
(* headers, and the group of pictures (GOP) since the last key frame.  The *)
(* origin, the cache and the edge each have a copy of the same set_cache;  *)
(* it is a pure function of the cache and the packet.                      *)
(***************************************************************************)
EXTENDS Naturals, Sequences

CONSTANTS
  FullGop,   \* full_gop: whether inter frames are kept after the key frame
  NoPacket   \* an empty Option<MediaPacket>

ASSUME FullGopAssumption == FullGop \in BOOLEAN

(***************************************************************************)
(* A MediaPacket.  The payload is abstracted away: set_cache looks at the  *)
(* kind and the two flags only, and the timestamp names the packet.        *)
(***************************************************************************)
MediaKind == {"Metadata", "Video", "Audio"}

MediaPacket ==
  [kind : MediaKind, is_seq_header : BOOLEAN, is_key_frame : BOOLEAN,
   timestamp : Nat]

ASSUME NoPacketAssumption == NoPacket \notin MediaPacket

IsMetadata(p)    == p.kind = "Metadata"
IsVideoHeader(p) == p.kind = "Video" /\ p.is_seq_header /\ p.is_key_frame
IsKeyFrame(p)    == p.kind = "Video" /\ ~p.is_seq_header /\ p.is_key_frame
IsInterFrame(p)  == p.kind = "Video" /\ ~p.is_key_frame
IsAudioHeader(p) == p.kind = "Audio" /\ p.is_seq_header

\* What a GOP may hold: a key frame, and inter frames when full_gop is set.
IsGopFrame(p) == IsKeyFrame(p) \/ (FullGop /\ IsInterFrame(p))

\* The packets of each class.
Metadatas    == {p \in MediaPacket : IsMetadata(p)}
VideoHeaders == {p \in MediaPacket : IsVideoHeader(p)}
AudioHeaders == {p \in MediaPacket : IsAudioHeader(p)}
GopFrames    == {p \in MediaPacket : IsGopFrame(p)}

(***************************************************************************)
(* The cache.  gop is an Option<Vec<_>> whose Some is never empty, so the  *)
(* empty sequence stands for None.  A slot holds a packet of its class.    *)
(***************************************************************************)
Cache ==
  [metadata         : Metadatas \cup {NoPacket},
   video_seq_header : VideoHeaders \cup {NoPacket},
   audio_seq_header : AudioHeaders \cup {NoPacket},
   gop              : Seq(GopFrames)]

EmptyCache ==
  [metadata |-> NoPacket, video_seq_header |-> NoPacket,
   audio_seq_header |-> NoPacket, gop |-> <<>>]

\* MUTANT of SetGop: a key frame does not end the GOP before it.
SetGopNeverReset(gop, p) ==
  IF IsKeyFrame(p) \/ (IsInterFrame(p) /\ FullGop /\ gop # <<>>)
  THEN Append(gop, p) ELSE gop

\* A key frame starts the GOP anew; an inter frame is appended to a GOP that
\* exists, and is not kept when no key frame has been seen.
SetGop(gop, p) ==
  IF IsKeyFrame(p) THEN <<p>>
  ELSE IF IsInterFrame(p) /\ FullGop /\ gop # <<>> THEN Append(gop, p)
  ELSE gop

\* MUTANT of SetCache: the first metadata is kept, not the last.
SetCacheFirstMetadata(c, p) ==
  [metadata         |-> IF IsMetadata(p) /\ c.metadata = NoPacket
                        THEN p ELSE c.metadata,
   video_seq_header |-> IF IsVideoHeader(p) THEN p ELSE c.video_seq_header,
   audio_seq_header |-> IF IsAudioHeader(p) THEN p ELSE c.audio_seq_header,
   gop              |-> SetGop(c.gop, p)]

\* MUTANT of SetCache: every key frame is taken for a sequence header.
SetCacheKeyIsHeader(c, p) ==
  [metadata         |-> IF IsMetadata(p) THEN p ELSE c.metadata,
   video_seq_header |-> IF p.kind = "Video" /\ p.is_key_frame
                        THEN p ELSE c.video_seq_header,
   audio_seq_header |-> IF IsAudioHeader(p) THEN p ELSE c.audio_seq_header,
   gop              |-> SetGop(c.gop, p)]

SetCache(c, p) ==
  [metadata         |-> IF IsMetadata(p) THEN p ELSE c.metadata,
   video_seq_header |-> IF IsVideoHeader(p) THEN p ELSE c.video_seq_header,
   audio_seq_header |-> IF IsAudioHeader(p) THEN p ELSE c.audio_seq_header,
   gop              |-> SetGop(c.gop, p)]

(***************************************************************************)
(* What a joining player is sent before the live packets: the parts of the *)
(* cache that are set, headers first.                                      *)
(***************************************************************************)
Present(slot) == IF slot = NoPacket THEN <<>> ELSE <<slot>>

\* MUTANT of InitPackets: the sequence headers are not sent.
InitPacketsNoHeaders(c) == Present(c.metadata) \o c.gop

InitPackets(c) ==
  Present(c.metadata) \o Present(c.video_seq_header)
    \o Present(c.audio_seq_header) \o c.gop

(***************************************************************************)
(* What a cache is meant to be, given the packets h handled so far.        *)
(***************************************************************************)

\* slot holds the last packet of class S in h.
IsLast(h, slot, S) ==
  IF slot = NoPacket
  THEN \A i \in 1 .. Len(h) : h[i] \notin S
  ELSE \E i \in 1 .. Len(h) :
         /\ h[i] = slot
         /\ slot \in S
         /\ \A j \in i + 1 .. Len(h) : h[j] \notin S

\* The i-th packet of h belongs to the GOP that is open after the n-th.
InLastGop(h, i, n) ==
  /\ IsGopFrame(h[i])
  /\ \E k \in 1 .. i : IsKeyFrame(h[k])
  /\ \A j \in i + 1 .. n : ~IsKeyFrame(h[j])

\* gop holds the frames of the open GOP, all of them and in their order.
IsGopOf(gop, h) ==
  /\ \A i \in 1 .. Len(h) : InLastGop(h, i, Len(h)) =>
       \E m \in 1 .. Len(gop) : gop[m] = h[i]
  /\ \A m \in 1 .. Len(gop) : \E i \in 1 .. Len(h) :
       InLastGop(h, i, Len(h)) /\ gop[m] = h[i]
  /\ \A m, n \in 1 .. Len(gop) : m < n => gop[m].timestamp < gop[n].timestamp

IsCacheOf(c, h) ==
  /\ IsLast(h, c.metadata, Metadatas)
  /\ IsLast(h, c.video_seq_header, VideoHeaders)
  /\ IsLast(h, c.audio_seq_header, AudioHeaders)
  /\ IsGopOf(c.gop, h)
===========================================================================
