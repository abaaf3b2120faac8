--------------------------- MODULE MCRtmpSession ---------------------------
(***************************************************************************)
(* RtmpSession for TLC: metadata, an H.264 header, an H.265 key frame past *)
(* the 24 bits of a message's timestamp, and an AAC header.                *)
(***************************************************************************)
EXTENDS RtmpSession

MCMedia ==
  {Metadata([video_width |-> 1280, audio_is_stereo |-> FALSE]),
   Video(0, <<23, 0>>), Video(16777217, <<28, 1>>), Audio(258, <<175, 0>>)}
=============================================================================
