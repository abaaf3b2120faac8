------------------------------ MODULE MCFanout ------------------------------
(***************************************************************************)
(* Fanout for TLC, with the packets of a stream: its video header, key and *)
(* inter frames, and its metadata.                                         *)
(***************************************************************************)
EXTENDS Fanout, TLC

Shape(k, header, key) ==
  [kind |-> k, is_seq_header |-> header, is_key_frame |-> key]

StreamShapes ==
  {Shape("Metadata", FALSE, FALSE), Shape("Video", TRUE, TRUE),
   Shape("Video", FALSE, TRUE), Shape("Video", FALSE, FALSE)}
=============================================================================
