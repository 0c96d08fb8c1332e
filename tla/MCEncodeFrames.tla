---------------------------- MODULE MCEncodeFrames ----------------------------
(* Five turns with encoders that hold up to three frames back, so that up   *)
(* to four buffers are alive and a pool of three is too small for the last; *)
(* and, for the choice of a rate, lists of two, some of which have the one  *)
(* nearer to 44100 below the other.                                         *)
EXTENDS EncodeFrames
=============================================================================
