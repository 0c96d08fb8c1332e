---------------------------- MODULE MCDemuxDecode ----------------------------
(* Up to four packets, and a decoder that holds two back: a flush gives     *)
(* none, one or several frames, after each kind of failure.                 *)
EXTENDS DemuxDecode
=============================================================================
