--------------------------- MODULE MCTranscoding ---------------------------
(* Bounds for Transcoding: files of up to two streams and four packets,     *)
(* codecs that hold none or one back.                                       *)
EXTENDS Transcoding

=============================================================================
