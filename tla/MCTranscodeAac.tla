--------------------------- MODULE MCTranscodeAac ---------------------------
(* Frames of 2 samples from up to 4 input frames of 1 to 3 samples: input  *)
(* frames smaller than, equal to and larger than the encoder's, and FIFO   *)
(* contents from nothing to two whole frames, with codecs that hold none    *)
(* to two back.                                                            *)
EXTENDS TranscodeAac
=============================================================================
