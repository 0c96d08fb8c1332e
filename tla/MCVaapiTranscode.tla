--------------------------- MODULE MCVaapiTranscode ---------------------------
(* Up to five packets; a decoder that holds two back, so that the drain may *)
(* bring the first frame or several after a failure, and an encoder that    *)
(* holds one back.                                                          *)
EXTENDS VaapiTranscode
=============================================================================
