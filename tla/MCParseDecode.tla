---------------------------- MODULE MCParseDecode ----------------------------
(* Frames of 1 to 5 bytes and a buffer of 4: frames smaller and larger than *)
(* the buffer, ends on, before and after its end.                           *)
EXTENDS ParseDecode
=============================================================================
