---------------------------- MODULE MC_LinEncode ----------------------------
(* An instance of LinEncode for TLC, with the sizes of the code: messages of *)
(* which more than 255 bytes are left after the FF.                          *)
EXTENDS LinEncode

MC_Long  == 261 .. 264
=============================================================================
