--------------------------- MODULE MC_UdsTransfer ---------------------------
(* An instance of UdsTransfer for TLC: a word of 8 addresses, two regions    *)
(* that touch its end and a bad one, blocks from empty to longer than the    *)
(* transfer, and an image of several blocks.                                 *)
EXTENDS UdsTransfer

MC_Ranges == {[start |-> 4, end |-> 7], [start |-> 6, end |-> 7], [start |-> 3, end |-> 2]}
MC_Blocks == {<<>>, <<1>>, <<2, 1>>, <<1, 2, 2>>}
MC_LongImages == {<<1, 2, 2>>}
=============================================================================
