--------------------------- MODULE MC_UdsDownload ---------------------------
(* Instances of UdsDownload for TLC: an image of three bytes, sent in blocks *)
(* that fit a Single Frame or do not.                                        *)
EXTENDS UdsDownload

MC_Image == <<1, 2, 1>>
MC_Ranges == {[start |-> 0, end |-> 3]}
=============================================================================
