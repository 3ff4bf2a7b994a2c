--------------------------- MODULE MC_LinContext ---------------------------
(* An instance of LinContext for TLC.  Sent: payloads of an SF, of an FF and *)
(* one short CF, and of an FF and four CFs, so that the sequence number      *)
(* wraps.  Received: legal and illegal lengths and sequence numbers.         *)
EXTENDS LinContext

MC_Messages == {<<1>>, <<1, 2>>, <<1, 2, 3, 1, 2, 3, 1, 2>>}
MC_Frames ==
  {[pci |-> "SF", len |-> n, data |-> <<1>>] : n \in {1, SFMax + 1}}
    \cup {[pci |-> "FF", len |-> n, data |-> <<1>>] : n \in {SFMax, 6, FFMax, FFMax + 1}}
    \cup {[pci |-> "CF", seq |-> q, data |-> <<2, 3>>] : q \in 0 .. SeqMax + 1}
=============================================================================
