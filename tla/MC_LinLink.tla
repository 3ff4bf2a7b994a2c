---------------------------- MODULE MC_LinLink -----------------------------
(* Instances of LinLink for TLC: one Single Frame message and two that take *)
(* an FF and CFs, enough for the sequence number to wrap (SeqMax = 2).      *)
EXTENDS LinLink

MC_Messages == {<<1>>, <<2, 3, 4>>, <<5, 6, 7, 8, 9, 8>>}

Lossy(bs) == [loses |-> {"CF", "FC"}, repeats |-> {"FF", "CF"}, aborts |-> TRUE,
              bs |-> bs, waits |-> 0]
Reliable(bs) == [loses |-> {}, repeats |-> {}, aborts |-> FALSE, bs |-> bs, waits |-> 2]

MC_Links == {Lossy(0), Lossy(2), Reliable(0)}
MC_Blocks == {Reliable(1)}
=============================================================================
