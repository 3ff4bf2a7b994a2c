----------------------------- MODULE LinFrames -----------------------------
(***************************************************************************)
(* The frames of the LIN transport layer and how a message is cut into     *)
(* them: a message is the sequence of its bytes; a frame is a record with  *)
(* the fields its PCI byte selects.  The 8-byte layout is abstracted to    *)
(* the payload capacity of each kind of frame.                             *)
(***************************************************************************)
EXTENDS Integers, Sequences

CONSTANTS
  Bytes,       \* payload byte values
  Pad,         \* the zero byte a CF is padded with
  FFPayload,   \* LIN_FF_PAYLOAD_LEN
  CFPayload,   \* LIN_CF_PAYLOAD_LEN
  SFMax,       \* LIN_SF_MAX_LEN
  FFMax,       \* LIN_FF_MAX_LEN
  SeqMax       \* LIN_CF_SEQ_MAX

ASSUME FrameParameters ==
  /\ Pad \in Bytes
  /\ FFPayload \in Nat \ {0} /\ CFPayload \in Nat \ {0}
  /\ SFMax \in Nat /\ FFMax \in Nat
  /\ FFPayload <= SFMax /\ SFMax < FFMax
  /\ SeqMax \in Nat \ {0, 1}

Least(a, b) == IF a <= b THEN a ELSE b

\* Mutated form of Left: the byte after a frame's payload is skipped.
LeftSkips(s, n) == SubSeq(s, Least(n, Len(s)) + 2, Len(s))

\* The bytes of s split at n: a frame's payload, and what is left of it.
Taken(s, n) == SubSeq(s, 1, Least(n, Len(s)))
Left(s, n)  == SubSeq(s, Least(n, Len(s)) + 1, Len(s))

\* The unused bytes of a CF are zero.
Padded(s, n) == [i \in 1 .. n |-> IF i <= Len(s) THEN s[i] ELSE Pad]

\* Mutated form of NextSeq: the number wraps to 0.
NextSeqZero(s) == (s + 1) % (SeqMax + 1)

\* The successor of a CF sequence number: 1, ..., SeqMax, 1, ...
NextSeq(s) == (s % SeqMax) + 1

SFrame(m)      == [pci |-> "SF", len |-> Len(m), data |-> m]
FFrame(m)      == [pci |-> "FF", len |-> Len(m), data |-> Taken(m, FFPayload)]
CFrame(seq, s) == [pci |-> "CF", seq |-> seq, data |-> Padded(s, CFPayload)]

\* The number of CFs of a message: what calc_tx_frame_count counts after the FF.
CfCount(len) == (len - FFPayload + CFPayload - 1) \div CFPayload
=============================================================================
