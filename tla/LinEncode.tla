----------------------------- MODULE LinEncode -----------------------------
(***************************************************************************)
(* lin_tx_encode_ctx: the call that cuts a whole message into frames at    *)
(* once, written into an array of the caller's.  The loop over the CFs is  *)
(* modelled one pass per step, with the width of its uint8_t variables.    *)
(* Only the position and length of each payload matter.                    *)
(***************************************************************************)
EXTENDS LinFrames

CONSTANTS
  U8,         \* number of values of a uint8_t
  Lengths,    \* data_len
  Capacities  \* max_frames

ASSUME EncodeParameters ==
  /\ U8 \in Nat /\ SFMax < U8 /\ CFPayload < U8
  /\ Lengths \subseteq Nat
  /\ Capacities \subseteq 0 .. U8 - 1

VARIABLES
  data_len, max_frames,   \* the arguments
  pc,
  offset,
  frame_idx,
  frames,                 \* payload written: [seq, at, len] in order
  tx_state, tx_seq_num    \* the fields of the context the call writes

encodeVars == <<data_len, max_frames, pc, offset, frame_idx, frames, tx_state, tx_seq_num>>

\* Mutated form of Needed: the last, short CF is not counted.
NeededFull(len) == IF len \notin 1 .. FFMax THEN 0
                   ELSE IF len <= SFMax THEN 1
                   ELSE (1 + (len - FFPayload) \div CFPayload) % U8

\* calc_tx_frame_count counts in a uint8_t.
Needed(len) == IF len \notin 1 .. FFMax THEN 0
               ELSE IF len <= SFMax THEN 1
               ELSE (1 + CfCount(len)) % U8

EncodeInit ==
  /\ data_len \in Lengths /\ max_frames \in Capacities
  /\ pc = "check" /\ offset = 0 /\ frame_idx = 0 /\ frames = <<>>
  /\ tx_state = "IDLE" /\ tx_seq_num = 0

Return(result) ==
  /\ pc' = result
  /\ UNCHANGED <<data_len, max_frames>>

RejectLength ==
  /\ pc = "check"
  /\ data_len \notin 1 .. FFMax
  /\ Return("PCI_ERROR")
  /\ UNCHANGED <<offset, frame_idx, frames, tx_state, tx_seq_num>>

RejectCapacity ==
  /\ pc = "check"
  /\ data_len \in 1 .. FFMax /\ max_frames < Needed(data_len)
  /\ Return("PCI_ERROR")
  /\ UNCHANGED <<offset, frame_idx, frames, tx_state, tx_seq_num>>

EncodeSF ==
  /\ pc = "check"
  /\ data_len \in 1 .. SFMax /\ max_frames >= 1
  /\ frames' = <<[seq |-> 0, at |-> 0, len |-> data_len]>>
  /\ frame_idx' = 1
  /\ offset' = data_len
  /\ tx_state' = "SF"
  /\ Return("OK")
  /\ UNCHANGED tx_seq_num

EncodeFF ==
  /\ pc = "check"
  /\ data_len \in SFMax + 1 .. FFMax /\ max_frames >= Needed(data_len)
  /\ frames' = <<[seq |-> 0, at |-> 0, len |-> Least(FFPayload, data_len)]>>
  /\ frame_idx' = 1
  /\ offset' = Least(FFPayload, data_len)
  /\ tx_state' = "FF"
  /\ tx_seq_num' = 0
  /\ Return("loop")

\* Mutated form of CfLen: every CF is taken for a full one.
CfLenFull == CFPayload

\* The bytes left are counted in a uint8_t.
CfLen == Least(CFPayload, (data_len - offset) % U8)

EncodeCF ==
  /\ pc = "loop" /\ offset < data_len
  /\ tx_seq_num' = NextSeq(tx_seq_num)
  /\ frames' = Append(frames, [seq |-> tx_seq_num', at |-> offset, len |-> CfLen])
  /\ offset' = offset + CfLen
  /\ frame_idx' = (frame_idx + 1) % U8
  /\ tx_state' = "CF"
  /\ Return("loop")

EncodeEnd ==
  /\ pc = "loop" /\ offset >= data_len
  /\ Return("OK")
  /\ UNCHANGED <<offset, frame_idx, frames, tx_state, tx_seq_num>>

EncodeNext == \/ RejectLength \/ RejectCapacity \/ EncodeSF
              \/ EncodeFF \/ EncodeCF \/ EncodeEnd

\* A sequential call: it runs until it returns.
EncodeSpec == EncodeInit /\ [][EncodeNext]_encodeVars /\ WF_encodeVars(EncodeNext)

-----------------------------------------------------------------------------
\* The frames written are consecutive pieces of the message; every CF but the
\* last is full, as the receiver, which takes CFPayload bytes of each CF as long
\* as it misses that many, depends on ("multi-frame, UDS data 7-4095 bytes").
PiecesFit ==
  \A i \in 1 .. Len(frames) :
    LET f == frames[i]
    IN  /\ f.at = IF i = 1 THEN 0 ELSE frames[i - 1].at + frames[i - 1].len
        /\ i > 1 => \/ f.len = CFPayload
                    \/ f.at + f.len = data_len /\ f.len > 0
        /\ i > 1 => f.seq = ((i - 2) % SeqMax) + 1

\* A call that has begun to write frames returns LIN_OK, and then it has written
\* the whole message, in as many frames as it reports; and it never writes beyond
\* the capacity the caller gave.
ReturnsWhole ==
  /\ pc = "loop" ~> pc = "OK"
  /\ [](pc = "OK" => offset = data_len /\ Len(frames) = frame_idx)
  /\ [](Len(frames) <= max_frames)
=============================================================================
