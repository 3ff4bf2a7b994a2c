------------------------------- MODULE LinRx -------------------------------
(***************************************************************************)
(* The receive side of one LIN transport context: lin_rx_decode_ctx takes  *)
(* one frame at a time, filters it by its node address and reassembles a   *)
(* First Frame and the Consecutive Frames after it.  What a Flow Control   *)
(* frame does to the transmit side is in LinTx.                            *)
(***************************************************************************)
EXTENDS LinFrames

CONSTANTS
  Nads,          \* node addresses
  FunctionalNad, \* LIN_NAD_FUNCTIONAL
  DefaultNad,    \* LIN_NAD_DEFAULT
  Frames         \* the SF, FF and CF frames that may arrive

SFrames == [pci : {"SF"}, len : Nat, data : Seq(Bytes)]
FFrames == [pci : {"FF"}, len : Nat, data : Seq(Bytes)]
CFrames == [pci : {"CF"}, seq : Nat, data : Seq(Bytes)]

ASSUME RxParameters ==
  /\ FunctionalNad \in Nads /\ DefaultNad \in Nads
  /\ Frames \subseteq SFrames \cup FFrames \cup CFrames
  /\ \A f \in Frames :
       /\ f.pci = "FF" => Len(f.data) = FFPayload
       /\ f.pci = "CF" => Len(f.data) = CFPayload

VARIABLES
  rx_state,          \* LIN_RX_...
  rx_buffer,         \* the first rx_buffer_len bytes of the reassembly buffer
  rx_expected_len,
  rx_seq_num,
  expected_nad,
  accept_functional,
  rx_result          \* what the last call returned: its status and its PDU

filterVars == <<expected_nad, accept_functional>>
rxVars     == <<rx_state, rx_buffer, rx_expected_len, rx_seq_num, filterVars, rx_result>>

RxStates == {"IDLE", "SF", "CF"}

\* Decoding left no PDU: the caller gets the error and the context is as before.
Failed(status) == [status |-> status, data |-> <<>>]
Decoded(data)  == [status |-> "OK", data |-> data]

RxInit ==
  /\ rx_state = "IDLE"
  /\ rx_buffer = <<>>
  /\ rx_expected_len = 0
  /\ rx_seq_num = 0
  /\ expected_nad \in Nads
  /\ accept_functional = TRUE
  /\ rx_result = Failed("NONE")

Accepts(nad) == nad = expected_nad \/ (nad = FunctionalNad /\ accept_functional)

\* Mutated forms of LegalFF (any length) and LegalCF (any sequence number).
LegalFFAny(f) == f.pci = "FF"
LegalCFAny(f) == f.pci = "CF" /\ rx_state = "CF"

\* A well-formed SF carries at most SFMax bytes, an FF announces a length no SF can hold.
LegalSF(f) == f.pci = "SF" /\ f.len <= SFMax
LegalFF(f) == f.pci = "FF" /\ f.len \in SFMax + 1 .. FFMax
LegalCF(f) == f.pci = "CF" /\ rx_state = "CF" /\ f.seq = NextSeq(rx_seq_num)

\* Mutated form of CfBytes: the padding of the last CF is taken too.
CfBytesAll(f) == Taken(f.data, CFPayload)

\* The bytes of a CF the reassembly still misses.
CfBytes(f) == Taken(f.data, Least(CFPayload, rx_expected_len - Len(rx_buffer)))

DecodeSF(nad, f) ==
  /\ Accepts(nad) /\ LegalSF(f)
  /\ rx_state' = "SF"
  /\ rx_result' = Decoded(Taken(f.data, f.len))
  /\ UNCHANGED <<rx_buffer, rx_expected_len, rx_seq_num, filterVars>>

DecodeFF(nad, f) ==
  /\ Accepts(nad) /\ LegalFF(f)
  /\ rx_expected_len' = f.len
  /\ rx_seq_num' = 0
  /\ rx_buffer' = Taken(f.data, FFPayload)
  /\ rx_state' = IF FFPayload < f.len THEN "CF" ELSE "FF"
  /\ rx_result' = Decoded(rx_buffer')
  /\ UNCHANGED filterVars

DecodeCF(nad, f) ==
  LET grown == rx_buffer \o CfBytes(f)
  IN  /\ Accepts(nad) /\ LegalCF(f)
      /\ rx_seq_num' = f.seq
      /\ rx_buffer' = grown
      /\ rx_state' = IF Len(grown) >= rx_expected_len THEN "IDLE" ELSE "CF"
      /\ rx_result' = Decoded(grown)
      /\ UNCHANGED <<rx_expected_len, filterVars>>

\* An FC frame is decoded to an empty PDU.
DecodeEmpty(nad) ==
  /\ Accepts(nad)
  /\ rx_result' = Decoded(<<>>)
  /\ UNCHANGED <<rx_state, rx_buffer, rx_expected_len, rx_seq_num, filterVars>>

\* A frame of any kind for another node.
RejectNad(nad) ==
  /\ ~Accepts(nad)
  /\ rx_result' = Failed("NAD_MISMATCH")
  /\ UNCHANGED <<rx_state, rx_buffer, rx_expected_len, rx_seq_num, filterVars>>

RejectPci(nad, f) ==
  /\ Accepts(nad)
  /\ ~(LegalSF(f) \/ LegalFF(f) \/ LegalCF(f))
  /\ rx_result' = Failed("PCI_ERROR")
  /\ UNCHANGED <<rx_state, rx_buffer, rx_expected_len, rx_seq_num, filterVars>>

Decode(nad, f) ==
  \/ DecodeSF(nad, f) \/ DecodeFF(nad, f) \/ DecodeCF(nad, f)
  \/ RejectPci(nad, f)

\* lin_transport_set_nad_ctx, lin_transport_set_accept_functional_ctx
SetNad(nad) ==
  /\ expected_nad' = nad
  /\ UNCHANGED <<rx_state, rx_buffer, rx_expected_len, rx_seq_num,
                 accept_functional, rx_result>>

SetAcceptFunctional(enable) ==
  /\ accept_functional' = enable
  /\ UNCHANGED <<rx_state, rx_buffer, rx_expected_len, rx_seq_num,
                 expected_nad, rx_result>>

\* The receive half of lin_transport_reset_ctx: the address filter goes back to
\* the default node address, whatever the context was created with.
RxReset ==
  /\ rx_state' = "IDLE"
  /\ rx_buffer' = <<>>
  /\ rx_expected_len' = 0
  /\ rx_seq_num' = 0
  /\ expected_nad' = DefaultNad
  /\ accept_functional' = TRUE
  /\ UNCHANGED rx_result

RxNext ==
  \/ \E nad \in Nads, f \in Frames : Decode(nad, f)
  \/ \E nad \in Nads : RejectNad(nad) \/ DecodeEmpty(nad) \/ SetNad(nad)
  \/ \E enable \in BOOLEAN : SetAcceptFunctional(enable)
  \/ RxReset

RxSpec == RxInit /\ [][RxNext]_rxVars

-----------------------------------------------------------------------------
(* Types of the context's fields. *)
RxTypeOK ==
  /\ rx_state \in RxStates
  /\ rx_buffer \in Seq(Bytes)
  /\ rx_expected_len \in 0 .. FFMax
  /\ rx_seq_num \in 0 .. SeqMax
  /\ expected_nad \in Nads
  /\ accept_functional \in BOOLEAN
  /\ rx_result \in [status : {"NONE", "OK", "NAD_MISMATCH", "PCI_ERROR"},
                    data : Seq(Bytes)]

\* Whatever frames arrive in whatever order, the reassembly buffer never holds
\* more than the FF announced, which never exceeds LIN_FF_MAX_LEN, and a
\* reassembly in progress is always short of it (so a CF always has room).
BufferFits ==
  /\ Len(rx_buffer) <= rx_expected_len
  /\ rx_state = "CF" => Len(rx_buffer) < rx_expected_len

\* A reassembly in progress holds the FF's payload and one CF's payload for
\* each sequence number passed: the number last accepted tells how many CFs, up
\* to whole rounds of the sequence counter, are in the buffer.
SequenceTracksBuffer ==
  rx_state = "CF" =>
    LET n == CfCount(Len(rx_buffer))
    IN  /\ Len(rx_buffer) = FFPayload + n * CFPayload
        /\ rx_seq_num = IF n = 0 THEN 0 ELSE ((n - 1) % SeqMax) + 1
=============================================================================
