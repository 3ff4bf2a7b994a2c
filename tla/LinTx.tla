------------------------------- MODULE LinTx -------------------------------
(***************************************************************************)
(* The transmit side of one LIN transport context (lin_transport_ctx_t in  *)
(* uds_lin_transport): a message longer than a Single Frame is streamed as *)
(* a First Frame and then Consecutive Frames, under the Flow Control the   *)
(* peer returns.  A message is the sequence of its bytes; the ECU runs one *)
(* thread, so every function is one action.                                *)
(*                                                                         *)
(* tx_msg and tx_out are history variables: the message being streamed and *)
(* the payload handed out for it.  Past LIN_MAX_WFT_FRAMES Waits the code   *)
(* returns an error and changes nothing else, so the limit is not modelled. *)
(***************************************************************************)
EXTENDS LinFrames

CONSTANTS
  Messages,    \* the payloads the caller may transmit
  ByteSize,    \* number of values of a uint8_t
  BlockSizes   \* the block sizes a peer may put in an FC frame

ASSUME TxParameters ==
  /\ \A m \in Messages : m \in Seq(Bytes)
  /\ ByteSize \in Nat /\ SeqMax < ByteSize
  /\ BlockSizes \subseteq 0 .. ByteSize - 1

VARIABLES
  tx_state,          \* LIN_TX_...
  tx_seq_num,        \* sequence number of the last CF
  tx_stream_data,    \* the bytes not handed out yet (pointer and remaining)
  tx_stream_active,
  cf_in_block,       \* CFs since the last FC Continue
  wft_counter,       \* FC Wait frames received
  rx_fc_params,      \* the last FC received
  tx_msg,            \* history: the message being streamed
  tx_out             \* history: payload handed out for tx_msg, FF included

streamVars == <<tx_state, tx_seq_num, tx_stream_data, tx_stream_active>>
fcVars     == <<cf_in_block, wft_counter, rx_fc_params>>
histVars   == <<tx_msg, tx_out>>
txVars     == <<streamVars, fcVars, histVars>>

TxStates == {"IDLE", "SF", "WAIT_FC", "CF", "BLOCK_WAIT"}
FcStatus == {"CONTINUE", "WAIT", "OVERFLOW"}

TxInit ==
  /\ tx_state = "IDLE"
  /\ tx_seq_num = 0
  /\ tx_stream_data = <<>>
  /\ tx_stream_active = FALSE
  /\ cf_in_block = 0
  /\ wft_counter = 0
  /\ rx_fc_params = [status |-> "CONTINUE", bs |-> 0]
  /\ tx_msg = <<>>
  /\ tx_out = <<>>

-----------------------------------------------------------------------------
(* lin_tx_begin_stream_ctx: the frame it returns, and its effect. *)

FirstFrame(m) == IF Len(m) <= SFMax THEN SFrame(m) ELSE FFrame(m)

BeginSingle(m) ==
  /\ Len(m) \in 1 .. SFMax
  /\ tx_state' = "SF"
  /\ tx_stream_active' = FALSE
  /\ tx_stream_data' = <<>>
  /\ tx_msg' = m
  /\ tx_out' = m
  /\ UNCHANGED <<tx_seq_num, fcVars>>

BeginMulti(m) ==
  /\ Len(m) \in SFMax + 1 .. FFMax
  /\ tx_state' = "WAIT_FC"
  /\ tx_seq_num' = 0
  /\ tx_stream_data' = Left(m, FFPayload)
  /\ tx_stream_active' = TRUE
  /\ cf_in_block' = 0
  /\ tx_msg' = m
  /\ tx_out' = Taken(m, FFPayload)
  /\ UNCHANGED <<wft_counter, rx_fc_params>>

BeginStream(m) == BeginSingle(m) \/ BeginMulti(m)

-----------------------------------------------------------------------------
(* lin_tx_next_cf_ctx: the block-size test comes before the state test. *)

BlockFull == rx_fc_params.bs > 0 /\ cf_in_block >= rx_fc_params.bs

CfPayload == Taken(tx_stream_data, CFPayload)
CfFrame   == CFrame(NextSeq(tx_seq_num), CfPayload)

\* Mutated form of StreamEnd: a last, short CF is forgotten.
StreamEndShort(left) == Len(left) < CFPayload

\* Nothing is left to send.
StreamEnd(left) == left = <<>>

NextCfPause ==
  /\ tx_stream_active
  /\ BlockFull
  /\ tx_state' = "BLOCK_WAIT"
  /\ UNCHANGED <<tx_seq_num, tx_stream_data, tx_stream_active, fcVars, histVars>>

NextCfEmit ==
  LET left == Left(tx_stream_data, CFPayload)
  IN  /\ tx_stream_active
      /\ ~BlockFull
      /\ tx_state = "CF"
      /\ tx_seq_num' = NextSeq(tx_seq_num)
      /\ tx_stream_data' = left
      /\ cf_in_block' = (cf_in_block + 1) % ByteSize
      /\ tx_stream_active' = ~StreamEnd(left)
      /\ tx_state' = IF StreamEnd(left) THEN "IDLE" ELSE "CF"
      /\ tx_out' = tx_out \o CfPayload
      /\ UNCHANGED <<wft_counter, rx_fc_params, tx_msg>>

-----------------------------------------------------------------------------
(* lin_rx_decode_ctx, the Flow Control branch. *)

\* Mutated form of WftStep: a count without its width.
WftStepWide == wft_counter + 1

WftStep == (wft_counter + 1) % ByteSize

RecvContinue(bs) ==
  /\ rx_fc_params' = [status |-> "CONTINUE", bs |-> bs]
  /\ cf_in_block' = 0
  /\ tx_state' = IF tx_state = "WAIT_FC" THEN "CF" ELSE tx_state
  /\ UNCHANGED <<tx_seq_num, tx_stream_data, tx_stream_active, wft_counter,
                 tx_msg, tx_out>>

RecvWait(bs) ==
  /\ rx_fc_params' = [status |-> "WAIT", bs |-> bs]
  /\ wft_counter' = WftStep
  /\ UNCHANGED <<streamVars, cf_in_block, histVars>>

RecvOverflow(bs) ==
  /\ rx_fc_params' = [status |-> "OVERFLOW", bs |-> bs]
  /\ UNCHANGED <<streamVars, cf_in_block, wft_counter, histVars>>

RecvFc(status, bs) ==
  \/ status = "CONTINUE" /\ RecvContinue(bs)
  \/ status = "WAIT"     /\ RecvWait(bs)
  \/ status = "OVERFLOW" /\ RecvOverflow(bs)

-----------------------------------------------------------------------------
(* lin_tx_abort_stream_ctx and the transmit half of lin_transport_reset_ctx. *)

AbortStream ==
  /\ tx_state' = "IDLE"
  /\ tx_stream_active' = FALSE
  /\ tx_stream_data' = <<>>
  /\ cf_in_block' = 0
  /\ tx_msg' = <<>> /\ tx_out' = <<>>
  /\ UNCHANGED <<tx_seq_num, wft_counter, rx_fc_params>>

TxReset ==
  /\ tx_state' = "IDLE"
  /\ tx_seq_num' = 0
  /\ tx_stream_active' = FALSE
  /\ tx_stream_data' = <<>>
  /\ cf_in_block' = 0
  /\ wft_counter' = 0
  /\ tx_msg' = <<>> /\ tx_out' = <<>>
  /\ UNCHANGED rx_fc_params

\* Mutated form of HasMore: the polling stops before a last, short CF.
HasMoreFull == tx_stream_active /\ tx_state = "CF" /\ Len(tx_stream_data) >= CFPayload

\* lin_tx_has_more_ctx
HasMore == tx_stream_active /\ tx_state = "CF"

NextCf == NextCfPause \/ NextCfEmit

TxNext ==
  \/ \E m \in Messages : BeginStream(m)
  \/ NextCf
  \/ \E s \in FcStatus, bs \in BlockSizes : RecvFc(s, bs)
  \/ AbortStream
  \/ TxReset

TxSpec == TxInit /\ [][TxNext]_txVars

-----------------------------------------------------------------------------
(* Types of the context's fields. *)
TxTypeOK ==
  /\ tx_state \in TxStates
  /\ tx_seq_num \in 0 .. SeqMax
  /\ tx_stream_data \in Seq(Bytes)
  /\ tx_stream_active \in BOOLEAN
  /\ cf_in_block \in 0 .. ByteSize - 1
  /\ wft_counter \in 0 .. ByteSize - 1
  /\ rx_fc_params \in [status : FcStatus, bs : BlockSizes \cup {0}]
  /\ tx_msg \in Seq(Bytes) /\ tx_out \in Seq(Bytes)

\* Pauses, Waits, new block sizes, aborts and resets in any order: what the
\* stream has handed out and what it still holds are, together, the message
\* begun, and a stream that is open has something to send.
StreamWhole ==
  tx_stream_active =>
    /\ tx_out \o tx_stream_data = tx_msg
    /\ tx_stream_data # <<>>
    /\ tx_state \in {"WAIT_FC", "CF", "BLOCK_WAIT"}

\* The last sequence number is the one the CFs handed out so far have reached,
\* so that the receiver can tell a lost CF.
SequenceTracksStream ==
  tx_stream_active =>
    LET n == CfCount(Len(tx_out))
    IN  tx_seq_num = IF n = 0 THEN 0 ELSE ((n - 1) % SeqMax) + 1

\* A stream that ended by itself handed out the whole message; nobody is left
\* in a sending state with nothing to send.
EndsComplete ==
  ~tx_stream_active =>
    /\ tx_stream_data = <<>>
    /\ tx_out = tx_msg
    /\ tx_state \in {"IDLE", "SF"}
=============================================================================
