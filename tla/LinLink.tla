------------------------------ MODULE LinLink ------------------------------
(***************************************************************************)
(* Two transport contexts and the LIN bus between them.  One streams its   *)
(* messages (LinTx), the other reassembles them (LinRx) and answers with   *)
(* Flow Control.  The bus loses and repeats frames.  The loops that drive  *)
(* the two contexts are the callers the header documents: the sender polls *)
(* lin_tx_next_cf while lin_tx_has_more, the receiver takes a message when *)
(* its context has gone back to idle.                                      *)
(*                                                                         *)
(* Frames carry two history fields: msg, the position in sent of the       *)
(* message they are cut from, and k, the CF's place in it.                 *)
(***************************************************************************)
EXTENDS LinRx

CONSTANTS
  Messages, ByteSize, BlockSizes,   \* parameters of LinTx
  Nad,          \* the node both contexts are set to
  Links,        \* the connections looked at
  MaxMessages,  \* bound: messages sent
  MaxFrames     \* bound: frames on the bus, in each direction

\* A connection: the kinds of frame its bus may lose or repeat, whether its
\* sender may give up on a stream, and, of its receiver, the block size it
\* announces and the FC Wait frames it may send (a bound).
Link == [loses : SUBSET {"SF", "FF", "CF", "FC"}, repeats : SUBSET {"SF", "FF", "CF"},
         aborts : BOOLEAN, bs : BlockSizes, waits : Nat]

ASSUME LinkParameters ==
  /\ Nad \in Nads
  /\ Links \subseteq Link
  /\ \A m \in Messages : m \in Seq(Bytes)
  /\ MaxMessages \in Nat /\ MaxFrames \in Nat

VARIABLES
  tx_state, tx_seq_num, tx_stream_data, tx_stream_active,
  cf_in_block, wft_counter, rx_fc_params, tx_msg, tx_out,
  bus,        \* frames on their way to the receiver
  fcs,        \* FC frames on their way back
  fc_due,     \* the receiver owes the sender an FC Continue
  block,      \* CFs accepted since the receiver's last FC Continue
  link,       \* the connection
  waits,      \* FC Wait frames sent
  sent,       \* messages sent
  delivered,  \* messages the receiver has taken
  rx_msg,     \* history: the message of the last FF or SF decoded
  last        \* history: the message last delivered

Tx == INSTANCE LinTx

peerVars == <<fc_due, block, link, waits>>
txVars == <<tx_state, tx_seq_num, tx_stream_data, tx_stream_active, cf_in_block,
            wft_counter, rx_fc_params, tx_msg, tx_out>>
vars == <<txVars, rxVars, bus, fcs, peerVars, sent, delivered, rx_msg, last>>

Init ==
  /\ Tx!TxInit
  /\ RxInit /\ expected_nad = Nad
  /\ bus = <<>> /\ fcs = <<>>
  /\ fc_due = FALSE /\ block = 0 /\ waits = 0
  /\ link \in Links
  /\ sent = <<>> /\ delivered = <<>> /\ rx_msg = 0 /\ last = 0

-----------------------------------------------------------------------------
(* The sender. *)

\* The place in its message of the CF that would be handed out next.
NextK == CfCount(Len(tx_msg)) - CfCount(FFPayload + Len(tx_stream_data)) + 1

SendMessage(m) ==
  /\ ~tx_stream_active
  /\ Len(sent) < MaxMessages /\ Len(bus) < MaxFrames
  /\ Tx!BeginStream(m)
  /\ sent' = Append(sent, m)
  /\ bus' = Append(bus, [frame |-> Tx!FirstFrame(m), msg |-> Len(sent) + 1, k |-> 0])
  /\ UNCHANGED <<rxVars, fcs, peerVars, delivered, rx_msg, last>>

SendCf ==
  /\ Tx!HasMore /\ Len(bus) < MaxFrames
  /\ Tx!NextCfEmit
  /\ bus' = Append(bus, [frame |-> Tx!CfFrame, msg |-> Len(sent), k |-> NextK])
  /\ UNCHANGED <<rxVars, fcs, peerVars, sent, delivered, rx_msg, last>>

PauseAtBlockEnd ==
  /\ Tx!HasMore
  /\ Tx!NextCfPause
  /\ UNCHANGED <<rxVars, bus, fcs, peerVars, sent, delivered, rx_msg, last>>

TakeFc ==
  /\ fcs # <<>>
  /\ Tx!RecvFc(Head(fcs).status, Head(fcs).bs)
  /\ fcs' = Tail(fcs)
  /\ UNCHANGED <<rxVars, bus, peerVars, sent, delivered, rx_msg, last>>

GiveUp ==
  /\ link.aborts /\ tx_stream_active
  /\ Tx!AbortStream
  /\ UNCHANGED <<rxVars, bus, fcs, peerVars, sent, delivered, rx_msg, last>>

-----------------------------------------------------------------------------
(* The bus. *)

\* The frame at the head of the bus is lost.
Lose ==
  /\ bus # <<>> /\ Head(bus).frame.pci \in link.loses
  /\ bus' = Tail(bus)
  /\ UNCHANGED <<txVars, rxVars, fcs, peerVars, sent, delivered, rx_msg, last>>

Repeat ==
  /\ bus # <<>> /\ Head(bus).frame.pci \in link.repeats
  /\ Len(bus) < MaxFrames
  /\ bus' = <<Head(bus)>> \o bus
  /\ UNCHANGED <<txVars, rxVars, fcs, peerVars, sent, delivered, rx_msg, last>>

LoseFc ==
  /\ fcs # <<>> /\ "FC" \in link.loses
  /\ fcs' = Tail(fcs)
  /\ UNCHANGED <<txVars, rxVars, bus, peerVars, sent, delivered, rx_msg, last>>

-----------------------------------------------------------------------------
(* The receiver: it decodes a frame, and takes the message when one is     *)
(* complete.                                                               *)

Decoding(decode) ==
  /\ bus # <<>>
  /\ decode
  /\ bus' = Tail(bus)
  /\ UNCHANGED <<txVars, fcs, link, waits, sent>>

TakeMessage ==
  /\ delivered' = Append(delivered, rx_result'.data)
  /\ last' = rx_msg'

ReceiveSF ==
  /\ Decoding(DecodeSF(Nad, Head(bus).frame))
  /\ rx_msg' = Head(bus).msg
  /\ TakeMessage
  /\ fc_due' = FALSE
  /\ UNCHANGED block

ReceiveFF ==
  /\ Decoding(DecodeFF(Nad, Head(bus).frame))
  /\ rx_msg' = Head(bus).msg
  /\ fc_due' = TRUE
  /\ block' = 0
  /\ UNCHANGED <<delivered, last>>

\* A CF accepted: the message is complete, or the block is.
ReceiveCF ==
  /\ Decoding(DecodeCF(Nad, Head(bus).frame))
  /\ UNCHANGED rx_msg
  /\ IF rx_state' = "IDLE"
     THEN TakeMessage /\ fc_due' = FALSE
     ELSE /\ UNCHANGED <<delivered, last>>
          /\ fc_due' = (fc_due \/ block + 1 = link.bs)
  /\ block' = block + 1

ReceiveBad ==
  /\ Decoding(RejectPci(Nad, Head(bus).frame))
  /\ UNCHANGED <<fc_due, block, delivered, rx_msg, last>>

Receive == ReceiveSF \/ ReceiveFF \/ ReceiveCF \/ ReceiveBad

SendFcContinue ==
  /\ fc_due /\ Len(fcs) < MaxFrames
  /\ fcs' = Append(fcs, [status |-> "CONTINUE", bs |-> link.bs])
  /\ fc_due' = FALSE
  /\ block' = 0
  /\ UNCHANGED <<txVars, rxVars, bus, link, waits, sent, delivered, rx_msg, last>>

SendFcWait ==
  /\ fc_due /\ waits < link.waits /\ Len(fcs) < MaxFrames
  /\ fcs' = Append(fcs, [status |-> "WAIT", bs |-> link.bs])
  /\ waits' = waits + 1
  /\ UNCHANGED <<txVars, rxVars, bus, fc_due, block, link, sent, delivered,
                 rx_msg, last>>

Next ==
  \/ \E m \in Messages : SendMessage(m)
  \/ SendCf \/ PauseAtBlockEnd \/ TakeFc \/ GiveUp
  \/ Lose \/ Repeat \/ LoseFc
  \/ Receive \/ SendFcContinue \/ SendFcWait

Spec == Init /\ [][Next]_vars

\* Both callers keep polling and the bus keeps delivering.
Fairness ==
  /\ WF_vars(SendCf) /\ WF_vars(PauseAtBlockEnd) /\ WF_vars(TakeFc)
  /\ WF_vars(Receive) /\ WF_vars(SendFcContinue)

FairSpec == Spec /\ Fairness

-----------------------------------------------------------------------------
(* What the connection is for. *)

\* Messages come out of the receiver whole, in order and at most once, whatever
\* CFs, FF repetitions and FC frames the bus loses or repeats: the connection
\* implements the lossy FIFO of FifoDelivery.
Fifo == INSTANCE FifoDelivery
DeliversInOrder == Fifo!Spec

Lossless == link.loses = {} /\ link.repeats = {} /\ ~link.aborts

\* Every message sent over a bus that loses nothing reaches the receiver
\* (lin_tx_begin_stream, lin_tx_next_cf and lin_rx_decode used as documented).
EveryMessageArrives ==
  \A i \in 1 .. MaxMessages : Lossless /\ Len(sent) >= i ~> last >= i
=============================================================================
