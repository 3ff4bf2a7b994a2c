-------------------------- MODULE LinContext_proofs --------------------------
(***************************************************************************)
(* Theorems about one transport context, for any messages, frames, block   *)
(* sizes and payload sizes: its receive half behaves as LinRx says, and     *)
(* its send half neither skips nor repeats nor leaves behind any byte.     *)
(***************************************************************************)
EXTENDS LinContext, LinRx_proofs, SequenceTheorems

\* A step of the context is a step of the receiver or leaves the receiver alone.
LEMMA ContextStepReceives == [ContextNext]_contextVars => [RxNext]_rxVars
<1> SUFFICES ASSUME [ContextNext]_contextVars PROVE [RxNext]_rxVars
  OBVIOUS
<1>1. CASE SendingStep
  BY <1>1 DEF SendingStep
<1>2. CASE ReceivingStep
  BY <1>2 DEF ReceivingStep, RxNext
<1>3. ASSUME NEW nad \in Nads, NEW status, NEW bs, DecodeFC(nad, status, bs)
      PROVE  RxNext
  BY <1>3 DEF DecodeFC, RxNext
<1>4. CASE ContextReset
  BY <1>4 DEF ContextReset, RxNext
<1>5. CASE UNCHANGED contextVars
  BY <1>5 DEF contextVars
<1>6. QED
  BY <1>1, <1>2, <1>3, <1>4, <1>5 DEF ContextNext

\* What is proved of the receiver holds of the context, whatever the sending
\* half does in between (uds_lin_transport keeps both in one structure).
THEOREM ContextReceives == ContextSpec => RxSpec
<1>1. ContextInit => RxInit
  BY DEF ContextInit
<1>2. QED
  BY <1>1, ContextStepReceives, PTL DEF ContextSpec, RxSpec

-----------------------------------------------------------------------------
\* A split of a byte sequence: the two parts are byte sequences, together they
\* are the whole, and nothing is left exactly when the first part takes it all.
LEMMA SplitFact ==
  ASSUME NEW s \in Seq(Bytes), NEW n \in Nat
  PROVE /\ Taken(s, n) \in Seq(Bytes)
        /\ Left(s, n) \in Seq(Bytes)
        /\ Taken(s, n) \o Left(s, n) = s
        /\ Left(s, n) = <<>> <=> Len(s) <= n
<1> DEFINE k == Least(n, Len(s))
<1>1. k \in 0 .. Len(s)
  BY DEF Least
<1>2. Taken(s, n) = SubSeq(s, 1, k) /\ Left(s, n) = SubSeq(s, k + 1, Len(s))
  BY DEF Taken, Left
<1>3. /\ SubSeq(s, 1, k) \in Seq(Bytes)
      /\ Len(SubSeq(s, 1, k)) = k
      /\ \A i \in 1 .. k : SubSeq(s, 1, k)[i] = s[i]
  BY <1>1
<1>4. /\ SubSeq(s, k + 1, Len(s)) \in Seq(Bytes)
      /\ Len(SubSeq(s, k + 1, Len(s))) = Len(s) - k
      /\ \A i \in 1 .. Len(s) - k : SubSeq(s, k + 1, Len(s))[i] = s[k + i]
  BY <1>1
<1> HIDE DEF k
<1>5. SubSeq(s, 1, k) \o SubSeq(s, k + 1, Len(s)) = s
  <2>1. /\ 1 \in 1 .. Len(s) + 1 /\ k \in 1 - 1 .. Len(s) /\ Len(s) \in k .. Len(s)
    BY <1>1
  <2>2. SubSeq(s, 1, k) \o SubSeq(s, k + 1, Len(s)) = SubSeq(s, 1, Len(s))
    BY <2>1, ConcatAdjacentSubSeq, Zenon
  <2>3. QED
    BY <2>2, SubSeqFull, Zenon
<1>6. Len(s) - k = 0 <=> Len(s) <= n
  BY <1>1 DEF k, Least
<1>7. Left(s, n) = <<>> <=> Len(Left(s, n)) = 0
  <2>1. Left(s, n) \in Seq(Bytes)
    BY <1>2, <1>4
  <2>2. QED
    BY <2>1
<1>8. QED
  <2>1. Taken(s, n) \in Seq(Bytes) /\ Left(s, n) \in Seq(Bytes) /\ Len(Left(s, n)) = Len(s) - k
    BY <1>2, <1>3, <1>4
  <2>2. Taken(s, n) \o Left(s, n) = s
    BY <1>2, <1>5
  <2>3. QED
    BY <2>1, <2>2, <1>6, <1>7

\* The inductive invariant of the send half: at every moment the bytes handed
\* out and the bytes held are the message, and the stream is open exactly while
\* it holds some.  StreamWhole alone says nothing of what was handed out once
\* the last byte is gone, and EndsComplete nothing before.
TxInv ==
  /\ tx_stream_data \in Seq(Bytes) /\ tx_msg \in Seq(Bytes) /\ tx_out \in Seq(Bytes)
  /\ tx_stream_active \in BOOLEAN
  /\ tx_out \o tx_stream_data = tx_msg
  /\ tx_stream_active <=> tx_stream_data # <<>>
  /\ tx_stream_active => tx_state \in {"WAIT_FC", "CF", "BLOCK_WAIT"}
  /\ ~tx_stream_active => tx_state \in {"IDLE", "SF"}

\* The empty sequence, in the two forms the steps need it.
LEMMA EmptyFact == <<>> \o <<>> = <<>> /\ <<>> \in Seq(Bytes)
  OBVIOUS

\* ctx_init establishes it.
LEMMA TxInvInit == TxInit => TxInv
  BY EmptyFact DEF TxInit, TxInv

\* Handing out a CF moves its payload from the bytes held to those handed out.
LEMMA EmitKeepsTxInv ==
  ASSUME TxInv, NextCfEmit
  PROVE TxInv'
<1> DEFINE taken == Taken(tx_stream_data, CFPayload)
           left  == Left(tx_stream_data, CFPayload)
<1>1. CFPayload \in Nat
  BY FrameParameters
<1>2. /\ taken \in Seq(Bytes) /\ left \in Seq(Bytes)
      /\ taken \o left = tx_stream_data
  BY <1>1, SplitFact DEF TxInv
<1>3. /\ tx_stream_data' = left
      /\ tx_out' = tx_out \o taken
      /\ tx_msg' = tx_msg
      /\ tx_stream_active' = (left # <<>>)
      /\ tx_state' = IF left = <<>> THEN "IDLE" ELSE "CF"
  BY DEF NextCfEmit, CfPayload, StreamEnd
<1> HIDE DEF taken, left
<1>4. (tx_out \o taken) \o left = tx_out \o (taken \o left)
  <2>1. tx_out \in Seq(Bytes)
    BY DEF TxInv
  <2>2. \A x, y, z \in Seq(Bytes) : (x \o y) \o z = x \o (y \o z)
    BY ConcatAssociative
  <2>3. QED
    BY <1>2, <2>1, <2>2
<1>5. tx_out \o taken \in Seq(Bytes)
  BY <1>2 DEF TxInv
<1>6. tx_out' \o tx_stream_data' = tx_msg'
  BY <1>2, <1>3, <1>4 DEF TxInv
<1>7. QED
  BY <1>2, <1>3, <1>5, <1>6 DEF TxInv

\* Beginning a stream splits the message between the FF and the stream.
LEMMA BeginKeepsTxInv ==
  ASSUME NEW m \in Messages, BeginStream(m)
  PROVE TxInv'
<1>1. m \in Seq(Bytes) /\ FFPayload \in Nat /\ FFPayload <= SFMax /\ SFMax \in Nat
  BY TxParameters, FrameParameters
<1>2. CASE BeginSingle(m)
  <2>1. m \o <<>> = m
    BY <1>1, ConcatEmptySeq
  <2>2. /\ tx_stream_data' = <<>> /\ tx_out' = m /\ tx_msg' = m
        /\ tx_stream_active' = FALSE /\ tx_state' = "SF"
    BY <1>2 DEF BeginSingle
  <2>3. QED
    BY <1>1, <2>1, <2>2, EmptyFact DEF TxInv
<1>3. CASE BeginMulti(m)
  <2>1. Len(m) > FFPayload
    BY <1>1, <1>3 DEF BeginMulti
  <2>2. /\ Taken(m, FFPayload) \in Seq(Bytes) /\ Left(m, FFPayload) \in Seq(Bytes)
        /\ Taken(m, FFPayload) \o Left(m, FFPayload) = m
        /\ Left(m, FFPayload) # <<>>
    BY <1>1, <2>1, SplitFact
  <2>3. QED
    BY <1>1, <1>3, <2>2 DEF BeginMulti, TxInv
<1>4. QED
  BY <1>2, <1>3 DEF BeginStream

\* Every step of the context preserves it.
LEMMA TxInvNext == TxInv /\ [ContextNext]_contextVars => TxInv'
<1> SUFFICES ASSUME TxInv, [ContextNext]_contextVars PROVE TxInv'
  OBVIOUS
<1>1. ASSUME NEW m \in Messages, BeginStream(m) PROVE TxInv'
  BY <1>1, BeginKeepsTxInv
<1>2. CASE NextCfPause
  BY <1>2 DEF NextCfPause, TxInv, histVars
<1>3. CASE NextCfEmit
  BY <1>3, EmitKeepsTxInv
<1>4. CASE AbortStream
  BY <1>4, EmptyFact DEF AbortStream, TxInv
<1>5. ASSUME NEW nad \in Nads, NEW status, NEW bs, DecodeFC(nad, status, bs)
      PROVE  TxInv'
  <2>1. CASE RecvContinue(bs)
    BY <2>1 DEF RecvContinue, TxInv
  <2>2. CASE RecvWait(bs)
    BY <2>2 DEF RecvWait, TxInv, streamVars, histVars
  <2>3. CASE RecvOverflow(bs)
    BY <2>3 DEF RecvOverflow, TxInv, streamVars, histVars
  <2>4. QED
    BY <1>5, <2>1, <2>2, <2>3 DEF DecodeFC, RecvFc
<1>6. CASE ContextReset
  BY <1>6, EmptyFact DEF ContextReset, TxReset, TxInv
<1>7. CASE UNCHANGED txVars
  BY <1>7 DEF txVars, streamVars, histVars, TxInv
<1>8. QED
  BY <1>1, <1>2, <1>3, <1>4, <1>5, <1>6, <1>7
  DEF ContextNext, SendingStep, ReceivingStep, NextCf, contextVars

\* The invariant holds in every reachable state.
LEMMA TxInvAlways == ContextSpec => []TxInv
<1>1. ContextInit => TxInv
  BY TxInvInit DEF ContextInit
<1>2. QED
  BY <1>1, TxInvNext, PTL DEF ContextSpec

\* An open stream has handed out the beginning of its message, holds exactly the
\* rest, and waits for Flow Control or hands out CFs: for messages of any length
\* and any interleaving of polls, Flow Control, received frames and aborts.
THEOREM StreamAlwaysWhole == ContextSpec => []StreamWhole
<1>1. TxInv => StreamWhole
  BY DEF TxInv, StreamWhole
<1>2. QED
  BY <1>1, TxInvAlways, PTL

\* A stream that is closed has handed out its whole message.
THEOREM StreamAlwaysEndsComplete == ContextSpec => []EndsComplete
<1>1. TxInv => EndsComplete
  <2> SUFFICES ASSUME TxInv, ~tx_stream_active PROVE EndsComplete
    BY DEF EndsComplete
  <2>1. tx_stream_data = <<>> /\ tx_out \o <<>> = tx_out
    BY ConcatEmptySeq DEF TxInv
  <2>2. QED
    BY <2>1 DEF TxInv, EndsComplete
<1>2. QED
  BY <1>1, TxInvAlways, PTL

-----------------------------------------------------------------------------
(* Types and sequence numbers of the send half. *)

\* The fields besides those of TxInv, none of which depends on a message.
FcInv ==
  /\ tx_seq_num \in 0 .. SeqMax
  /\ cf_in_block \in 0 .. ByteSize - 1 /\ wft_counter \in 0 .. ByteSize - 1
  /\ rx_fc_params \in [status : FcStatus, bs : BlockSizes \cup {0}]

\* Every step of the context keeps them.
LEMMA FcInvNext == FcInv /\ [ContextNext]_contextVars => FcInv'
<1> SUFFICES ASSUME FcInv, [ContextNext]_contextVars PROVE FcInv'
  OBVIOUS
<1>1. ByteSize \in Nat /\ SeqMax \in Nat /\ SeqMax > 1 /\ SeqMax < ByteSize
  BY FrameParameters, TxParameters
<1>2. \A k \in Nat : k % ByteSize \in 0 .. ByteSize - 1
  BY <1>1
<1>3. CASE UNCHANGED <<tx_seq_num, fcVars>>
  BY <1>3 DEF FcInv, fcVars
<1>4. ASSUME NEW m \in Messages, BeginStream(m) PROVE FcInv'
  BY <1>1, <1>3, <1>4 DEF BeginStream, BeginSingle, BeginMulti, FcInv
<1>5. CASE NextCfPause
  BY <1>3, <1>5 DEF NextCfPause
<1>6. CASE NextCfEmit
  <2>1. tx_seq_num' \in 0 .. SeqMax
    BY <1>6, NextSeqFact DEF NextCfEmit, FcInv
  <2>2. cf_in_block' = (cf_in_block + 1) % ByteSize /\ cf_in_block + 1 \in Nat
    BY <1>6 DEF NextCfEmit, FcInv
  <2>3. UNCHANGED <<wft_counter, rx_fc_params>>
    BY <1>6 DEF NextCfEmit
  <2>4. QED
    BY <1>2, <2>1, <2>2, <2>3 DEF FcInv
<1>7. CASE AbortStream
  BY <1>1, <1>7 DEF AbortStream, FcInv
<1>8. ASSUME NEW nad \in Nads, NEW status \in FcStatus, NEW bs \in BlockSizes,
             DecodeFC(nad, status, bs)
      PROVE  FcInv'
  <2>1. CASE RecvContinue(bs)
    BY <1>1, <2>1 DEF RecvContinue, FcInv, FcStatus
  <2>2. CASE RecvWait(bs)
    <3>1. wft_counter' = (wft_counter + 1) % ByteSize /\ wft_counter + 1 \in Nat
      BY <2>2 DEF RecvWait, WftStep, FcInv
    <3>2. QED
      BY <1>2, <2>2, <3>1 DEF RecvWait, FcInv, FcStatus, streamVars
  <2>3. CASE RecvOverflow(bs)
    BY <2>3 DEF RecvOverflow, FcInv, FcStatus, streamVars
  <2>4. QED
    BY <1>8, <2>1, <2>2, <2>3 DEF DecodeFC, RecvFc
<1>9. CASE ContextReset
  BY <1>1, <1>9 DEF ContextReset, TxReset, FcInv
<1>10. CASE UNCHANGED txVars
  BY <1>3, <1>10 DEF txVars, streamVars
<1>11. QED
  BY <1>4, <1>5, <1>6, <1>7, <1>8, <1>9, <1>10
  DEF ContextNext, SendingStep, ReceivingStep, NextCf, contextVars

\* Every field of a context keeps its type: counters and sequence numbers their
\* width, whatever is sent, polled, received and reset.
THEOREM ContextTypeCorrect == ContextSpec => []ContextTypeOK
<1>1. ContextInit => FcInv
  BY FrameParameters, TxParameters DEF ContextInit, TxInit, FcInv, FcStatus
<1>2. TxInv /\ FcInv => TxTypeOK
  BY DEF TxInv, FcInv, TxTypeOK, TxStates
<1>3. QED
  BY <1>1, <1>2, FcInvNext, TxInvAlways, ContextReceives, RxTypeCorrect, PTL
  DEF ContextSpec, ContextTypeOK

\* An open stream has handed out the FF's payload and a whole number of CFs,
\* which its sequence number counts.
TxSeqInv ==
  tx_stream_active =>
    \E n \in Nat : /\ Len(tx_out) = FFPayload + n * CFPayload
                   /\ tx_seq_num = SeqAfter(n)

\* A CF that leaves something behind is full.
LEMMA EmitKeepsTxSeqInv ==
  ASSUME TxInv, TxSeqInv, NextCfEmit, tx_stream_active'
  PROVE  TxSeqInv'
<1> DEFINE taken == Taken(tx_stream_data, CFPayload)
<1>1. CFPayload \in Nat /\ FFPayload \in Nat
  BY FrameParameters
<1>2. PICK n \in Nat : Len(tx_out) = FFPayload + n * CFPayload /\ tx_seq_num = SeqAfter(n)
  BY DEF NextCfEmit, TxSeqInv
<1>3. Left(tx_stream_data, CFPayload) # <<>>
  BY DEF NextCfEmit, StreamEnd
<1>4. tx_stream_data \in Seq(Bytes) /\ tx_out \in Seq(Bytes)
  BY DEF TxInv
<1>5. ~(Len(tx_stream_data) <= CFPayload)
  BY <1>1, <1>3, <1>4, SplitFact
<1>6. taken \in Seq(Bytes) /\ Len(taken) = CFPayload
  BY <1>1, <1>4, <1>5, TakenFact
<1>7. tx_out' = tx_out \o taken /\ tx_seq_num' = NextSeq(tx_seq_num)
  BY DEF NextCfEmit, CfPayload
<1> HIDE DEF taken
<1>8. Len(tx_out \o taken) = Len(tx_out) + Len(taken)
  BY <1>4, <1>6
<1>9. Len(tx_out') = Len(tx_out) + CFPayload
  BY <1>6, <1>7, <1>8, Zenon
<1>10. Len(tx_out') = FFPayload + (n + 1) * CFPayload
  BY <1>1, <1>2, <1>9
<1>11. tx_seq_num' = SeqAfter(n + 1)
  BY <1>2, <1>7, SeqAfterFact
<1>12. QED
  BY <1>10, <1>11 DEF TxSeqInv

\* Every step of the context keeps it.
LEMMA TxSeqInvNext == TxInv /\ TxSeqInv /\ [ContextNext]_contextVars => TxSeqInv'
<1> SUFFICES ASSUME TxInv, TxSeqInv, [ContextNext]_contextVars PROVE TxSeqInv'
  OBVIOUS
<1>1. CASE UNCHANGED <<tx_stream_active, tx_out, tx_seq_num>> \/ ~tx_stream_active'
  BY <1>1 DEF TxSeqInv
<1>2. ASSUME NEW m \in Messages, BeginMulti(m) PROVE TxSeqInv'
  <2>1. m \in Seq(Bytes) /\ FFPayload \in Nat /\ CFPayload \in Nat /\ FFPayload <= SFMax
        /\ SFMax \in Nat /\ FFMax \in Nat
    BY TxParameters, FrameParameters
  <2>2. FFPayload <= Len(m)
    BY <1>2, <2>1 DEF BeginMulti
  <2>3. Len(Taken(m, FFPayload)) = FFPayload
    BY <2>1, <2>2, TakenFact
  <2>4. Len(tx_out') = FFPayload + 0 * CFPayload /\ tx_seq_num' = SeqAfter(0)
    BY <1>2, <2>1, <2>3 DEF BeginMulti, SeqAfter
  <2>5. QED
    BY <2>4 DEF TxSeqInv
<1>3. ASSUME NEW m \in Messages, BeginStream(m) PROVE TxSeqInv'
  BY <1>1, <1>2, <1>3 DEF BeginStream, BeginSingle
<1>4. CASE NextCfPause
  BY <1>1, <1>4 DEF NextCfPause, histVars
<1>5. CASE NextCfEmit
  BY <1>1, <1>5, EmitKeepsTxSeqInv
<1>6. CASE AbortStream
  BY <1>1, <1>6 DEF AbortStream
<1>7. ASSUME NEW nad, NEW status, NEW bs, DecodeFC(nad, status, bs) PROVE TxSeqInv'
  BY <1>1, <1>7 DEF DecodeFC, RecvFc, RecvContinue, RecvWait, RecvOverflow, streamVars, histVars
<1>8. CASE ContextReset
  BY <1>1, <1>8 DEF ContextReset, TxReset
<1>9. CASE UNCHANGED txVars
  BY <1>1, <1>9 DEF txVars, streamVars, histVars
<1>10. QED
  BY <1>3, <1>4, <1>5, <1>6, <1>7, <1>8, <1>9
  DEF ContextNext, SendingStep, ReceivingStep, NextCf, contextVars

\* The sequence number of an open stream says how many CFs were handed out, up to
\* whole rounds of the counter, so that a receiver can tell a lost one.
THEOREM SequenceAlwaysTracksStream == ContextSpec => []SequenceTracksStream
<1>1. ContextInit => TxSeqInv
  BY DEF ContextInit, TxInit, TxSeqInv
<1>2. TxSeqInv => SequenceTracksStream
  <2> SUFFICES ASSUME TxSeqInv, tx_stream_active PROVE SequenceTracksStream
    BY DEF SequenceTracksStream
  <2>1. PICK n \in Nat : Len(tx_out) = FFPayload + n * CFPayload /\ tx_seq_num = SeqAfter(n)
    BY DEF TxSeqInv
  <2>2. CfCount(Len(tx_out)) = n
    BY <2>1, CfCountFact
  <2>3. QED
    BY <2>1, <2>2 DEF SequenceTracksStream, SeqAfter
<1>3. QED
  BY <1>1, <1>2, TxSeqInvNext, TxInvAlways, PTL DEF ContextSpec
=============================================================================
