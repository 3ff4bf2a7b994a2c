----------------------------- MODULE LinRx_proofs -----------------------------
(***************************************************************************)
(* Theorems about LinRx, for any frames, payload sizes and addresses.      *)
(***************************************************************************)
EXTENDS LinRx, TLAPS

\* A prefix of a byte sequence is a byte sequence no longer than asked for.
LEMMA TakenFact ==
  ASSUME NEW s \in Seq(Bytes), NEW n \in Nat
  PROVE /\ Taken(s, n) \in Seq(Bytes)
        /\ Len(Taken(s, n)) = IF n <= Len(s) THEN n ELSE Len(s)
  BY DEF Taken, Least

\* A sequence number's successor is a sequence number.
LEMMA NextSeqFact ==
  ASSUME NEW n \in 0 .. SeqMax
  PROVE NextSeq(n) \in 0 .. SeqMax
  BY FrameParameters DEF NextSeq

\* The inductive invariant.
RxInv == RxTypeOK /\ BufferFits

\* ctx_init establishes the invariant.
LEMMA RxInvInit == RxInit => RxInv
  BY FrameParameters
  DEF RxInit, RxInv, RxTypeOK, BufferFits, Failed, RxStates

\* Every frame and every configuration call preserves it.
LEMMA RxInvNext == RxInv /\ [RxNext]_rxVars => RxInv'
<1> SUFFICES ASSUME RxInv, [RxNext]_rxVars PROVE RxInv'
  OBVIOUS
<1> USE FrameParameters, RxParameters
    DEF RxInv, RxTypeOK, BufferFits, RxStates, filterVars
<1>1. ASSUME NEW nad \in Nads, NEW f \in Frames, DecodeSF(nad, f) PROVE RxInv'
  <2>1. f.data \in Seq(Bytes) /\ f.len \in Nat
    BY <1>1 DEF DecodeSF, LegalSF, SFrames, FFrames, CFrames
  <2>2. Taken(f.data, f.len) \in Seq(Bytes)
    BY <2>1, TakenFact
  <2>3. QED
    BY <1>1, <2>2 DEF DecodeSF, Decoded
<1>2. ASSUME NEW nad \in Nads, NEW f \in Frames, DecodeFF(nad, f) PROVE RxInv'
  <2>1. f.data \in Seq(Bytes) /\ f.len \in SFMax + 1 .. FFMax /\ Len(f.data) = FFPayload
    BY <1>2 DEF DecodeFF, LegalFF, SFrames, FFrames, CFrames
  <2>2. Taken(f.data, FFPayload) \in Seq(Bytes) /\ Len(Taken(f.data, FFPayload)) = FFPayload
    BY <2>1, TakenFact
  <2>3. FFPayload < f.len /\ f.len \in 0 .. FFMax
    BY <2>1
  <2>4. QED
    BY <1>2, <2>2, <2>3 DEF DecodeFF, Decoded
<1>3. ASSUME NEW nad \in Nads, NEW f \in Frames, DecodeCF(nad, f) PROVE RxInv'
  <2> DEFINE remaining == rx_expected_len - Len(rx_buffer)
             grown == rx_buffer \o Taken(f.data, Least(CFPayload, remaining))
  <2>1. f.data \in Seq(Bytes) /\ f.seq = NextSeq(rx_seq_num) /\ rx_state = "CF"
    BY <1>3 DEF DecodeCF, LegalCF, SFrames, FFrames, CFrames
  <2>2. remaining \in Nat \ {0} /\ Least(CFPayload, remaining) \in Nat
        /\ Least(CFPayload, remaining) <= remaining
    BY <2>1 DEF Least
  <2>3. /\ Taken(f.data, Least(CFPayload, remaining)) \in Seq(Bytes)
        /\ Len(Taken(f.data, Least(CFPayload, remaining))) <= remaining
    BY <2>1, <2>2, TakenFact
  <2>4. grown \in Seq(Bytes) /\ Len(grown) <= rx_expected_len
    BY <2>2, <2>3
  <2>5. rx_seq_num' \in 0 .. SeqMax
    BY <1>3, <2>1, NextSeqFact DEF DecodeCF
  <2>6. /\ rx_buffer' = grown
        /\ rx_state' = IF Len(grown) >= rx_expected_len THEN "IDLE" ELSE "CF"
        /\ rx_result' = Decoded(grown)
        /\ UNCHANGED <<rx_expected_len, filterVars>>
    BY <1>3 DEF DecodeCF, CfBytes
  <2> HIDE DEF grown
  <2>7. QED
    BY <2>4, <2>5, <2>6 DEF Decoded
<1>4. ASSUME NEW nad \in Nads, RejectNad(nad) PROVE RxInv'
  BY <1>4 DEF RejectNad, Failed
<1>5. ASSUME NEW nad \in Nads, NEW f \in Frames, RejectPci(nad, f) PROVE RxInv'
  BY <1>5 DEF RejectPci, Failed
<1>6. ASSUME NEW nad \in Nads, SetNad(nad) PROVE RxInv'
  BY <1>6 DEF SetNad
<1>7. ASSUME NEW enable \in BOOLEAN, SetAcceptFunctional(enable) PROVE RxInv'
  BY <1>7 DEF SetAcceptFunctional
<1>8. CASE RxReset
  BY <1>8 DEF RxReset
<1>9. CASE UNCHANGED rxVars
  BY <1>9 DEF rxVars
<1>10. ASSUME NEW nad \in Nads, DecodeEmpty(nad) PROVE RxInv'
  BY <1>10 DEF DecodeEmpty, Decoded
<1>11. QED
  BY <1>1, <1>2, <1>3, <1>4, <1>5, <1>6, <1>7, <1>8, <1>9, <1>10 DEF RxNext, Decode

\* The invariant holds in every reachable state.
LEMMA RxInvAlways == RxSpec => []RxInv
  BY RxInvInit, RxInvNext, PTL DEF RxSpec

\* The context's fields keep their types whatever frames arrive.
THEOREM RxTypeCorrect == RxSpec => []RxTypeOK
  BY RxInvAlways, PTL DEF RxInv

\* The reassembly buffer never holds more than the First Frame announced: no
\* sequence of frames, in any order, writes past it.
THEOREM BufferAlwaysFits == RxSpec => []BufferFits
  BY RxInvAlways, PTL DEF RxInv

-----------------------------------------------------------------------------
(* Counters and clocks that wrap. *)

\* A remainder is what one finds it to be.
LEMMA DivisionUnique ==
  ASSUME NEW a \in Int, NEW b \in Nat \ {0}, NEW q \in Int, NEW r \in 0 .. b - 1, a = q * b + r
  PROVE  a \div b = q /\ a % b = r
  BY SMTT(30)

\* Quotient and remainder make up the number.
LEMMA Division ==
  ASSUME NEW b \in Nat \ {0}, NEW a \in Int
  PROVE  \E q \in Int, r \in 0 .. b - 1 : a = q * b + r /\ a \div b = q /\ a % b = r
<1> DEFINE q == a \div b
           r == a % b
<1>1. q \in Int /\ r \in 0 .. b - 1 /\ a = q * b + r
  OBVIOUS
<1>2. a \div b = q /\ a % b = r
  OBVIOUS
<1> HIDE DEF q, r
<1>. QED BY <1>1, <1>2

\* The difference of two readings of a clock that wraps, taken at most a turn
\* apart, is the time between them: why the code may subtract uint32_t stamps.
LEMMA WrappedDifference ==
  ASSUME NEW C \in Nat \ {0}, NEW a \in Nat, NEW b \in Nat, b <= a, a - b < C
  PROVE  ((a % C) - (b % C)) % C = a - b
<1>0. a \in Int /\ b \in Int
  OBVIOUS
<1>1. PICK qa \in Int, ra \in 0 .. C - 1 :
          a = qa * C + ra /\ a \div C = qa /\ a % C = ra
  BY <1>0, Division, Zenon
<1>2. PICK qb \in Int, rb \in 0 .. C - 1 :
          b = qb * C + rb /\ b \div C = qb /\ b % C = rb
  BY <1>0, Division, Zenon
<1>3. ra - rb = (qb - qa) * C + (a - b) /\ ra - rb \in Int /\ qb - qa \in Int
  BY <1>1, <1>2
<1>4. a - b \in 0 .. C - 1
  OBVIOUS
<1>5. (ra - rb) % C = a - b
  BY <1>3, <1>4, DivisionUnique
<1>. QED BY <1>1, <1>2, <1>5

-----------------------------------------------------------------------------
(* Sequence numbers. *)

\* The sequence number after n CFs.
SeqAfter(n) == IF n = 0 THEN 0 ELSE ((n - 1) % SeqMax) + 1

\* Counting the CFs of a number of bytes that fills n of them finds n.
LEMMA CfCountFact ==
  ASSUME NEW n \in Nat
  PROVE  CfCount(FFPayload + n * CFPayload) = n
<1>1. CFPayload \in Nat \ {0} /\ FFPayload \in Nat
  BY FrameParameters
<1>2. n * CFPayload \in Nat
  BY <1>1
<1>3. (FFPayload + n * CFPayload) - FFPayload + CFPayload - 1 = n * CFPayload + (CFPayload - 1)
  BY <1>1, <1>2
<1>4. QED
  BY <1>1, <1>2, <1>3, DivisionUnique DEF CfCount

\* One CF more takes the next sequence number, also where the number starts again
\* at 1.
LEMMA SeqAfterFact ==
  ASSUME NEW n \in Nat
  PROVE  SeqAfter(n + 1) = NextSeq(SeqAfter(n))
<1>1. SeqMax \in Nat /\ SeqMax > 1
  BY FrameParameters
<1>2. CASE n = 0
  BY <1>1, <1>2 DEF SeqAfter, NextSeq
<1>3. CASE n > 0
  <2> DEFINE q == (n - 1) \div SeqMax
             r == (n - 1) % SeqMax
  <2>1. q \in Int /\ r \in 0 .. SeqMax - 1 /\ n - 1 = q * SeqMax + r
    BY <1>1
  <2>2. n % SeqMax = (r + 1) % SeqMax
    <3> HIDE DEF q, r
    <3>1. CASE r + 1 < SeqMax
      <4>1. n = q * SeqMax + (r + 1) /\ r + 1 = 0 * SeqMax + (r + 1) /\ r + 1 \in 0 .. SeqMax - 1
        BY <1>1, <2>1, <3>1
      <4>2. QED
        BY <1>1, <4>1, <2>1, DivisionUnique
    <3>2. CASE r + 1 = SeqMax
      <4>1. n = (q + 1) * SeqMax + 0 /\ r + 1 = 1 * SeqMax + 0 /\ 0 \in 0 .. SeqMax - 1
        BY <1>1, <2>1, <3>2
      <4>2. QED
        BY <1>1, <4>1, <2>1, DivisionUnique
    <3>3. QED
      BY <2>1, <3>1, <3>2, <1>1
  <2>3. QED
    BY <1>1, <1>3, <2>2 DEF SeqAfter, NextSeq
<1>4. QED
  BY <1>2, <1>3

\* A reassembly in progress holds the FF's payload and a whole number of CFs,
\* which its sequence number counts.
SeqInv ==
  rx_state = "CF" =>
    \E n \in Nat : /\ Len(rx_buffer) = FFPayload + n * CFPayload
                   /\ rx_seq_num = SeqAfter(n)

\* Only the FF and a CF that is not the last matter.
LEMMA SeqInvNext == RxInv /\ SeqInv /\ [RxNext]_rxVars => SeqInv'
<1> SUFFICES ASSUME RxInv, SeqInv, [RxNext]_rxVars PROVE SeqInv'
  OBVIOUS
<1>1. FFPayload \in Nat /\ CFPayload \in Nat
  BY FrameParameters
<1>2. CASE UNCHANGED <<rx_state, rx_buffer, rx_seq_num>> \/ rx_state' # "CF"
  BY <1>2 DEF SeqInv
<1>3. ASSUME NEW nad \in Nads, NEW f \in Frames, DecodeFF(nad, f) PROVE SeqInv'
  <2>1. f.data \in Seq(Bytes) /\ Len(f.data) = FFPayload
    BY <1>3, RxParameters DEF DecodeFF, LegalFF, SFrames, FFrames, CFrames
  <2>2. Len(rx_buffer') = FFPayload + 0 * CFPayload /\ rx_seq_num' = SeqAfter(0)
    BY <1>1, <1>3, <2>1, TakenFact DEF DecodeFF, SeqAfter
  <2>3. QED
    BY <2>2 DEF SeqInv
<1>4. ASSUME NEW nad \in Nads, NEW f \in Frames, DecodeCF(nad, f), rx_state' = "CF"
      PROVE  SeqInv'
  <2> DEFINE room == rx_expected_len - Len(rx_buffer)
             taken == Taken(f.data, Least(CFPayload, room))
  <2>1. f.data \in Seq(Bytes) /\ Len(f.data) = CFPayload /\ rx_state = "CF"
        /\ f.seq = NextSeq(rx_seq_num)
    BY <1>4, RxParameters DEF DecodeCF, LegalCF, SFrames, FFrames, CFrames
  <2>2. PICK n \in Nat : Len(rx_buffer) = FFPayload + n * CFPayload /\ rx_seq_num = SeqAfter(n)
    BY <2>1 DEF SeqInv
  <2>3. room \in Nat \ {0} /\ rx_buffer \in Seq(Bytes) /\ rx_expected_len \in Nat
    BY <2>1 DEF RxInv, RxTypeOK, BufferFits
  <2>4. Least(CFPayload, room) \in Nat /\ Least(CFPayload, room) <= CFPayload
    BY <1>1, <2>3 DEF Least
  <2>5. taken \in Seq(Bytes) /\ Len(taken) = Least(CFPayload, room)
    BY <2>1, <2>4, TakenFact
  <2>6. /\ rx_buffer' = rx_buffer \o taken /\ rx_seq_num' = f.seq
        /\ ~(Len(rx_buffer \o taken) >= rx_expected_len)
    BY <1>4 DEF DecodeCF, CfBytes
  <2> HIDE DEF taken
  <2>7. Len(rx_buffer') = Len(rx_buffer) + Least(CFPayload, room)
    <3>1. Len(rx_buffer \o taken) = Len(rx_buffer) + Len(taken)
      BY <2>3, <2>5
    <3>2. QED
      BY <2>5, <2>6, <3>1, Zenon
  <2>8. Least(CFPayload, room) = CFPayload
    BY <1>1, <2>3, <2>5, <2>6, <2>7 DEF Least
  <2>9. Len(rx_buffer') = FFPayload + (n + 1) * CFPayload
    BY <1>1, <2>2, <2>7, <2>8
  <2>10. rx_seq_num' = SeqAfter(n + 1)
    BY <2>1, <2>2, <2>6, SeqAfterFact
  <2>11. QED
    BY <2>9, <2>10 DEF SeqInv
<1>5. ASSUME NEW nad \in Nads, NEW f \in Frames, DecodeSF(nad, f) PROVE rx_state' # "CF"
  BY <1>5 DEF DecodeSF
<1>6. RxReset => rx_state' # "CF"
  BY DEF RxReset
<1>7. ASSUME NEW nad \in Nads, NEW f \in Frames, RejectPci(nad, f)
      PROVE  UNCHANGED <<rx_state, rx_buffer, rx_seq_num>>
  BY <1>7 DEF RejectPci
<1>8. ASSUME NEW nad \in Nads, RejectNad(nad) \/ DecodeEmpty(nad) \/ SetNad(nad)
      PROVE  UNCHANGED <<rx_state, rx_buffer, rx_seq_num>>
  BY <1>8 DEF RejectNad, DecodeEmpty, SetNad
<1>9. ASSUME NEW enable \in BOOLEAN, SetAcceptFunctional(enable)
      PROVE  UNCHANGED <<rx_state, rx_buffer, rx_seq_num>>
  BY <1>9 DEF SetAcceptFunctional
<1>10. UNCHANGED rxVars => UNCHANGED <<rx_state, rx_buffer, rx_seq_num>>
  BY DEF rxVars
<1>11. QED
  BY <1>2, <1>3, <1>4, <1>5, <1>6, <1>7, <1>8, <1>9, <1>10 DEF RxNext, Decode

\* While a message is being reassembled, the sequence number says how many CFs
\* are in the buffer, up to whole rounds of the counter.
THEOREM SequenceAlwaysTracksBuffer == RxSpec => []SequenceTracksBuffer
<1>1. RxInit => SeqInv
  BY DEF RxInit, SeqInv
<1>2. SeqInv => SequenceTracksBuffer
  <2> SUFFICES ASSUME SeqInv, rx_state = "CF" PROVE SequenceTracksBuffer
    BY DEF SequenceTracksBuffer
  <2>1. PICK n \in Nat : Len(rx_buffer) = FFPayload + n * CFPayload /\ rx_seq_num = SeqAfter(n)
    BY DEF SeqInv
  <2>2. CfCount(Len(rx_buffer)) = n
    BY <2>1, CfCountFact
  <2>3. QED
    BY <2>1, <2>2 DEF SequenceTracksBuffer, SeqAfter
<1>3. QED
  BY <1>1, <1>2, SeqInvNext, RxInvAlways, PTL DEF RxSpec
=============================================================================
