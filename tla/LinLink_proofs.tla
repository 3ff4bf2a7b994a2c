--------------------------- MODULE LinLink_proofs ---------------------------
(***************************************************************************)
(* The connection of LinLink implements the lossy FIFO of FifoDelivery,    *)
(* for any messages, payload sizes and length of the sequence counter.     *)
(***************************************************************************)
EXTENDS LinLink, LinRx_proofs, SequenceTheorems

\* A bus that loses no First Frame and repeats no Single Frame: a receiver could
\* not tell the CFs of the message after a lost FF from those it waits for, nor
\* a repeated SF from a new one.
FramesSurvive ==
  \A l \in Links : "FF" \notin l.loses /\ "SF" \notin l.repeats

-----------------------------------------------------------------------------
(* Messages and the frames they are cut into. *)

\* The bytes of a message that its FF and k CFs carry.
Upto(k) == FFPayload + k * CFPayload

\* A message that takes more than a Single Frame.
Multi(m) == Len(m) > SFMax

Sendable == {m \in Messages : Len(m) \in 1 .. FFMax}

\* What the kth CF of a message carries.
Piece(m, k) == Taken(SubSeq(m, Upto(k - 1) + 1, Len(m)), CFPayload)

FrameOf(m, k) ==
  IF k > 0 THEN CFrame(SeqAfter(k), Piece(m, k))
  ELSE IF Multi(m) THEN FFrame(m) ELSE SFrame(m)

-----------------------------------------------------------------------------
(* The inductive invariant.  n CFs of the message being reassembled are in the
   buffer, p is the place in it of the last of its frames to leave the bus, and
   q the place of the last one the sender has cut from the message it streams. *)

Entries == [frame : SFrames \cup FFrames \cup CFrames, msg : Nat, k : Nat]

\* A frame on the bus is what its history fields say.
IsCut(e) ==
  /\ e.msg \in 1 .. Len(sent)
  /\ e.frame = FrameOf(sent[e.msg], e.k)
  /\ e.k > 0 => Multi(sent[e.msg]) /\ Upto(e.k - 1) < Len(sent[e.msg])

IsSingle(e) == e.k = 0 /\ ~Multi(sent[e.msg])

\* e was put on the bus before f, or is repeated by it.
NotAfter(e, f) == e.msg < f.msg \/ (e.msg = f.msg /\ e.k <= f.k)

BusInv ==
  /\ sent \in Seq(Sendable) /\ bus \in Seq(Entries) /\ link \in Links
  /\ \A j \in 1 .. Len(bus) : IsCut(bus[j])
  /\ \A i, j \in 1 .. Len(bus) :
       i < j => NotAfter(bus[i], bus[j]) /\ (IsSingle(bus[i]) => bus[i].msg # bus[j].msg)
  /\ rx_msg \in 0 .. Len(sent)
  /\ \A j \in 1 .. Len(bus) :
       rx_msg <= bus[j].msg /\ (IsSingle(bus[j]) => rx_msg < bus[j].msg)
  /\ \A x \in rx_msg + 1 .. Len(sent) :
       Multi(sent[x]) => \E j \in 1 .. Len(bus) : bus[j].msg = x /\ bus[j].k = 0

\* The stream is what is left of the last message.
SenderInv(p, q) ==
  tx_stream_active =>
    /\ sent # <<>> /\ tx_msg = sent[Len(sent)] /\ Multi(tx_msg)
    /\ Upto(q) < Len(tx_msg)
    /\ tx_stream_data = SubSeq(tx_msg, Upto(q) + 1, Len(tx_msg))
    /\ tx_seq_num = SeqAfter(q)
    /\ \A j \in 1 .. Len(bus) : bus[j].msg = Len(sent) => bus[j].k <= q
    /\ rx_msg = Len(sent) => p <= q

\* The reassembly holds the beginning of the message; or it misses some CF, and
\* then the frames still to come are too far ahead to make up for it.
ReassemblyInv(n, p) ==
  rx_state = "CF" =>
    /\ last < rx_msg /\ Multi(sent[rx_msg]) /\ rx_expected_len = Len(sent[rx_msg])
    /\ n <= p
    /\ rx_buffer \in Seq(Bytes) /\ Len(rx_buffer) = Upto(n) /\ Upto(n) < rx_expected_len
    /\ rx_seq_num = SeqAfter(n)
    /\ rx_buffer = SubSeq(sent[rx_msg], 1, Upto(n)) \/ n + 2 <= p

ReceiverInv(n, p) ==
  /\ last \in 0 .. rx_msg
  /\ \A j \in 1 .. Len(bus) : bus[j].msg = rx_msg => bus[j].k >= p
  /\ last = rx_msg /\ rx_msg > 0 => p > 0
  /\ ReassemblyInv(n, p)

LinkInv(n, p, q) == BusInv /\ SenderInv(p, q) /\ ReceiverInv(n, p)

-----------------------------------------------------------------------------
(* Facts about cutting a message. *)

\* Each CF carries CFPayload bytes more.
LEMMA UptoFact ==
  /\ Upto(0) = FFPayload
  /\ \A k \in Nat : /\ Upto(k) \in Nat /\ Upto(k) >= FFPayload
                    /\ Upto(k + 1) = Upto(k) + CFPayload
                    /\ Upto((k + 1) - 1) = Upto(k)
<1>1. FFPayload \in Nat /\ CFPayload \in Nat
  BY FrameParameters
<1>2. \A k \in Nat : k * CFPayload \in Nat /\ (k + 1) * CFPayload = k * CFPayload + CFPayload
  BY <1>1
<1>3. 0 * CFPayload = 0 /\ \A k \in Nat : (k + 1) - 1 = k
  BY <1>1
<1>4. QED
  BY <1>1, <1>2, <1>3 DEF Upto

\* More CFs carry at least as many bytes.
LEMMA UptoMonotonic ==
  ASSUME NEW i \in Nat, NEW j \in Nat, i <= j
  PROVE  Upto(i) <= Upto(j)
<1>1. FFPayload \in Nat /\ CFPayload \in Nat
  BY FrameParameters
<1>2. \A d \in Nat : (i + d) * CFPayload = i * CFPayload + d * CFPayload /\ d * CFPayload >= 0
                     /\ i * CFPayload \in Nat /\ d * CFPayload \in Nat
  BY <1>1
<1>3. j - i \in Nat /\ j = i + (j - i)
  OBVIOUS
<1>4. j * CFPayload = i * CFPayload + (j - i) * CFPayload /\ (j - i) * CFPayload >= 0
      /\ i * CFPayload \in Nat /\ (j - i) * CFPayload \in Nat
  BY <1>2, <1>3
<1>5. QED
  BY <1>1, <1>4 DEF Upto

\* A sequence number differs from the one before, and from the one after next.
LEMMA SeqApart ==
  ASSUME NEW n \in Nat, NEW k \in Nat, SeqAfter(k) = SeqAfter(n + 1), k >= n
  PROVE  k = n + 1 \/ k >= n + 3
<1>1. SeqMax \in Nat /\ SeqMax > 1
  BY FrameParameters
<1>2. \A s \in Nat : s <= SeqMax => NextSeq(s) # s
  <2>1. \A s \in Nat : s < SeqMax => s % SeqMax = s
    BY <1>1
  <2>2. SeqMax % SeqMax = 0
    BY <1>1
  <2>3. QED
    BY <1>1, <2>1, <2>2 DEF NextSeq
<1>3. \A i \in Nat : SeqAfter(i) \in Nat /\ SeqAfter(i) <= SeqMax
  BY <1>1 DEF SeqAfter
<1>4. SeqAfter(n) # SeqAfter(n + 1)
  BY <1>2, <1>3, SeqAfterFact
<1>5. SeqAfter(n + 2) # SeqAfter(n + 1)
  <2>1. n + 1 \in Nat /\ (n + 1) + 1 = n + 2
    OBVIOUS
  <2>2. SeqAfter(n + 2) = NextSeq(SeqAfter(n + 1))
    BY <2>1, SeqAfterFact
  <2>3. QED
    BY <1>2, <1>3, <2>1, <2>2
<1>6. k # n /\ k # n + 2
  BY <1>4, <1>5
<1>7. QED
  BY <1>6

\* The place of the next CF, counted by what is left of the message.
LEMMA PlaceFact ==
  ASSUME NEW q \in Nat, NEW l \in Nat \ {0}
  PROVE  CfCount(Upto(q) + l) - CfCount(FFPayload + l) + 1 = q + 1
<1>1. FFPayload \in Nat /\ CFPayload \in Nat \ {0} /\ q * CFPayload \in Nat
  BY FrameParameters
<1>. DEFINE x == l + CFPayload - 1
            d == x \div CFPayload
            r == x % CFPayload
<1>2. x \in Nat /\ (FFPayload + l) - FFPayload + CFPayload - 1 = x
      /\ (Upto(q) + l) - FFPayload + CFPayload - 1 = q * CFPayload + x
  BY <1>1 DEF Upto
<1>3. d \in Nat /\ r \in 0 .. CFPayload - 1 /\ x = d * CFPayload + r
  <2>. HIDE DEF x
  <2>. QED BY <1>1, <1>2, SMTT(30)
<1>4. q * CFPayload + x = (q + d) * CFPayload + r
  <2>. HIDE DEF x, d, r
  <2>1. (q + d) * CFPayload = q * CFPayload + d * CFPayload /\ d * CFPayload \in Int
    BY <1>1, <1>3
  <2>. QED BY <1>1, <1>2, <1>3, <2>1
<1>5. (q * CFPayload + x) \div CFPayload = q + d
  <2>. HIDE DEF x, d, r
  <2>1. q + d \in Int /\ q * CFPayload + x \in Int
    BY <1>1, <1>2, <1>3
  <2>. QED BY <1>1, <1>3, <1>4, <2>1, DivisionUnique
<1>6. CfCount(Upto(q) + l) = q + d /\ CfCount(FFPayload + l) = d
  <2>1. CfCount(FFPayload + l) = d
    BY <1>2 DEF CfCount
  <2>. HIDE DEF x, d, r
  <2>2. CfCount(Upto(q) + l) = q + d
    BY <1>2, <1>5 DEF CfCount
  <2>. QED BY <2>1, <2>2
<1>. HIDE DEF x, d, r
<1>7. QED
  BY <1>3, <1>6

\* A part of a message.
LEMMA PartFact ==
  ASSUME NEW m \in Seq(Bytes), NEW a \in 0 .. Len(m), NEW b \in a .. Len(m)
  PROVE  /\ SubSeq(m, a + 1, b) \in Seq(Bytes)
         /\ Len(SubSeq(m, a + 1, b)) = b - a
         /\ \A i \in 1 .. b - a : SubSeq(m, a + 1, b)[i] = m[a + i]
OBVIOUS

\* The first bytes of a part are a part, and so is the rest.
LEMMA PartOfPart ==
  ASSUME NEW m \in Seq(Bytes), NEW a \in 0 .. Len(m), NEW c \in 0 .. Len(m) - a
  PROVE  /\ SubSeq(SubSeq(m, a + 1, Len(m)), 1, c) = SubSeq(m, a + 1, a + c)
         /\ SubSeq(SubSeq(m, a + 1, Len(m)), c + 1, Len(m) - a) = SubSeq(m, (a + c) + 1, Len(m))
<1>. DEFINE s == SubSeq(m, a + 1, Len(m))
<1>1. /\ s \in Seq(Bytes) /\ Len(s) = Len(m) - a
      /\ \A i \in 1 .. Len(m) - a : s[i] = m[a + i]
  BY PartFact
<1>. HIDE DEF s
<1>2. /\ SubSeq(s, 1, c) \in Seq(Bytes) /\ Len(SubSeq(s, 1, c)) = c
      /\ \A i \in 1 .. c : SubSeq(s, 1, c)[i] = s[i]
  BY <1>1
<1>3. /\ SubSeq(m, a + 1, a + c) \in Seq(Bytes) /\ Len(SubSeq(m, a + 1, a + c)) = c
      /\ \A i \in 1 .. c : SubSeq(m, a + 1, a + c)[i] = m[a + i]
  <2>1. a + c \in a .. Len(m) /\ (a + c) - a = c
    OBVIOUS
  <2>. QED BY <2>1, PartFact
<1>4. SubSeq(s, 1, c) = SubSeq(m, a + 1, a + c)
  BY <1>1, <1>2, <1>3
<1>5. /\ SubSeq(s, c + 1, Len(m) - a) \in Seq(Bytes)
      /\ Len(SubSeq(s, c + 1, Len(m) - a)) = Len(m) - a - c
      /\ \A i \in 1 .. Len(m) - a - c : SubSeq(s, c + 1, Len(m) - a)[i] = s[c + i]
  BY <1>1
<1>6. /\ SubSeq(m, (a + c) + 1, Len(m)) \in Seq(Bytes)
      /\ Len(SubSeq(m, (a + c) + 1, Len(m))) = Len(m) - a - c
      /\ \A i \in 1 .. Len(m) - a - c : SubSeq(m, (a + c) + 1, Len(m))[i] = m[(a + c) + i]
  <2>1. a + c \in 0 .. Len(m) /\ Len(m) \in a + c .. Len(m) /\ Len(m) - (a + c) = Len(m) - a - c
    OBVIOUS
  <2>. QED BY <2>1, PartFact
<1>7. SubSeq(s, c + 1, Len(m) - a) = SubSeq(m, (a + c) + 1, Len(m))
  <2>1. ASSUME NEW i \in 1 .. Len(m) - a - c
        PROVE  SubSeq(s, c + 1, Len(m) - a)[i] = SubSeq(m, (a + c) + 1, Len(m))[i]
    <3>1. c + i \in 1 .. Len(m) - a /\ a + (c + i) = (a + c) + i
      OBVIOUS
    <3>. QED BY <1>1, <1>5, <1>6, <3>1
  <2>. DEFINE u == SubSeq(s, c + 1, Len(m) - a)
              v == SubSeq(m, (a + c) + 1, Len(m))
  <2>2. u \in Seq(Bytes) /\ v \in Seq(Bytes) /\ Len(u) = Len(v)
        /\ \A i \in 1 .. Len(u) : u[i] = v[i]
    BY <1>5, <1>6, <2>1
  <2>. HIDE DEF u, v
  <2>3. u = v
    BY <2>2
  <2>. QED BY <2>3 DEF u, v
<1>. QED BY <1>4, <1>7 DEF s

\* Two modules cut frames alike.
LEMMA SameFrames ==
  /\ \A s, n : Tx!Taken(s, n) = Taken(s, n) /\ Tx!Left(s, n) = Left(s, n)
  /\ \A s : Tx!NextSeq(s) = NextSeq(s)
  /\ \A m : Tx!SFrame(m) = SFrame(m) /\ Tx!FFrame(m) = FFrame(m)
  /\ \A q, s : Tx!CFrame(q, s) = CFrame(q, s)
BY DEF Tx!Taken, Taken, Tx!Left, Left, Tx!Least, Least, Tx!NextSeq, NextSeq, Tx!SFrame, SFrame,
       Tx!FFrame, FFrame, Tx!CFrame, CFrame, Tx!Padded, Padded

\* What may be sent.
LEMMA SendableFact ==
  ASSUME NEW m \in Sendable
  PROVE  m \in Seq(Bytes) /\ m \in Messages /\ Len(m) \in Nat /\ Len(m) > 0
BY LinkParameters, FrameParameters DEF Sendable

\* The frames of a message are frames, and which kind they are.
LEMMA FrameFact ==
  ASSUME NEW m \in Sendable, NEW k \in Nat, k > 0 => Multi(m) /\ Upto(k - 1) < Len(m)
  PROVE  /\ FrameOf(m, k) \in SFrames \cup FFrames \cup CFrames
         /\ k > 0 => FrameOf(m, k).pci = "CF"
         /\ k = 0 /\ Multi(m) => FrameOf(m, k).pci = "FF"
         /\ k = 0 /\ ~Multi(m) => FrameOf(m, k).pci = "SF"
<1>1. m \in Seq(Bytes) /\ FFPayload \in Nat /\ CFPayload \in Nat
  BY SendableFact, FrameParameters
<1>2. CASE k > 0
  <2>1. Upto(k - 1) \in Nat
    <3>1. k - 1 \in Nat
      BY <1>2
    <3>. QED BY <3>1, UptoFact
  <2>2. Piece(m, k) \in Seq(Bytes)
    <3>1. SubSeq(m, Upto(k - 1) + 1, Len(m)) \in Seq(Bytes)
      <4>1. Upto(k - 1) \in 0 .. Len(m) /\ Len(m) \in Upto(k - 1) .. Len(m)
        BY <1>1, <1>2, <2>1
      <4>. QED BY <1>1, <4>1, PartFact
    <3>. QED BY <1>1, <3>1, TakenFact DEF Piece
  <2>3. Padded(Piece(m, k), CFPayload) \in Seq(Bytes)
    <3>1. Pad \in Bytes
      BY FrameParameters
    <3>. QED BY <1>1, <2>2, <3>1 DEF Padded
  <2>4. SeqAfter(k) \in Nat
    BY FrameParameters DEF SeqAfter
  <2>. QED BY <1>2, <2>3, <2>4 DEF FrameOf, CFrame, CFrames
<1>3. CASE k = 0 /\ Multi(m)
  <2>1. Taken(m, FFPayload) \in Seq(Bytes)
    BY <1>1, TakenFact
  <2>. QED BY <1>1, <1>3, <2>1 DEF FrameOf, FFrame, FFrames
<1>4. CASE k = 0 /\ ~Multi(m)
  BY <1>1, <1>4 DEF FrameOf, SFrame, SFrames
<1>. QED BY <1>2, <1>3, <1>4

\* What is on the bus was sent, and is a frame of its message.
LEMMA OnBus ==
  ASSUME BusInv, NEW j \in 1 .. Len(bus)
  PROVE  /\ bus[j].msg \in Nat /\ bus[j].k \in Nat /\ sent[bus[j].msg] \in Sendable
         /\ bus[j].msg \in 1 .. Len(sent) /\ bus[j].frame = FrameOf(sent[bus[j].msg], bus[j].k)
         /\ bus[j].k > 0 <=> bus[j].frame.pci = "CF"
         /\ bus[j].k = 0 /\ Multi(sent[bus[j].msg]) <=> bus[j].frame.pci = "FF"
         /\ IsSingle(bus[j]) <=> bus[j].frame.pci = "SF"
<1>1. bus[j] \in Entries /\ IsCut(bus[j]) /\ sent \in Seq(Sendable)
  BY DEF BusInv
<1>2. bus[j].msg \in Nat /\ bus[j].k \in Nat
  BY <1>1 DEF Entries
<1>3. bus[j].msg \in 1 .. Len(sent) /\ sent[bus[j].msg] \in Sendable
      /\ bus[j].frame = FrameOf(sent[bus[j].msg], bus[j].k)
      /\ (bus[j].k > 0 => Multi(sent[bus[j].msg]) /\ Upto(bus[j].k - 1) < Len(sent[bus[j].msg]))
  BY <1>1 DEF IsCut
<1>. QED BY <1>2, <1>3, FrameFact DEF IsSingle

\* A frame leaves the bus: those behind it move up.
LEMMA TailFact ==
  ASSUME NEW S, NEW s \in Seq(S), s # <<>>
  PROVE  /\ Tail(s) \in Seq(S) /\ Len(s) \in Nat /\ Len(s) >= 1 /\ Len(Tail(s)) = Len(s) - 1
         /\ \A j \in 1 .. Len(s) - 1 : j + 1 \in 1 .. Len(s) /\ Tail(s)[j] = s[j + 1]
         /\ Head(s) = s[1]
OBVIOUS

\* The bus after the frame at its head is lost, or received.  A First Frame is
\* never lost.
LEMMA PopBus ==
  ASSUME BusInv, bus # <<>>, bus' = Tail(bus), UNCHANGED <<sent, link>>,
         rx_msg' \in {rx_msg, Head(bus).msg},
         Head(bus).frame.pci = "FF" => rx_msg' = Head(bus).msg
  PROVE  BusInv'
<1>1. bus \in Seq(Entries) /\ sent \in Seq(Sendable) /\ link \in Links
  BY DEF BusInv
<1>2. /\ Len(bus) \in Nat /\ Len(bus) >= 1 /\ Head(bus) = bus[1] /\ Len(bus') = Len(bus) - 1
      /\ bus' \in Seq(Entries)
      /\ \A j \in 1 .. Len(bus') : j + 1 \in 1 .. Len(bus) /\ bus'[j] = bus[j + 1]
  BY <1>1, TailFact
<1>3. \A j \in 1 .. Len(bus') : IsCut(bus[j])'
  BY <1>2 DEF BusInv, IsCut
<1>4. \A j \in 1 .. Len(bus') : IsSingle(bus[j])' <=> IsSingle(bus[j + 1])
  BY <1>2 DEF IsSingle
<1>5. \A i, j \in 1 .. Len(bus') :
        i < j => NotAfter(bus[i], bus[j])' /\ (IsSingle(bus[i])' => bus'[i].msg # bus'[j].msg)
  BY <1>2, <1>4 DEF BusInv, NotAfter
<1>6. rx_msg <= rx_msg' /\ rx_msg \in 0 .. Len(sent) /\ rx_msg' \in 0 .. Len(sent)
  <2>1. 1 \in 1 .. Len(bus)
    BY <1>2
  <2>2. bus[1].msg \in 1 .. Len(sent) /\ rx_msg <= bus[1].msg /\ rx_msg \in 0 .. Len(sent)
    BY <2>1, OnBus DEF BusInv
  <2>. QED BY <1>2, <2>2
<1>7. \A j \in 1 .. Len(bus') :
        rx_msg' <= bus'[j].msg /\ (IsSingle(bus[j])' => rx_msg' < bus'[j].msg)
  <2> SUFFICES ASSUME NEW j \in 1 .. Len(bus')
               PROVE  rx_msg' <= bus'[j].msg /\ (IsSingle(bus[j])' => rx_msg' < bus'[j].msg)
    OBVIOUS
  <2>1. j + 1 \in 1 .. Len(bus) /\ bus'[j] = bus[j + 1] /\ 1 \in 1 .. Len(bus) /\ 1 < j + 1
    BY <1>2
  <2>2. IsSingle(bus[j])' <=> IsSingle(bus[j + 1])
    BY <1>4
  <2>3. CASE rx_msg' = rx_msg
    BY <2>1, <2>2, <2>3 DEF BusInv
  <2>4. CASE rx_msg' = bus[1].msg
    <3>1. NotAfter(bus[1], bus[j + 1]) /\ (IsSingle(bus[1]) => bus[1].msg # bus[j + 1].msg)
      BY <2>1 DEF BusInv
    <3>2. /\ bus[1].msg \in Nat /\ bus[1].k \in Nat /\ bus[j + 1].msg \in Nat
          /\ bus[j + 1].k \in Nat
      BY <2>1, OnBus
    <3>3. bus[1].msg = bus[j + 1].msg /\ IsSingle(bus[j + 1]) => IsSingle(bus[1])
      BY <3>1, <3>2 DEF NotAfter, IsSingle
    <3>. QED BY <2>1, <2>2, <2>4, <3>1, <3>2, <3>3 DEF NotAfter
  <2>. QED BY <1>2, <2>3, <2>4
<1>8. ASSUME NEW x \in rx_msg' + 1 .. Len(sent), Multi(sent[x])
      PROVE  \E j \in 1 .. Len(bus') : bus'[j].msg = x /\ bus'[j].k = 0
  <2>1. x \in rx_msg + 1 .. Len(sent) /\ rx_msg' # x
    <3>. DEFINE r == rx_msg
               s == rx_msg'
               l == Len(sent)
    <3>1. l \in Nat /\ r \in Int /\ s \in Int /\ r <= s
      BY <1>1, <1>6
    <3>2. x \in s + 1 .. l
      OBVIOUS
    <3>. HIDE DEF r, s, l
    <3>3. x \in r + 1 .. l /\ s # x
      BY <3>1, <3>2
    <3>. QED BY <3>3 DEF r, s, l
  <2>2. PICK j \in 1 .. Len(bus) : bus[j].msg = x /\ bus[j].k = 0
    BY <1>8, <2>1 DEF BusInv
  <2>3. j # 1
    <3>1. bus[j].frame.pci = "FF"
      BY <1>8, <2>2, OnBus
    <3>. QED BY <1>2, <2>1, <2>2, <3>1
  <2>4. j - 1 \in 1 .. Len(bus') /\ bus'[j - 1] = bus[j]
    <3>1. j - 1 \in 1 .. Len(bus') /\ (j - 1) + 1 = j
      BY <1>2, <2>3
    <3>. QED BY <1>2, <3>1
  <2>. QED BY <2>2, <2>4
<1>9. sent' = sent /\ link' = link
  OBVIOUS
<1>. QED BY <1>1, <1>2, <1>3, <1>5, <1>6, <1>7, <1>8, <1>9 DEF BusInv

\* A frame joins the bus behind those sent before it.
LEMMA PushBus ==
  ASSUME BusInv, NEW e \in Entries, bus' = Append(bus, e), UNCHANGED <<link, rx_msg>>,
         sent' \in Seq(Sendable), Len(sent') >= Len(sent),
         \A x \in 1 .. Len(sent) : sent'[x] = sent[x],
         \A x \in Len(sent) + 1 .. Len(sent') : x = e.msg /\ e.k = 0,
         e.msg \in 1 .. Len(sent'), e.frame = FrameOf(sent'[e.msg], e.k),
         e.k > 0 => Multi(sent'[e.msg]) /\ Upto(e.k - 1) < Len(sent'[e.msg]),
         \A j \in 1 .. Len(bus) :
           NotAfter(bus[j], e) /\ (IsSingle(bus[j]) => bus[j].msg # e.msg),
         rx_msg <= e.msg, e.k = 0 => rx_msg < e.msg
  PROVE  BusInv'
<1>1. bus \in Seq(Entries) /\ sent \in Seq(Sendable) /\ link' \in Links
  BY DEF BusInv
<1>2. /\ Len(bus) \in Nat /\ Len(bus') = Len(bus) + 1 /\ bus' \in Seq(Entries)
      /\ bus'[Len(bus) + 1] = e
      /\ \A j \in 1 .. Len(bus) : j \in 1 .. Len(bus') /\ bus'[j] = bus[j]
  BY <1>1
<1>3. /\ Len(sent) \in Nat /\ Len(sent') \in Nat /\ rx_msg \in 0 .. Len(sent)
      /\ \A j \in 1 .. Len(bus) : bus[j].msg \in 1 .. Len(sent)
                                  /\ sent'[bus[j].msg] = sent[bus[j].msg]
  <2>1. \A j \in 1 .. Len(bus) : bus[j].msg \in 1 .. Len(sent)
    BY OnBus
  <2>2. Len(sent) \in Nat /\ Len(sent') \in Nat /\ rx_msg \in 0 .. Len(sent)
    BY <1>1 DEF BusInv
  <2>. QED BY <2>1, <2>2
<1>4. \A j \in 1 .. Len(bus) : IsSingle(bus[j])' <=> IsSingle(bus[j])
  BY <1>2, <1>3 DEF IsSingle
<1>5. \A j \in 1 .. Len(bus') : j \in 1 .. Len(bus) \/ j = Len(bus) + 1
  BY <1>2
<1>6. \A j \in 1 .. Len(bus') : IsCut(bus[j])'
  <2>1. ASSUME NEW j \in 1 .. Len(bus) PROVE IsCut(bus[j])'
    <3>1. IsCut(bus[j]) /\ bus'[j] = bus[j] /\ bus[j].msg \in 1 .. Len(sent')
      BY <1>2, <1>3 DEF BusInv
    <3>. QED BY <1>3, <3>1 DEF IsCut
  <2>2. ASSUME NEW j, j = Len(bus) + 1 PROVE IsCut(bus[j])'
    BY <1>2, <2>2 DEF IsCut
  <2>. QED BY <1>5, <2>1, <2>2
<1>7. \A i, j \in 1 .. Len(bus') :
        i < j => NotAfter(bus[i], bus[j])' /\ (IsSingle(bus[i])' => bus'[i].msg # bus'[j].msg)
  <2> SUFFICES ASSUME NEW i \in 1 .. Len(bus'), NEW j \in 1 .. Len(bus'), i < j
               PROVE  NotAfter(bus[i], bus[j])'
                      /\ (IsSingle(bus[i])' => bus'[i].msg # bus'[j].msg)
    OBVIOUS
  <2>1. i \in 1 .. Len(bus) /\ bus'[i] = bus[i] /\ (IsSingle(bus[i])' <=> IsSingle(bus[i]))
    BY <1>2, <1>4, <1>5
  <2>2. CASE j \in 1 .. Len(bus)
    <3>1. NotAfter(bus[i], bus[j]) /\ (IsSingle(bus[i]) => bus[i].msg # bus[j].msg)
          /\ bus'[j] = bus[j]
      BY <1>2, <2>1, <2>2 DEF BusInv
    <3>. QED BY <2>1, <3>1 DEF NotAfter
  <2>3. CASE j = Len(bus) + 1
    <3>1. bus'[j] = e
      BY <1>2, <2>3
    <3>. QED BY <2>1, <3>1 DEF NotAfter
  <2>. QED BY <1>5, <2>2, <2>3
<1>8. \A j \in 1 .. Len(bus') :
        rx_msg' <= bus'[j].msg /\ (IsSingle(bus[j])' => rx_msg' < bus'[j].msg)
  <2>1. ASSUME NEW j \in 1 .. Len(bus)
        PROVE  rx_msg' <= bus'[j].msg /\ (IsSingle(bus[j])' => rx_msg' < bus'[j].msg)
    <3>1. rx_msg <= bus[j].msg /\ (IsSingle(bus[j]) => rx_msg < bus[j].msg)
      BY DEF BusInv
    <3>. QED BY <1>2, <1>4, <3>1
  <2>2. ASSUME NEW j, j = Len(bus) + 1
        PROVE  rx_msg' <= bus'[j].msg /\ (IsSingle(bus[j])' => rx_msg' < bus'[j].msg)
    BY <1>2, <2>2 DEF IsSingle
  <2>. QED BY <1>5, <2>1, <2>2
<1>9. ASSUME NEW x \in rx_msg' + 1 .. Len(sent'), Multi(sent'[x])
      PROVE  \E j \in 1 .. Len(bus') : bus'[j].msg = x /\ bus'[j].k = 0
  <2>1. x \in rx_msg + 1 .. Len(sent')
    OBVIOUS
  <2>2. CASE x \in rx_msg + 1 .. Len(sent)
    <3>1. Multi(sent[x])
      BY <1>3, <1>9, <2>2
    <3>2. PICK j \in 1 .. Len(bus) : bus[j].msg = x /\ bus[j].k = 0
      BY <2>2, <3>1 DEF BusInv
    <3>. QED BY <1>2, <3>2
  <2>3. CASE x \in Len(sent) + 1 .. Len(sent')
    <3>1. Len(bus) + 1 \in 1 .. Len(bus')
      BY <1>2
    <3>. QED BY <1>2, <2>3, <3>1
  <2>. QED BY <1>3, <2>1, <2>2, <2>3
<1>10. rx_msg' \in 0 .. Len(sent')
  BY <1>3
<1>. QED BY <1>1, <1>2, <1>6, <1>7, <1>8, <1>9, <1>10 DEF BusInv

\* The frame at the head of the bus is repeated; it is not a Single Frame.
LEMMA RepeatBus ==
  ASSUME BusInv, bus # <<>>, bus' = <<Head(bus)>> \o bus, UNCHANGED <<sent, link, rx_msg>>,
         Head(bus).frame.pci # "SF"
  PROVE  /\ BusInv'
         /\ \A j \in 1 .. Len(bus') : \E i \in 1 .. Len(bus) : bus'[j] = bus[i]
<1>. DEFINE from(j) == IF j = 1 THEN 1 ELSE j - 1
<1>1. bus \in Seq(Entries) /\ sent \in Seq(Sendable) /\ link' \in Links
  BY DEF BusInv
<1>2. /\ Len(bus) \in Nat /\ Len(bus) >= 1 /\ Len(bus') = Len(bus) + 1 /\ bus' \in Seq(Entries)
      /\ \A j \in 1 .. Len(bus') : bus'[j] = bus[from(j)]
      /\ \A j \in 1 .. Len(bus') : from(j) \in 1 .. Len(bus)
      /\ \A j \in 1 .. Len(bus) : j + 1 \in 1 .. Len(bus') /\ from(j + 1) = j
  BY <1>1
<1>3. \A i, j \in 1 .. Len(bus') : i < j => from(i) < from(j) \/ (from(i) = 1 /\ from(j) = 1)
  BY <1>2
<1>. HIDE DEF from
<1>4. ~IsSingle(bus[1])
  <2>1. Head(bus) = bus[1] /\ 1 \in 1 .. Len(bus)
    BY <1>1, <1>2
  <2>. QED BY <2>1, OnBus
<1>5. \A j \in 1 .. Len(bus') : (IsSingle(bus[j])' <=> IsSingle(bus[from(j)])) /\ IsCut(bus[j])'
  <2> SUFFICES ASSUME NEW j \in 1 .. Len(bus')
               PROVE  (IsSingle(bus[j])' <=> IsSingle(bus[from(j)])) /\ IsCut(bus[j])'
    OBVIOUS
  <2>1. bus'[j] = bus[from(j)] /\ IsCut(bus[from(j)])
    BY <1>2 DEF BusInv
  <2>. QED BY <2>1 DEF IsSingle, IsCut
<1>6. \A i, j \in 1 .. Len(bus') :
        i < j => NotAfter(bus[i], bus[j])' /\ (IsSingle(bus[i])' => bus'[i].msg # bus'[j].msg)
  <2> SUFFICES ASSUME NEW i \in 1 .. Len(bus'), NEW j \in 1 .. Len(bus'), i < j
               PROVE  NotAfter(bus[i], bus[j])'
                      /\ (IsSingle(bus[i])' => bus'[i].msg # bus'[j].msg)
    OBVIOUS
  <2>1. bus'[i] = bus[from(i)] /\ bus'[j] = bus[from(j)] /\ from(i) \in 1 .. Len(bus)
        /\ from(j) \in 1 .. Len(bus) /\ (IsSingle(bus[i])' <=> IsSingle(bus[from(i)]))
    BY <1>2, <1>5
  <2>2. CASE from(i) < from(j)
    <3>1. NotAfter(bus[from(i)], bus[from(j)])
          /\ (IsSingle(bus[from(i)]) => bus[from(i)].msg # bus[from(j)].msg)
      BY <2>1, <2>2 DEF BusInv
    <3>. QED BY <2>1, <3>1 DEF NotAfter
  <2>3. CASE from(i) = 1 /\ from(j) = 1
    <3>1. bus[1].msg \in Nat /\ bus[1].k \in Nat
      BY <1>2, OnBus
    <3>. QED BY <1>4, <2>1, <2>3, <3>1 DEF NotAfter
  <2>. QED BY <1>3, <2>2, <2>3
<1>7. \A j \in 1 .. Len(bus') :
        rx_msg' <= bus'[j].msg /\ (IsSingle(bus[j])' => rx_msg' < bus'[j].msg)
  BY <1>2, <1>5 DEF BusInv
<1>8. ASSUME NEW x \in rx_msg' + 1 .. Len(sent'), Multi(sent'[x])
      PROVE  \E j \in 1 .. Len(bus') : bus'[j].msg = x /\ bus'[j].k = 0
  <2>1. PICK j \in 1 .. Len(bus) : bus[j].msg = x /\ bus[j].k = 0
    BY <1>8 DEF BusInv
  <2>. QED BY <1>2, <2>1
<1>9. sent' \in Seq(Sendable) /\ rx_msg' \in 0 .. Len(sent')
  BY DEF BusInv
<1>10. \A j \in 1 .. Len(bus') : \E i \in 1 .. Len(bus) : bus'[j] = bus[i]
  BY <1>2
<1>11. BusInv'
  BY <1>1, <1>2, <1>5, <1>6, <1>7, <1>8, <1>9 DEF BusInv
<1>. QED BY <1>10, <1>11

-----------------------------------------------------------------------------
(* The invariant, action by action. *)

streamPart == <<tx_stream_active, tx_msg, tx_stream_data, tx_seq_num>>
rxPart     == <<rx_state, rx_buffer, rx_expected_len, rx_seq_num>>

\* What the message of the reassembly is, a step that only sends does not change.
LEMMA ReassemblyStays ==
  ASSUME NEW n \in Nat, NEW p \in Nat, BusInv, ReceiverInv(n, p), UNCHANGED rxPart,
         UNCHANGED <<rx_msg, last>>, \A x \in 1 .. Len(sent) : sent'[x] = sent[x]
  PROVE  ReassemblyInv(n, p)'
<1>1. rx_msg \in 0 .. Len(sent) /\ last \in 0 .. rx_msg /\ sent \in Seq(Sendable)
  BY DEF BusInv, ReceiverInv
<1>2. rx_state' = rx_state /\ rx_buffer' = rx_buffer /\ rx_expected_len' = rx_expected_len
      /\ rx_seq_num' = rx_seq_num /\ rx_msg' = rx_msg /\ last' = last
  BY DEF rxPart
<1>3. rx_state = "CF" => rx_msg \in 1 .. Len(sent)
  BY <1>1 DEF ReceiverInv, ReassemblyInv
<1>4. rx_state = "CF" => sent'[rx_msg] = sent[rx_msg]
  BY <1>3
<1>. QED BY <1>2, <1>4 DEF ReceiverInv, ReassemblyInv, Multi

\* Nothing is sent yet, and nothing is on the bus.
LEMMA InvInit == Init => LinkInv(0, 0, 0)
<1> SUFFICES ASSUME Init PROVE LinkInv(0, 0, 0)
  OBVIOUS
<1>1. BusInv
  BY DEF Init, BusInv
<1>2. SenderInv(0, 0)
  BY DEF Init, SenderInv, Tx!TxInit
<1>3. ReceiverInv(0, 0)
  BY DEF Init, ReceiverInv, ReassemblyInv, RxInit
<1>. QED BY <1>1, <1>2, <1>3 DEF LinkInv

\* Steps that change none of what the invariant is about.
LEMMA InvUnchanged ==
  ASSUME NEW n \in Nat, NEW p \in Nat, NEW q \in Nat, LinkInv(n, p, q),
         UNCHANGED streamPart, UNCHANGED rxPart, UNCHANGED <<bus, sent, link, rx_msg, last>>
  PROVE  LinkInv(n, p, q)'
<1>1. BusInv'
  BY DEF LinkInv, BusInv, IsCut, IsSingle, NotAfter
<1>2. SenderInv(p, q)'
  BY DEF LinkInv, SenderInv, streamPart
<1>3. ReceiverInv(n, p)'
  BY DEF LinkInv, ReceiverInv, ReassemblyInv, rxPart
<1>. QED BY <1>1, <1>2, <1>3 DEF LinkInv

\* A stream given up.
LEMMA InvGiveUp ==
  ASSUME NEW n \in Nat, NEW p \in Nat, NEW q \in Nat, LinkInv(n, p, q), ~tx_stream_active',
         UNCHANGED rxPart, UNCHANGED <<bus, sent, link, rx_msg, last>>
  PROVE  LinkInv(n, p, q)'
<1>1. BusInv'
  BY DEF LinkInv, BusInv, IsCut, IsSingle, NotAfter
<1>2. SenderInv(p, q)'
  BY DEF SenderInv
<1>3. ReceiverInv(n, p)'
  BY DEF LinkInv, ReceiverInv, ReassemblyInv, rxPart
<1>. QED BY <1>1, <1>2, <1>3 DEF LinkInv

\* A message joins those sent; its SF or FF is on the bus, and its CFs are still to cut.
LEMMA InvSendMessage ==
  ASSUME NEW n \in Nat, NEW p \in Nat, NEW q \in Nat, LinkInv(n, p, q),
         NEW m \in Messages, SendMessage(m)
  PROVE  LinkInv(n, p, 0)'
<1>. DEFINE e == [frame |-> Tx!FirstFrame(m), msg |-> Len(sent) + 1, k |-> 0]
<1>1. m \in Sendable /\ m \in Seq(Bytes) /\ Len(m) \in Nat
  <2>1. Len(m) \in 1 .. FFMax
    BY FrameParameters, LinkParameters
    DEF SendMessage, Tx!BeginStream, Tx!BeginSingle, Tx!BeginMulti
  <2>. QED BY <2>1, SendableFact DEF Sendable
<1>2. /\ bus' = Append(bus, e) /\ sent' = Append(sent, m) /\ UNCHANGED rxPart
      /\ UNCHANGED <<link, rx_msg, last>>
  BY DEF SendMessage, rxVars, rxPart, peerVars
<1>3. BusInv /\ sent \in Seq(Sendable) /\ bus \in Seq(Entries) /\ rx_msg \in 0 .. Len(sent)
  BY DEF LinkInv, BusInv
<1>4. /\ Len(sent) \in Nat /\ sent' \in Seq(Sendable) /\ Len(sent') = Len(sent) + 1
      /\ sent'[Len(sent) + 1] = m /\ \A x \in 1 .. Len(sent) : sent'[x] = sent[x]
  BY <1>1, <1>2, <1>3
<1>5. e.msg = Len(sent) + 1 /\ e.k = 0 /\ e.frame = FrameOf(m, 0)
  <2>1. Tx!FirstFrame(m) = FrameOf(m, 0)
    BY <1>1, SameFrames, FrameParameters DEF Tx!FirstFrame, FrameOf, Multi
  <2>. QED BY <2>1
<1>6. e \in Entries
  <2>1. FrameOf(m, 0) \in SFrames \cup FFrames \cup CFrames
    BY <1>1, FrameFact
  <2>. QED BY <1>4, <1>5, <2>1 DEF Entries
<1>. HIDE DEF e
<1>7. \A j \in 1 .. Len(bus) : bus[j].msg \in 1 .. Len(sent) /\ bus[j].msg < Len(sent) + 1
                                /\ bus[j].msg # Len(sent) + 1
  BY <1>3, <1>4, OnBus
<1>8. BusInv'
  <2>1. \A j \in 1 .. Len(bus) :
          NotAfter(bus[j], e) /\ (IsSingle(bus[j]) => bus[j].msg # e.msg)
    BY <1>5, <1>7 DEF NotAfter
  <2>2. \A x \in Len(sent) + 1 .. Len(sent') : x = e.msg /\ e.k = 0
    BY <1>4, <1>5
  <2>3. /\ e.msg \in 1 .. Len(sent') /\ e.frame = FrameOf(sent'[e.msg], e.k)
        /\ rx_msg <= e.msg /\ rx_msg < e.msg /\ ~(e.k > 0)
    BY <1>3, <1>4, <1>5
  <2>4. Len(sent') >= Len(sent)
    BY <1>4
  <2>. QED BY <1>2, <1>3, <1>4, <1>6, <2>1, <2>2, <2>3, <2>4, PushBus
<1>9. \A j \in 1 .. Len(bus') : bus'[j] = e \/ (j \in 1 .. Len(bus) /\ bus'[j] = bus[j])
  BY <1>2, <1>3, <1>6
<1>10. SenderInv(p, 0)'
  <2>1. CASE Tx!BeginSingle(m)
    BY <2>1 DEF Tx!BeginSingle, SenderInv
  <2>2. CASE Tx!BeginMulti(m)
    <3>1. /\ Len(m) \in SFMax + 1 .. FFMax /\ tx_seq_num' = 0 /\ tx_msg' = m
          /\ tx_stream_data' = Left(m, FFPayload)
      BY <2>2, SameFrames DEF Tx!BeginMulti
    <3>2. FFPayload < Len(m) /\ Len(m) > SFMax /\ FFPayload \in Nat
      BY <1>1, <3>1, FrameParameters
    <3>3. Left(m, FFPayload) = SubSeq(m, Upto(0) + 1, Len(m))
      <4>1. Least(FFPayload, Len(m)) = FFPayload
        BY <1>1, <3>2 DEF Least
      <4>. QED BY <4>1, UptoFact DEF Left
    <3>4. \A j \in 1 .. Len(bus') : bus'[j].msg = Len(sent') => bus'[j].k <= 0
      BY <1>4, <1>5, <1>7, <1>9
    <3>5. sent' # <<>> /\ tx_msg' = sent'[Len(sent')] /\ rx_msg' # Len(sent')
      <4>1. Len(sent') # 0 /\ rx_msg' # Len(sent')
        BY <1>2, <1>3, <1>4
      <4>2. sent' # <<>>
        BY <1>4, <4>1
      <4>. QED BY <1>4, <3>1, <4>1, <4>2
    <3>6. SeqAfter(0) = 0
      BY DEF SeqAfter
    <3>7. Multi(tx_msg)' /\ Upto(0) < Len(tx_msg')
      BY <3>1, <3>2, UptoFact DEF Multi
    <3>. QED BY <3>1, <3>3, <3>4, <3>5, <3>6, <3>7 DEF SenderInv
  <2>. QED BY <2>1, <2>2 DEF SendMessage, Tx!BeginStream
<1>11. ReceiverInv(n, p)'
  <2>1. ReassemblyInv(n, p)'
    BY <1>2, <1>3, <1>4, ReassemblyStays DEF LinkInv
  <2>2. \A j \in 1 .. Len(bus') : bus'[j].msg = rx_msg' => bus'[j].k >= p
    BY <1>2, <1>3, <1>4, <1>5, <1>9 DEF LinkInv, ReceiverInv
  <2>. QED BY <1>2, <2>1, <2>2 DEF LinkInv, ReceiverInv
<1>. QED BY <1>8, <1>10, <1>11 DEF LinkInv

\* The sender cuts the next CF: the place in the message it is counted for is the
\* one after the last, and what is left is what the next CFs carry.
LEMMA InvSendCf ==
  ASSUME NEW n \in Nat, NEW p \in Nat, NEW q \in Nat, LinkInv(n, p, q), SendCf
  PROVE  LinkInv(n, p, q + 1)'
<1>. DEFINE e == [frame |-> Tx!CfFrame, msg |-> Len(sent), k |-> NextK]
            m == tx_msg
            s == tx_stream_data
<1>1. /\ tx_stream_active /\ BusInv /\ sent \in Seq(Sendable) /\ bus \in Seq(Entries)
      /\ Len(sent) \in Nat /\ rx_msg \in 0 .. Len(sent)
  BY DEF SendCf, Tx!HasMore, LinkInv, BusInv
<1>2. /\ Len(sent) \in 1 .. Len(sent) /\ m = sent[Len(sent)] /\ m \in Sendable
      /\ m \in Seq(Bytes) /\ Multi(m)
      /\ Upto(q) \in 0 .. Len(m) /\ Upto(q) < Len(m) /\ s = SubSeq(m, Upto(q) + 1, Len(m))
      /\ tx_seq_num = SeqAfter(q)
  <2>1. sent # <<>> /\ m = sent[Len(sent)] /\ Multi(m)
        /\ Upto(q) < Len(m) /\ s = SubSeq(m, Upto(q) + 1, Len(m)) /\ tx_seq_num = SeqAfter(q)
    BY <1>1 DEF LinkInv, SenderInv
  <2>2. Len(sent) \in 1 .. Len(sent)
    BY <1>1, <2>1
  <2>3. m \in Sendable
    BY <1>1, <2>1, <2>2
  <2>4. m \in Seq(Bytes)
    BY <2>3, SendableFact
  <2>5. Upto(q) \in 0 .. Len(m)
    <3>1. Upto(q) \in Nat /\ Len(m) \in Nat
      BY <2>4, UptoFact
    <3>. QED BY <2>1, <3>1
  <2>. QED BY <2>1, <2>2, <2>3, <2>4, <2>5
<1>3. s \in Seq(Bytes) /\ Len(s) = Len(m) - Upto(q) /\ Len(s) \in Nat \ {0}
  BY <1>2, PartFact
<1>4. NextK = q + 1
  <2>1. Len(m) = Upto(q) + Len(s)
    BY <1>2, <1>3
  <2>. QED BY <1>3, <2>1, PlaceFact DEF NextK
<1>5. Tx!CfFrame = FrameOf(m, q + 1)
  <2>1. Tx!CfFrame = CFrame(SeqAfter(q + 1), Taken(s, CFPayload))
    BY <1>2, SameFrames, SeqAfterFact DEF Tx!CfFrame, Tx!CfPayload
  <2>2. Taken(s, CFPayload) = Piece(m, q + 1)
    BY <1>2, UptoFact DEF Piece
  <2>. QED BY <2>1, <2>2 DEF FrameOf
<1>6. e.msg = Len(sent) /\ e.k = q + 1 /\ e.frame = FrameOf(m, q + 1)
  BY <1>4, <1>5
<1>7. e \in Entries
  <2>1. FrameOf(m, q + 1) \in SFrames \cup FFrames \cup CFrames
    <3>1. q + 1 \in Nat /\ Upto((q + 1) - 1) < Len(m)
      BY <1>2, UptoFact
    <3>. QED BY <1>2, <3>1, FrameFact
  <2>. QED BY <1>1, <1>6, <2>1 DEF Entries
<1>8. /\ bus' = Append(bus, e) /\ sent' = sent /\ UNCHANGED rxPart
      /\ UNCHANGED <<link, rx_msg, last>> /\ tx_msg' = m
      /\ tx_seq_num' = SeqAfter(q + 1) /\ tx_stream_data' = Left(s, CFPayload)
      /\ (tx_stream_active' <=> Left(s, CFPayload) # <<>>)
  BY <1>2, SameFrames, SeqAfterFact
  DEF SendCf, Tx!NextCfEmit, Tx!StreamEnd, rxVars, rxPart, peerVars
<1>. HIDE DEF e, m, s
<1>9. \A j \in 1 .. Len(bus') : bus'[j] = e \/ (j \in 1 .. Len(bus) /\ bus'[j] = bus[j])
  BY <1>1, <1>7, <1>8
<1>10. BusInv'
  <2>1. ASSUME NEW j \in 1 .. Len(bus)
        PROVE  NotAfter(bus[j], e) /\ (IsSingle(bus[j]) => bus[j].msg # e.msg)
    <3>1. bus[j].msg \in 1 .. Len(sent) /\ bus[j].k \in Nat
      BY <1>1, OnBus
    <3>2. bus[j].msg = Len(sent) => bus[j].k <= q
      BY <1>1 DEF LinkInv, SenderInv
    <3>3. NotAfter(bus[j], e)
      BY <1>1, <1>6, <3>1, <3>2 DEF NotAfter
    <3>4. IsSingle(bus[j]) => bus[j].msg # Len(sent)
      BY <1>2 DEF IsSingle
    <3>. QED BY <1>6, <3>3, <3>4
  <2>2. e.k > 0 => Multi(sent'[e.msg]) /\ Upto(e.k - 1) < Len(sent'[e.msg])
    BY <1>2, <1>6, <1>8, UptoFact
  <2>3. /\ e.msg \in 1 .. Len(sent') /\ e.frame = FrameOf(sent'[e.msg], e.k)
        /\ rx_msg <= e.msg /\ e.k # 0
    BY <1>1, <1>2, <1>6, <1>8
  <2>4. Len(sent') >= Len(sent) /\ sent' \in Seq(Sendable)
        /\ \A x \in 1 .. Len(sent) : sent'[x] = sent[x]
    BY <1>1, <1>8
  <2>5. \A x \in Len(sent) + 1 .. Len(sent') : FALSE
    BY <1>1, <1>8
  <2>. QED BY <1>1, <1>7, <1>8, <2>1, <2>2, <2>3, <2>4, <2>5, PushBus
<1>11. SenderInv(p, q + 1)'
  <2>1. CASE Left(s, CFPayload) = <<>>
    BY <1>8, <2>1 DEF SenderInv
  <2>2. CASE Left(s, CFPayload) # <<>>
    <3>. CFPayload \in Nat
      BY FrameParameters
    <3>1. CFPayload < Len(s)
      <4> SUFFICES ASSUME ~(CFPayload < Len(s)) PROVE FALSE
        OBVIOUS
      <4>1. Least(CFPayload, Len(s)) = Len(s)
        BY <1>3 DEF Least
      <4>2. SubSeq(s, Len(s) + 1, Len(s)) = <<>>
        BY <1>3
      <4>. QED BY <2>2, <4>1, <4>2 DEF Left
    <3>2. Left(s, CFPayload) = SubSeq(s, CFPayload + 1, Len(m) - Upto(q))
      <4>1. Least(CFPayload, Len(s)) = CFPayload
        BY <1>3, <3>1 DEF Least
      <4>. QED BY <1>3, <4>1 DEF Left
    <3>3. Upto(q + 1) = Upto(q) + CFPayload /\ Upto(q + 1) < Len(m)
      <4>1. Upto(q + 1) = Upto(q) + CFPayload
        BY UptoFact
      <4>. QED BY <1>2, <1>3, <3>1, <4>1
    <3>4. Left(s, CFPayload) = SubSeq(m, Upto(q + 1) + 1, Len(m))
      <4>1. CFPayload \in 0 .. Len(m) - Upto(q)
        BY <1>2, <1>3, <3>1
      <4>. QED BY <1>2, <3>2, <3>3, <4>1, PartOfPart
    <3>5. \A j \in 1 .. Len(bus') : bus'[j].msg = Len(sent') => bus'[j].k <= q + 1
      <4>1. \A j \in 1 .. Len(bus) : bus[j].msg = Len(sent) => bus[j].k \in Nat /\ bus[j].k <= q
        BY <1>1, OnBus DEF LinkInv, SenderInv
      <4>. QED BY <1>6, <1>8, <1>9, <4>1
    <3>6. rx_msg' = Len(sent') => p <= q + 1
      BY <1>1, <1>8 DEF LinkInv, SenderInv
    <3>7. sent' # <<>> /\ tx_msg' = sent'[Len(sent')] /\ Multi(tx_msg)'
      <4>1. sent # <<>>
        BY <1>1 DEF LinkInv, SenderInv
      <4>. QED BY <1>2, <1>8, <4>1 DEF Multi
    <3>. QED BY <1>8, <3>3, <3>4, <3>5, <3>6, <3>7 DEF SenderInv
  <2>. QED BY <2>1, <2>2
<1>12. ReceiverInv(n, p)'
  <2>1. ReassemblyInv(n, p)'
    BY <1>1, <1>8, ReassemblyStays DEF LinkInv
  <2>2. \A j \in 1 .. Len(bus') : bus'[j].msg = rx_msg' => bus'[j].k >= p
    <3>1. rx_msg = Len(sent) => p <= q + 1
      BY <1>1 DEF LinkInv, SenderInv
    <3>2. \A j \in 1 .. Len(bus) : bus[j].msg = rx_msg => bus[j].k >= p
      BY DEF LinkInv, ReceiverInv
    <3>. QED BY <1>6, <1>8, <1>9, <3>1, <3>2
  <2>. QED BY <1>8, <2>1, <2>2 DEF LinkInv, ReceiverInv
<1>. QED BY <1>10, <1>11, <1>12 DEF LinkInv

\* The frame at the head of the bus, and what is behind it.
LEMMA HeadFact ==
  ASSUME BusInv, bus # <<>>, bus' = Tail(bus)
  PROVE  /\ 1 \in 1 .. Len(bus) /\ Head(bus) = bus[1]
         /\ bus[1].msg \in Nat /\ bus[1].k \in Nat /\ rx_msg \in Nat /\ rx_msg <= bus[1].msg
         /\ \A j \in 1 .. Len(bus') :
              /\ j + 1 \in 1 .. Len(bus) /\ bus'[j] = bus[j + 1]
              /\ bus'[j].msg \in Nat /\ bus'[j].k \in Nat
              /\ bus'[j].msg = bus[1].msg => bus'[j].k >= bus[1].k
<1>1. bus \in Seq(Entries) /\ rx_msg \in 0 .. Len(sent) /\ sent \in Seq(Sendable)
  BY DEF BusInv
<1>2. /\ Len(bus) \in Nat /\ Len(bus) >= 1 /\ Head(bus) = bus[1] /\ Len(bus') = Len(bus) - 1
      /\ \A j \in 1 .. Len(bus') : j + 1 \in 1 .. Len(bus) /\ bus'[j] = bus[j + 1]
  BY <1>1, TailFact
<1>3. 1 \in 1 .. Len(bus) /\ rx_msg \in Nat
  BY <1>1, <1>2
<1>4. bus[1].msg \in Nat /\ bus[1].k \in Nat /\ rx_msg <= bus[1].msg
  <2>1. bus[1].msg \in Nat /\ bus[1].k \in Nat
    BY <1>3, OnBus
  <2>. QED BY <1>3, <2>1 DEF BusInv
<1>5. ASSUME NEW j \in 1 .. Len(bus')
      PROVE  /\ bus'[j].msg \in Nat /\ bus'[j].k \in Nat
             /\ bus'[j].msg = bus[1].msg => bus'[j].k >= bus[1].k
  <2>1. j + 1 \in 1 .. Len(bus) /\ bus'[j] = bus[j + 1] /\ 1 < j + 1
    BY <1>2
  <2>2. bus[j + 1].msg \in Nat /\ bus[j + 1].k \in Nat
    BY <2>1, OnBus
  <2>3. NotAfter(bus[1], bus[j + 1])
    BY <1>3, <2>1 DEF BusInv
  <2>. QED BY <1>4, <2>1, <2>2, <2>3 DEF NotAfter
<1>. QED BY <1>2, <1>3, <1>4, <1>5

\* A frame is lost, or refused.
LEMMA InvDropHead ==
  ASSUME NEW n \in Nat, NEW p \in Nat, NEW q \in Nat, LinkInv(n, p, q),
         bus # <<>>, bus' = Tail(bus), Head(bus).frame.pci # "FF",
         UNCHANGED streamPart, UNCHANGED rxPart, UNCHANGED <<sent, link, rx_msg, last>>
  PROVE  \E r \in Nat : LinkInv(n, r, q)'
<1>1. BusInv
  BY DEF LinkInv
<1>2. PICK r \in Nat : p <= r /\ (bus[1].msg = rx_msg => r = bus[1].k)
                        /\ (bus[1].msg # rx_msg => r = p)
  <2>1. bus[1].msg = rx_msg => bus[1].k >= p
    BY <1>1, HeadFact DEF LinkInv, ReceiverInv
  <2>2. bus[1].k \in Nat
    BY <1>1, HeadFact
  <2>. QED BY <2>1, <2>2
<1>3. BusInv'
  BY <1>1, PopBus
<1>4. SenderInv(r, q)'
  <2> SUFFICES ASSUME tx_stream_active'
               PROVE  /\ \A j \in 1 .. Len(bus') : bus'[j].msg = Len(sent') => bus'[j].k <= q
                      /\ rx_msg' = Len(sent') => r <= q
    <3>1. tx_msg' = tx_msg /\ tx_stream_data' = tx_stream_data /\ tx_seq_num' = tx_seq_num
          /\ tx_stream_active' = tx_stream_active
      BY DEF streamPart
    <3>. QED BY <3>1 DEF LinkInv, SenderInv, Multi
  <2>1. tx_stream_active
    BY DEF streamPart
  <2>2. \A j \in 1 .. Len(bus) : bus[j].msg = Len(sent) => bus[j].k <= q
    BY <2>1 DEF LinkInv, SenderInv
  <2>3. rx_msg = Len(sent) => p <= q
    BY <2>1 DEF LinkInv, SenderInv
  <2>4. \A j \in 1 .. Len(bus') : bus'[j].msg = Len(sent') => bus'[j].k <= q
    BY <1>1, <2>2, HeadFact
  <2>5. rx_msg' = Len(sent') => r <= q
    BY <1>1, <1>2, <2>2, <2>3, HeadFact
  <2>. QED BY <2>4, <2>5
<1>5. ReceiverInv(n, r)'
  <2>1. ReceiverInv(n, p) /\ rx_msg' = rx_msg /\ last' = last
    BY DEF LinkInv
  <2>2. \A j \in 1 .. Len(bus') : bus'[j].msg = rx_msg' => bus'[j].k >= r
    <3> SUFFICES ASSUME NEW j \in 1 .. Len(bus'), bus'[j].msg = rx_msg
                 PROVE  bus'[j].k >= r
      BY <2>1
    <3>1. j + 1 \in 1 .. Len(bus) /\ bus'[j] = bus[j + 1]
          /\ (bus'[j].msg = bus[1].msg => bus'[j].k >= bus[1].k)
      BY <1>1, HeadFact
    <3>2. bus[j + 1].msg = rx_msg => bus[j + 1].k >= p
      BY <3>1 DEF LinkInv, ReceiverInv
    <3>. QED BY <1>2, <3>1, <3>2
  <2>3. last' = rx_msg' /\ rx_msg' > 0 => r > 0
    BY <1>2, <2>1 DEF ReceiverInv
  <2>4. ReassemblyInv(n, r)'
    <3>1. ReassemblyInv(n, p)'
      BY <1>1, <2>1, ReassemblyStays
    <3>2. (n <= p => n <= r) /\ (n + 2 <= p => n + 2 <= r)
      BY <1>2
    <3>. QED BY <3>1, <3>2 DEF ReassemblyInv
  <2>. QED BY <2>1, <2>2, <2>3, <2>4 DEF ReceiverInv
<1>. QED BY <1>3, <1>4, <1>5 DEF LinkInv

\* No First Frame is lost.
LEMMA InvLose ==
  ASSUME FramesSurvive, NEW n \in Nat, NEW p \in Nat, NEW q \in Nat, LinkInv(n, p, q), Lose
  PROVE  \E r \in Nat : LinkInv(n, r, q)'
<1>1. Head(bus).frame.pci # "FF"
  BY DEF Lose, FramesSurvive, LinkInv, BusInv
<1>. QED BY <1>1, InvDropHead DEF Lose, txVars, streamPart, rxVars, rxPart, peerVars

\* A frame that is refused is no First Frame: those are always well formed.
LEMMA InvReceiveBad ==
  ASSUME NEW n \in Nat, NEW p \in Nat, NEW q \in Nat, LinkInv(n, p, q), ReceiveBad
  PROVE  \E r \in Nat : LinkInv(n, r, q)'
<1>1. bus # <<>> /\ bus' = Tail(bus) /\ ~LegalFF(Head(bus).frame)
      /\ UNCHANGED streamPart /\ UNCHANGED rxPart /\ UNCHANGED <<sent, link, rx_msg, last>>
  BY DEF ReceiveBad, Decoding, RejectPci, txVars, streamPart, rxPart
<1>2. Head(bus).frame.pci # "FF"
  <2> SUFFICES ASSUME bus[1].frame.pci = "FF" PROVE LegalFF(bus[1].frame)
    BY <1>1, HeadFact DEF LinkInv
  <2>1. BusInv /\ 1 \in 1 .. Len(bus)
    BY <1>1, HeadFact DEF LinkInv
  <2> DEFINE m == sent[bus[1].msg]
  <2>2. m \in Sendable /\ bus[1].k = 0 /\ Multi(m) /\ bus[1].frame = FrameOf(m, 0)
    BY <2>1, OnBus
  <2> HIDE DEF m
  <2>3. bus[1].frame = FFrame(m) /\ Len(m) \in SFMax + 1 .. FFMax
    BY <2>2, FrameParameters DEF FrameOf, Multi, Sendable
  <2>. QED BY <2>3 DEF LegalFF, FFrame
<1>. QED BY <1>1, <1>2, InvDropHead

\* No Single Frame is repeated.
LEMMA InvRepeat ==
  ASSUME FramesSurvive, NEW n \in Nat, NEW p \in Nat, NEW q \in Nat, LinkInv(n, p, q), Repeat
  PROVE  LinkInv(n, p, q)'
<1>1. /\ bus # <<>> /\ bus' = <<Head(bus)>> \o bus /\ Head(bus).frame.pci \in link.repeats
      /\ UNCHANGED streamPart /\ UNCHANGED rxPart /\ UNCHANGED <<sent, link, rx_msg, last>>
  BY DEF Repeat, txVars, streamPart, rxVars, rxPart, peerVars
<1>2. BusInv /\ Head(bus).frame.pci # "SF"
  BY <1>1 DEF FramesSurvive, LinkInv, BusInv
<1>3. BusInv' /\ \A j \in 1 .. Len(bus') : \E i \in 1 .. Len(bus) : bus'[j] = bus[i]
  BY <1>1, <1>2, RepeatBus
<1>4. SenderInv(p, q)'
  BY <1>1, <1>3 DEF LinkInv, SenderInv, streamPart
<1>5. ReceiverInv(n, p)'
  <2>1. ReassemblyInv(n, p)'
    BY <1>1, <1>2, ReassemblyStays DEF LinkInv
  <2>. QED BY <1>1, <1>3, <2>1 DEF LinkInv, ReceiverInv
<1>. QED BY <1>3, <1>4, <1>5 DEF LinkInv

\* A Single Frame is a message, and no trace of it is left on the bus.
LEMMA InvReceiveSF ==
  ASSUME NEW n \in Nat, NEW p \in Nat, NEW q \in Nat, LinkInv(n, p, q), ReceiveSF
  PROVE  /\ LinkInv(n, 1, q)'
         /\ last' \in last + 1 .. Len(sent) /\ delivered' = Append(delivered, sent[last'])
<1>1. /\ bus # <<>> /\ bus' = Tail(bus) /\ UNCHANGED streamPart /\ UNCHANGED <<sent, link>>
      /\ LegalSF(Head(bus).frame) /\ rx_state' = "SF"
      /\ rx_msg' = Head(bus).msg /\ last' = rx_msg'
      /\ delivered' = Append(delivered, Taken(Head(bus).frame.data, Head(bus).frame.len))
  BY DEF ReceiveSF, Decoding, TakeMessage, DecodeSF, Decoded, txVars, streamPart
<1>2. BusInv /\ sent \in Seq(Sendable) /\ last \in 0 .. rx_msg
  BY DEF LinkInv, BusInv, ReceiverInv
<1>3. Head(bus) = bus[1] /\ 1 \in 1 .. Len(bus) /\ rx_msg \in Nat /\ bus[1].msg \in Nat
  BY <1>1, <1>2, HeadFact
<1>. DEFINE m == sent[bus[1].msg]
<1>4. /\ IsSingle(bus[1]) /\ m \in Sendable /\ bus[1].msg \in 1 .. Len(sent)
      /\ bus[1].frame = FrameOf(m, 0) /\ bus[1].k = 0 /\ ~Multi(m)
  BY <1>1, <1>2, <1>3, OnBus DEF LegalSF, IsSingle
<1>. HIDE DEF m
<1>5. rx_msg < bus[1].msg
  BY <1>2, <1>3, <1>4 DEF BusInv
<1>6. delivered' = Append(delivered, m)
  <2>1. bus[1].frame = SFrame(m) /\ m \in Seq(Bytes)
    BY <1>4, SendableFact DEF FrameOf
  <2>2. Taken(m, Len(m)) = m
    BY <2>1 DEF Taken, Least
  <2>. QED BY <1>1, <1>3, <2>1, <2>2 DEF SFrame
<1>7. BusInv'
  BY <1>1, <1>2, PopBus
<1>8. SenderInv(1, q)'
  <2> SUFFICES ASSUME tx_stream_active'
               PROVE  /\ \A j \in 1 .. Len(bus') : bus'[j].msg = Len(sent') => bus'[j].k <= q
                      /\ rx_msg' # Len(sent')
    <3>1. tx_msg' = tx_msg /\ tx_stream_data' = tx_stream_data /\ tx_seq_num' = tx_seq_num
          /\ tx_stream_active' = tx_stream_active /\ sent' = sent
      BY <1>1 DEF streamPart
    <3>. QED BY <3>1 DEF LinkInv, SenderInv, Multi
  <2>1. tx_stream_active
    BY <1>1 DEF streamPart
  <2>2. \A j \in 1 .. Len(bus') : bus'[j].msg = Len(sent') => bus'[j].k <= q
    BY <1>1, <1>2, <2>1, HeadFact DEF LinkInv, SenderInv
  <2>3. Multi(sent[Len(sent)])
    BY <2>1 DEF LinkInv, SenderInv
  <2>. QED BY <1>1, <1>3, <1>4, <2>2, <2>3 DEF m
<1>9. ReceiverInv(n, 1)'
  <2>1. ASSUME NEW j \in 1 .. Len(bus') PROVE bus'[j].msg # rx_msg'
    <3>1. j + 1 \in 1 .. Len(bus) /\ bus'[j] = bus[j + 1] /\ 1 < j + 1
      BY <1>1, <1>2, HeadFact
    <3>2. bus[1].msg # bus[j + 1].msg
      BY <1>2, <1>3, <1>4, <3>1 DEF BusInv
    <3>. QED BY <1>1, <1>3, <3>1, <3>2
  <2>2. rx_state' # "CF" /\ last' \in 0 .. rx_msg'
    BY <1>1, <1>3
  <2>. QED BY <2>1, <2>2 DEF ReceiverInv, ReassemblyInv
<1>10. last' \in last + 1 .. Len(sent) /\ sent[last'] = m
  <2>1. last' = bus[1].msg /\ Len(sent) \in Nat
    BY <1>1, <1>2, <1>3
  <2>. QED BY <1>2, <1>3, <1>4, <1>5, <2>1 DEF m
<1>. QED BY <1>6, <1>7, <1>8, <1>9, <1>10 DEF LinkInv

\* A First Frame starts a reassembly, also one that is repeated.
LEMMA InvReceiveFF ==
  ASSUME NEW n \in Nat, NEW p \in Nat, NEW q \in Nat, LinkInv(n, p, q), ReceiveFF
  PROVE  LinkInv(0, 0, q)' /\ UNCHANGED <<delivered, last>>
<1>1. /\ bus # <<>> /\ bus' = Tail(bus) /\ UNCHANGED streamPart
      /\ UNCHANGED <<sent, link, delivered, last>> /\ LegalFF(Head(bus).frame)
      /\ rx_msg' = Head(bus).msg
      /\ rx_expected_len' = Head(bus).frame.len /\ rx_seq_num' = 0
      /\ rx_buffer' = Taken(Head(bus).frame.data, FFPayload)
  BY DEF ReceiveFF, Decoding, DecodeFF, txVars, streamPart
<1>2. BusInv /\ sent \in Seq(Sendable) /\ last \in 0 .. rx_msg
  BY DEF LinkInv, BusInv, ReceiverInv
<1>3. Head(bus) = bus[1] /\ 1 \in 1 .. Len(bus) /\ rx_msg \in Nat /\ bus[1].msg \in Nat
      /\ rx_msg <= bus[1].msg
  BY <1>1, <1>2, HeadFact
<1>. DEFINE m == sent[bus[1].msg]
<1>4. /\ m \in Sendable /\ bus[1].msg \in 1 .. Len(sent)
      /\ bus[1].frame = FrameOf(m, 0) /\ bus[1].k = 0 /\ Multi(m)
  BY <1>1, <1>2, <1>3, OnBus DEF LegalFF
<1>. HIDE DEF m
<1>5. last < bus[1].msg
  <2>1. last = rx_msg /\ rx_msg = bus[1].msg => FALSE
    BY <1>3, <1>4 DEF LinkInv, ReceiverInv
  <2>. QED BY <1>2, <1>3, <2>1
<1>6. BusInv'
  BY <1>1, <1>2, PopBus
<1>7. SenderInv(0, q)'
  <2> SUFFICES ASSUME tx_stream_active'
               PROVE  /\ \A j \in 1 .. Len(bus') : bus'[j].msg = Len(sent') => bus'[j].k <= q
                      /\ 0 <= q
    <3>1. tx_msg' = tx_msg /\ tx_stream_data' = tx_stream_data /\ tx_seq_num' = tx_seq_num
          /\ tx_stream_active' = tx_stream_active /\ sent' = sent
      BY <1>1 DEF streamPart
    <3>. QED BY <3>1 DEF LinkInv, SenderInv, Multi
  <2>1. tx_stream_active
    BY <1>1 DEF streamPart
  <2>2. \A j \in 1 .. Len(bus') : bus'[j].msg = Len(sent') => bus'[j].k <= q
    BY <1>1, <1>2, <2>1, HeadFact DEF LinkInv, SenderInv
  <2>. QED BY <2>2
<1>8. ReassemblyInv(0, 0)'
  <2>1. m \in Seq(Bytes) /\ Len(m) \in Nat /\ FFPayload \in Nat /\ FFPayload < Len(m)
    BY <1>4, SendableFact, FrameParameters DEF Multi
  <2>2. bus[1].frame = FFrame(m)
    BY <1>4 DEF FrameOf
  <2>3. Taken(m, FFPayload) = SubSeq(m, 1, FFPayload)
        /\ Taken(SubSeq(m, 1, FFPayload), FFPayload) = SubSeq(m, 1, FFPayload)
        /\ SubSeq(m, 1, FFPayload) \in Seq(Bytes) /\ Len(SubSeq(m, 1, FFPayload)) = FFPayload
    <3>1. SubSeq(m, 1, FFPayload) \in Seq(Bytes) /\ Len(SubSeq(m, 1, FFPayload)) = FFPayload
      BY <2>1
    <3>2. SubSeq(SubSeq(m, 1, FFPayload), 1, FFPayload) = SubSeq(m, 1, FFPayload)
      BY <2>1, <3>1
    <3>3. Least(FFPayload, Len(m)) = FFPayload /\ Least(FFPayload, FFPayload) = FFPayload
      BY <2>1 DEF Least
    <3>. QED BY <3>1, <3>2, <3>3 DEF Taken
  <2>4. rx_buffer' = SubSeq(m, 1, Upto(0)) /\ rx_expected_len' = Len(m) /\ Upto(0) = FFPayload
    <3>1. FFrame(m).len = Len(m) /\ FFrame(m).data = Taken(m, FFPayload)
      BY DEF FFrame
    <3>2. rx_buffer' = Taken(Taken(m, FFPayload), FFPayload) /\ rx_expected_len' = Len(m)
      BY <1>1, <1>3, <2>2, <3>1
    <3>. QED BY <2>3, <3>2, UptoFact
  <2>5. sent'[rx_msg'] = m /\ last' < rx_msg'
    BY <1>1, <1>3, <1>5 DEF m
  <2>6. SeqAfter(0) = 0
    BY DEF SeqAfter
  <2>7. Multi(sent[rx_msg])'
    BY <1>4, <2>5 DEF Multi
  <2>8. rx_buffer' \in Seq(Bytes) /\ Len(rx_buffer') = Upto(0) /\ Upto(0) < rx_expected_len'
    BY <2>1, <2>3, <2>4
  <2>9. rx_buffer' = SubSeq(sent'[rx_msg'], 1, Upto(0)) /\ rx_expected_len' = Len(sent'[rx_msg'])
        /\ rx_seq_num' = SeqAfter(0)
    BY <1>1, <2>4, <2>5, <2>6
  <2>. QED BY <2>5, <2>7, <2>8, <2>9 DEF ReassemblyInv
<1>9. ReceiverInv(0, 0)'
  <2>1. \A j \in 1 .. Len(bus') : bus'[j].k >= 0
    BY <1>1, <1>2, HeadFact
  <2>2. last' \in 0 .. rx_msg' /\ last' # rx_msg'
    BY <1>1, <1>2, <1>3, <1>5
  <2>. QED BY <1>8, <2>1, <2>2 DEF ReceiverInv
<1>. QED BY <1>1, <1>6, <1>7, <1>9 DEF LinkInv

\* What the receiver takes of a CF's payload is the piece, without its padding.
LEMMA PieceFact ==
  ASSUME NEW m \in Seq(Bytes), NEW n \in Nat, Upto(n) < Len(m),
         NEW c \in Nat, c = Least(CFPayload, Len(m) - Upto(n))
  PROVE  SubSeq(m, 1, Upto(n)) \o Taken(Padded(Piece(m, n + 1), CFPayload), c)
         = SubSeq(m, 1, Upto(n) + c)
<1>1. /\ Upto(n) \in 0 .. Len(m) /\ CFPayload \in Nat \ {0} /\ Pad \in Bytes
      /\ Len(m) \in Nat /\ Len(m) - Upto(n) \in Nat
      /\ c <= CFPayload /\ c <= Len(m) - Upto(n)
  <2>1. Upto(n) \in Nat /\ CFPayload \in Nat \ {0} /\ Pad \in Bytes /\ Len(m) \in Nat
    BY FrameParameters, UptoFact
  <2>2. Len(m) - Upto(n) \in Nat
    BY <2>1
  <2>3. c <= CFPayload /\ c <= Len(m) - Upto(n)
    BY <2>1, <2>2 DEF Least
  <2>. QED BY <2>1, <2>2, <2>3
<1>. DEFINE s == SubSeq(m, Upto(n) + 1, Len(m))
            t == Taken(s, CFPayload)
            u == Padded(t, CFPayload)
            v == Taken(u, c)
<1>2. /\ s \in Seq(Bytes) /\ Len(s) = Len(m) - Upto(n)
      /\ \A i \in 1 .. Len(m) - Upto(n) : s[i] = m[Upto(n) + i]
  BY <1>1, PartFact
<1>3. Piece(m, n + 1) = t
  BY UptoFact DEF Piece
<1>. HIDE DEF s
<1>4. t \in Seq(Bytes) /\ Len(t) = c /\ \A i \in 1 .. c : t[i] = s[i]
  <2>1. t = SubSeq(s, 1, c)
    BY <1>2 DEF Taken
  <2>. HIDE DEF t
  <2>. QED BY <1>1, <1>2, <2>1
<1>. HIDE DEF t
<1>5. u \in Seq(Bytes) /\ Len(u) = CFPayload /\ \A i \in 1 .. c : u[i] = t[i]
  BY <1>1, <1>4 DEF Padded
<1>. HIDE DEF u
<1>6. v \in Seq(Bytes) /\ Len(v) = c /\ \A i \in 1 .. c : v[i] = m[Upto(n) + i]
  <2>1. v = SubSeq(u, 1, c)
    BY <1>1, <1>5 DEF Taken, Least
  <2>2. v \in Seq(Bytes) /\ Len(v) = c /\ \A i \in 1 .. c : v[i] = u[i]
    <3>. HIDE DEF v
    <3>. QED BY <1>1, <1>5, <2>1
  <2>. QED BY <1>1, <1>2, <1>4, <1>5, <2>2
<1>. HIDE DEF v
<1>. DEFINE a == Upto(n)
            b == SubSeq(m, 1, a)
            x == b \o v
            y == SubSeq(m, 1, a + c)
<1>7. b \in Seq(Bytes) /\ Len(b) = a /\ \A i \in 1 .. a : b[i] = m[i]
  BY <1>1
<1>8. y \in Seq(Bytes) /\ Len(y) = a + c /\ \A i \in 1 .. a + c : y[i] = m[i]
  BY <1>1
<1>. HIDE DEF b, y
<1>9. x \in Seq(Bytes) /\ Len(x) = a + c /\ \A i \in 1 .. a + c : x[i] = m[i]
  <2>. HIDE DEF a
  <2>1. a \in Nat /\ c \in Nat
    BY <1>1 DEF a
  <2>2. x \in Seq(Bytes) /\ Len(x) = a + c
    BY <1>6, <1>7, <2>1
  <2>3. ASSUME NEW i \in 1 .. a + c PROVE x[i] = m[i]
    <3>1. CASE i <= a
      BY <1>6, <1>7, <2>1, <3>1
    <3>2. CASE i > a
      <4>1. i - a \in 1 .. c /\ a + (i - a) = i
        BY <2>1, <3>2
      <4>2. x[i] = IF i <= a THEN b[i] ELSE v[i - a]
        BY <1>6, <1>7, ConcatProperties
      <4>. QED BY <1>6, <3>2, <4>1, <4>2, <2>1 DEF a
    <3>3. i <= a \/ i > a
      BY <2>1
    <3>. QED BY <3>1, <3>2, <3>3
  <2>. QED BY <2>2, <2>3
<1>. HIDE DEF x
<1>10. x = y
  BY <1>8, <1>9
<1>. QED BY <1>3, <1>10 DEF x, y, b, a, v, u

\* The length of what the receiver takes of a CF.
LEMMA TakenPadded ==
  ASSUME NEW s \in Seq(Bytes), NEW c \in Nat, c <= CFPayload
  PROVE  /\ Taken(Padded(s, CFPayload), c) \in Seq(Bytes)
         /\ Len(Taken(Padded(s, CFPayload), c)) = c
<1>1. Padded(s, CFPayload) \in Seq(Bytes) /\ Len(Padded(s, CFPayload)) = CFPayload
  BY FrameParameters DEF Padded
<1>. QED BY <1>1, TakenFact, FrameParameters

\* The CF at the head of the bus belongs to the message being reassembled: any
\* other message's FF would still be in front of its CFs.
LEMMA HeadIsOfMessage ==
  ASSUME BusInv, bus # <<>>, Head(bus).frame.pci = "CF"
  PROVE  /\ bus[1].msg = rx_msg /\ bus[1].k \in Nat /\ bus[1].k > 0
         /\ sent[rx_msg] \in Sendable /\ Multi(sent[rx_msg])
         /\ Upto(bus[1].k - 1) < Len(sent[rx_msg])
         /\ Head(bus).frame = CFrame(SeqAfter(bus[1].k), Piece(sent[rx_msg], bus[1].k))
<1>. DEFINE h == bus[1].msg
            k == bus[1].k
<1>1. bus \in Seq(Entries) /\ rx_msg \in 0 .. Len(sent) /\ sent \in Seq(Sendable)
  BY DEF BusInv
<1>2. Len(bus) \in Nat /\ 1 \in 1 .. Len(bus) /\ Head(bus) = bus[1] /\ Len(sent) \in Nat
  BY <1>1
<1>3. /\ h \in Nat /\ k \in Nat /\ h \in 1 .. Len(sent) /\ sent[h] \in Sendable
      /\ k > 0 /\ bus[1].frame = FrameOf(sent[h], k)
  BY <1>2, OnBus
<1>4. Multi(sent[h]) /\ Upto(k - 1) < Len(sent[h]) /\ rx_msg <= h
  BY <1>2, <1>3 DEF BusInv, IsCut
<1>5. h = rx_msg
  <2> SUFFICES ASSUME h > rx_msg PROVE FALSE
    BY <1>1, <1>2, <1>3, <1>4
  <2>1. h \in rx_msg + 1 .. Len(sent)
    <3>. HIDE DEF h
    <3>. QED BY <1>1, <1>2, <1>3
  <2>2. PICK j \in 1 .. Len(bus) : bus[j].msg = h /\ bus[j].k = 0
    BY <1>4, <2>1 DEF BusInv
  <2>3. 1 < j
    BY <1>2, <1>3, <2>2
  <2>4. NotAfter(bus[1], bus[j])
    BY <1>2, <2>3 DEF BusInv
  <2>. QED BY <1>3, <2>2, <2>4 DEF NotAfter
<1>6. FrameOf(sent[h], k) = CFrame(SeqAfter(k), Piece(sent[h], k))
  BY <1>3 DEF FrameOf
<1>. QED BY <1>2, <1>3, <1>4, <1>5, <1>6

\* The reassembly b of n CFs of m after another CF of m, the kth, is accepted.
Grown(b, m, n, k) ==
  b \o Taken(Padded(Piece(m, k), CFPayload), Least(CFPayload, Len(m) - Upto(n)))

\* What a CF makes of the reassembly.  Only the CF after those in the buffer can
\* complete it; one accepted in its place because its number came round again
\* leaves too many bytes missing.
LEMMA GrownFact ==
  ASSUME NEW m \in Seq(Bytes), NEW n \in Nat, NEW k \in Nat, NEW b \in Seq(Bytes),
         Upto(n) < Len(m), k > 0, n <= k, Upto(k - 1) < Len(m),
         Len(b) = Upto(n), b = SubSeq(m, 1, Upto(n)) \/ n + 2 <= k,
         SeqAfter(k) = NextSeq(SeqAfter(n))
  PROVE  /\ Grown(b, m, n, k) \in Seq(Bytes)
         /\ Len(Grown(b, m, n, k)) >= Len(m) => Grown(b, m, n, k) = m
         /\ Len(Grown(b, m, n, k)) < Len(m) =>
              /\ Len(Grown(b, m, n, k)) = Upto(n + 1)
              /\ Grown(b, m, n, k) = SubSeq(m, 1, Upto(n + 1)) \/ (n + 1) + 2 <= k
         /\ n + 1 <= k
<1>. DEFINE c == Least(CFPayload, Len(m) - Upto(n))
            t == Taken(Padded(Piece(m, k), CFPayload), c)
            g == Grown(b, m, n, k)
<1>1. /\ CFPayload \in Nat \ {0} /\ Len(m) \in Nat /\ Upto(n) \in Nat /\ Upto(n) >= 0
      /\ Upto(n + 1) = Upto(n) + CFPayload /\ Upto(n + 1) \in Nat
      /\ k - 1 \in Nat /\ n + 1 \in Nat
  BY FrameParameters, UptoFact
<1>2. Len(m) - Upto(n) \in Nat /\ Len(m) - Upto(n) > 0
  BY <1>1
<1>3. c \in Nat /\ c <= CFPayload /\ (c = CFPayload \/ c = Len(m) - Upto(n))
      /\ c <= Len(m) - Upto(n)
  BY <1>1, <1>2 DEF Least
<1>4. Piece(m, k) \in Seq(Bytes)
  <2>1. Upto(k - 1) \in 0 .. Len(m) /\ Len(m) \in Upto(k - 1) .. Len(m)
    <3>1. Upto(k - 1) \in Nat
      BY <1>1, UptoFact
    <3>. QED BY <1>1, <3>1
  <2>2. SubSeq(m, Upto(k - 1) + 1, Len(m)) \in Seq(Bytes)
    BY <2>1, PartFact
  <2>. QED BY <1>1, <2>2, TakenFact DEF Piece
<1>. HIDE DEF c
<1>5. t \in Seq(Bytes) /\ Len(t) = c
  BY <1>3, <1>4, TakenPadded
<1>6. g = b \o t
  BY DEF c, Grown
<1>. HIDE DEF t, g
<1>7. g \in Seq(Bytes) /\ Len(g) = Upto(n) + c
  <2>1. Len(b \o t) = Len(b) + Len(t) /\ b \o t \in Seq(Bytes)
    BY <1>5, ConcatProperties
  <2>. QED BY <1>5, <1>6, <2>1
<1>8. k = n + 1 \/ k >= n + 3
  <2>1. SeqAfter(k) = SeqAfter(n + 1)
    BY SeqAfterFact
  <2>. QED BY <2>1, SeqApart
<1>9. CASE k >= n + 3
  <2>1. Upto(n + 2) <= Upto(k - 1)
    <3>1. n + 2 \in Nat /\ n + 2 <= k - 1
      BY <1>9
    <3>. QED BY <1>1, <3>1, UptoMonotonic
  <2>2. Upto(n + 2) = Upto(n + 1) + CFPayload
    <3>1. (n + 1) + 1 = n + 2
      OBVIOUS
    <3>. QED BY <1>1, <3>1, UptoFact
  <2>3. Upto(k - 1) \in Nat /\ Upto(n + 2) \in Nat
    BY <1>1, UptoFact
  <2>4. Upto(n + 1) < Len(m)
    BY <1>1, <2>1, <2>2, <2>3
  <2>5. Len(g) = Upto(n + 1)
    BY <1>1, <1>3, <1>7, <2>4
  <2>6. (n + 1) + 2 <= k /\ n + 1 <= k
    BY <1>9
  <2>. QED BY <1>1, <1>7, <2>4, <2>5, <2>6 DEF g
<1>10. CASE k = n + 1
  <2>1. b = SubSeq(m, 1, Upto(n))
    BY <1>10
  <2>2. SubSeq(m, 1, Upto(n)) \o Taken(Padded(Piece(m, n + 1), CFPayload), c)
        = SubSeq(m, 1, Upto(n) + c)
    BY <1>3, PieceFact DEF c
  <2>3. g = SubSeq(m, 1, Upto(n) + c)
    BY <1>6, <1>10, <2>1, <2>2 DEF t
  <2>4. Len(g) >= Len(m) => g = m
    <3>1. Len(g) >= Len(m) => Upto(n) + c = Len(m)
      BY <1>1, <1>3, <1>7
    <3>2. SubSeq(m, 1, Len(m)) = m
      OBVIOUS
    <3>. QED BY <2>3, <3>1, <3>2
  <2>5. Len(g) < Len(m) => Len(g) = Upto(n + 1) /\ g = SubSeq(m, 1, Upto(n + 1))
    <3>1. Len(g) < Len(m) => Upto(n) + c = Upto(n + 1)
      BY <1>1, <1>3, <1>7
    <3>. QED BY <1>7, <2>3, <3>1
  <2>. QED BY <1>7, <1>10, <2>4, <2>5 DEF g
<1>. QED BY <1>8, <1>9, <1>10 DEF g

\* A CF accepted: what it completes is the message.
LEMMA InvReceiveCF ==
  ASSUME NEW n \in Nat, NEW p \in Nat, NEW q \in Nat, LinkInv(n, p, q), ReceiveCF
  PROVE  /\ \E r \in Nat : LinkInv(n + 1, r, q)'
         /\ \/ UNCHANGED <<delivered, last>>
            \/ last' \in last + 1 .. Len(sent) /\ delivered' = Append(delivered, sent[last'])
<1>. DEFINE m == sent[rx_msg]
            f == Head(bus).frame
<1>1. /\ bus # <<>> /\ bus' = Tail(bus) /\ UNCHANGED streamPart /\ UNCHANGED <<sent, link, rx_msg>>
      /\ f.pci = "CF" /\ rx_state = "CF" /\ f.seq = NextSeq(rx_seq_num)
      /\ rx_seq_num' = f.seq /\ rx_buffer' = rx_buffer \o CfBytes(f)
      /\ rx_state' = (IF Len(rx_buffer') >= rx_expected_len THEN "IDLE" ELSE "CF")
      /\ rx_expected_len' = rx_expected_len
      /\ rx_state' = "IDLE" => last' = rx_msg /\ delivered' = Append(delivered, rx_buffer')
      /\ rx_state' # "IDLE" => UNCHANGED <<delivered, last>>
  BY DEF ReceiveCF, Decoding, TakeMessage, DecodeCF, LegalCF, Decoded, txVars, streamPart
<1>2. BusInv /\ sent \in Seq(Sendable) /\ last \in 0 .. rx_msg /\ rx_msg \in 0 .. Len(sent)
  BY DEF LinkInv, BusInv, ReceiverInv
<1>3. PICK k \in Nat : /\ k = bus[1].k /\ k > 0 /\ bus[1].msg = rx_msg /\ m \in Sendable
                       /\ Multi(m) /\ Upto(k - 1) < Len(m)
                       /\ f = CFrame(SeqAfter(k), Piece(m, k))
  BY <1>1, <1>2, HeadIsOfMessage
<1>4. m \in Seq(Bytes) /\ Len(m) \in Nat
  BY <1>3, SendableFact
<1>5. /\ last < rx_msg /\ rx_expected_len = Len(m) /\ n <= p
      /\ rx_buffer \in Seq(Bytes) /\ Len(rx_buffer) = Upto(n) /\ Upto(n) < Len(m)
      /\ rx_seq_num = SeqAfter(n)
      /\ rx_buffer = SubSeq(m, 1, Upto(n)) \/ n + 2 <= p
  BY <1>1 DEF LinkInv, ReceiverInv, ReassemblyInv
<1>6. k >= p
  BY <1>1, <1>2, <1>3, HeadFact DEF LinkInv, ReceiverInv
<1>. HIDE DEF m, f
<1>7. /\ rx_seq_num' = SeqAfter(k) /\ SeqAfter(k) = NextSeq(SeqAfter(n))
      /\ rx_buffer' = Grown(rx_buffer, m, n, k)
  BY <1>1, <1>3, <1>5 DEF CfBytes, CFrame, Grown
<1>8. /\ rx_buffer' \in Seq(Bytes)
      /\ Len(rx_buffer') >= Len(m) => rx_buffer' = m
      /\ Len(rx_buffer') < Len(m) =>
           /\ Len(rx_buffer') = Upto(n + 1)
           /\ rx_buffer' = SubSeq(m, 1, Upto(n + 1)) \/ (n + 1) + 2 <= k
      /\ n + 1 <= k
  <2>1. n <= k /\ (rx_buffer = SubSeq(m, 1, Upto(n)) \/ n + 2 <= k)
    BY <1>5, <1>6
  <2>2. /\ Upto(n) < Len(m) /\ Upto(k - 1) < Len(m) /\ k > 0 /\ m \in Seq(Bytes)
        /\ rx_buffer \in Seq(Bytes) /\ Len(rx_buffer) = Upto(n)
        /\ SeqAfter(k) = NextSeq(SeqAfter(n))
    BY <1>3, <1>4, <1>5, <1>7
  <2>3. /\ Grown(rx_buffer, m, n, k) \in Seq(Bytes)
        /\ Len(Grown(rx_buffer, m, n, k)) >= Len(m) => Grown(rx_buffer, m, n, k) = m
        /\ Len(Grown(rx_buffer, m, n, k)) < Len(m) =>
             /\ Len(Grown(rx_buffer, m, n, k)) = Upto(n + 1)
             /\ Grown(rx_buffer, m, n, k) = SubSeq(m, 1, Upto(n + 1)) \/ (n + 1) + 2 <= k
        /\ n + 1 <= k
    BY <2>1, <2>2, GrownFact
  <2>. QED BY <1>7, <2>3
<1>9. BusInv'
  <2>1. Head(bus).frame.pci # "FF"
    BY <1>1 DEF f
  <2>. QED BY <1>1, <1>2, <2>1, PopBus
<1>10. SenderInv(k, q)'
  <2> SUFFICES ASSUME tx_stream_active'
               PROVE  /\ \A j \in 1 .. Len(bus') : bus'[j].msg = Len(sent') => bus'[j].k <= q
                      /\ rx_msg' = Len(sent') => k <= q
    <3>1. tx_msg' = tx_msg /\ tx_stream_data' = tx_stream_data /\ tx_seq_num' = tx_seq_num
          /\ tx_stream_active' = tx_stream_active /\ sent' = sent
      BY <1>1 DEF streamPart
    <3>. QED BY <3>1 DEF LinkInv, SenderInv, Multi
  <2>1. tx_stream_active
    BY <1>1 DEF streamPart
  <2>2. \A j \in 1 .. Len(bus) : bus[j].msg = Len(sent) => bus[j].k <= q
    BY <2>1 DEF LinkInv, SenderInv
  <2>. QED BY <1>1, <1>2, <1>3, <2>2, HeadFact
<1>11. Len(rx_buffer') \in Nat
  BY <1>8
<1>12. ReassemblyInv(n + 1, k)'
  <2> SUFFICES ASSUME rx_state' = "CF" PROVE ReassemblyInv(n + 1, k)'
    BY DEF ReassemblyInv
  <2>1. Len(rx_buffer') < Len(m)
    BY <1>1, <1>4, <1>5, <1>11
  <2>2. last' < rx_msg' /\ Multi(sent[rx_msg])' /\ rx_expected_len' = Len(sent'[rx_msg'])
    BY <1>1, <1>3, <1>5 DEF m, Multi
  <2>3. /\ Len(rx_buffer') = Upto(n + 1) /\ Upto(n + 1) < rx_expected_len'
        /\ rx_buffer' = SubSeq(sent'[rx_msg'], 1, Upto(n + 1)) \/ (n + 1) + 2 <= k
    BY <1>1, <1>5, <1>8, <2>1 DEF m
  <2>4. rx_seq_num' = SeqAfter(n + 1)
    BY <1>7, SeqAfterFact
  <2>. QED BY <1>8, <2>2, <2>3, <2>4 DEF ReassemblyInv
<1>13. ReceiverInv(n + 1, k)'
  <2>1. last' \in 0 .. rx_msg'
    BY <1>1, <1>2
  <2>2. \A j \in 1 .. Len(bus') : bus'[j].msg = rx_msg' => bus'[j].k >= k
    BY <1>1, <1>2, <1>3, HeadFact
  <2>. QED BY <1>3, <1>12, <2>1, <2>2 DEF ReceiverInv
<1>14. LinkInv(n + 1, k, q)'
  BY <1>9, <1>10, <1>13 DEF LinkInv
<1>15. CASE rx_state' = "IDLE"
  <2>1. rx_buffer' = m
    <3>1. Len(rx_buffer') >= Len(m)
      BY <1>1, <1>5, <1>15
    <3>. QED BY <1>8, <3>1
  <2>2. rx_msg \in last + 1 .. Len(sent) /\ last' = rx_msg
    <3>1. Len(sent) \in Nat
      BY <1>2
    <3>. QED BY <1>1, <1>2, <1>5, <1>15, <3>1
  <2>. QED BY <1>1, <1>14, <1>15, <2>1, <2>2 DEF m
<1>16. CASE rx_state' # "IDLE"
  BY <1>1, <1>14, <1>16
<1>. QED BY <1>15, <1>16

\* The inductive invariant.
Inv == \E n, p, q \in Nat : LinkInv(n, p, q)

\* Every step preserves the invariant, and is a step of the FIFO or none to it.
LEMMA StepInOrder ==
  ASSUME FramesSurvive, Inv, [Next]_vars
  PROVE  Inv' /\ [Fifo!Next]_(Fifo!vars)
<1>. PICK n \in Nat, p \in Nat, q \in Nat : LinkInv(n, p, q)
  BY DEF Inv
<1>1. ASSUME NEW m \in Messages, SendMessage(m) PROVE Inv' /\ Fifo!Next
  <2>1. LinkInv(n, p, 0)'
    BY <1>1, InvSendMessage
  <2>2. Fifo!Send(m)
    BY <1>1 DEF SendMessage, Fifo!Send
  <2>. QED BY <2>1, <2>2 DEF Inv, Fifo!Next
<1>2. CASE SendCf
  <2>1. LinkInv(n, p, q + 1)' /\ q + 1 \in Nat
    BY <1>2, InvSendCf
  <2>. QED BY <1>2, <2>1 DEF Inv, SendCf, Fifo!vars
<1>3. CASE GiveUp
  <2>1. LinkInv(n, p, q)'
    BY <1>3, InvGiveUp DEF GiveUp, Tx!AbortStream, rxVars, rxPart, peerVars
  <2>. QED BY <1>3, <2>1 DEF Inv, GiveUp, Fifo!vars
<1>4. CASE Lose
  <2>1. PICK r \in Nat : LinkInv(n, r, q)'
    BY <1>4, InvLose
  <2>. QED BY <1>4, <2>1 DEF Inv, Lose, Fifo!vars
<1>5. CASE Repeat
  <2>1. LinkInv(n, p, q)'
    BY <1>5, InvRepeat
  <2>. QED BY <1>5, <2>1 DEF Inv, Repeat, Fifo!vars
<1>6. CASE ReceiveSF
  <2>1. LinkInv(n, 1, q)'
    BY <1>6, InvReceiveSF
  <2>2. Fifo!Deliver(last') /\ last' \in last + 1 .. Len(sent)
    BY <1>6, InvReceiveSF DEF ReceiveSF, Decoding, Fifo!Deliver
  <2>. QED BY <2>1, <2>2 DEF Inv, Fifo!Next
<1>7. CASE ReceiveFF
  <2>1. LinkInv(0, 0, q)' /\ UNCHANGED <<delivered, last>>
    BY <1>7, InvReceiveFF
  <2>. QED BY <1>7, <2>1 DEF Inv, ReceiveFF, Decoding, Fifo!vars
<1>8. CASE ReceiveCF
  <2>1. PICK r \in Nat : LinkInv(n + 1, r, q)' /\ n + 1 \in Nat
    BY <1>8, InvReceiveCF
  <2>2. UNCHANGED sent
    BY <1>8 DEF ReceiveCF, Decoding
  <2>3. \/ UNCHANGED <<delivered, last>>
        \/ last' \in last + 1 .. Len(sent) /\ delivered' = Append(delivered, sent[last'])
    BY <1>8, InvReceiveCF
  <2>4. [Fifo!Next]_(Fifo!vars)
    BY <2>2, <2>3 DEF Fifo!Next, Fifo!Deliver, Fifo!vars
  <2>. QED BY <2>1, <2>4 DEF Inv
<1>9. CASE ReceiveBad
  <2>1. PICK r \in Nat : LinkInv(n, r, q)'
    BY <1>9, InvReceiveBad
  <2>. QED BY <1>9, <2>1 DEF Inv, ReceiveBad, Decoding, Fifo!vars
<1>10. ASSUME \/ PauseAtBlockEnd \/ TakeFc \/ LoseFc
              \/ SendFcContinue \/ SendFcWait \/ UNCHANGED vars
       PROVE  Inv' /\ UNCHANGED Fifo!vars
  <2>1. /\ UNCHANGED streamPart /\ UNCHANGED rxPart
        /\ UNCHANGED <<bus, sent, link, rx_msg, last>> /\ UNCHANGED delivered
    BY <1>10
    DEF PauseAtBlockEnd, Tx!NextCfPause, Tx!histVars, TakeFc, Tx!RecvFc, Tx!RecvContinue,
        Tx!RecvWait, Tx!RecvOverflow, Tx!streamVars, LoseFc, SendFcContinue, SendFcWait, vars,
        txVars, rxVars, peerVars, streamPart, rxPart
  <2>2. LinkInv(n, p, q)'
    BY <2>1, InvUnchanged
  <2>. QED BY <2>1, <2>2 DEF Inv, Fifo!vars
<1>. QED BY <1>1, <1>2, <1>3, <1>4, <1>5, <1>6, <1>7, <1>8, <1>9, <1>10 DEF Next, Receive

-----------------------------------------------------------------------------
\* Whatever CFs, Single Frames and FC frames the bus loses, whatever FFs and CFs
\* it repeats and whenever the sender gives up, for any messages, payload sizes,
\* block sizes and length of the sequence counter: what the receiver takes from
\* the connection is a message that was sent, whole, at most once and in order.
THEOREM LinkDeliversInOrder == ASSUME FramesSurvive PROVE Spec => DeliversInOrder
<1>1. Init => Inv /\ Fifo!Init
  <2>1. Init => Fifo!Init
    BY DEF Init, Fifo!Init
  <2>. QED BY <2>1, InvInit DEF Inv
<1>2. Inv /\ [Next]_vars => Inv' /\ [Fifo!Next]_(Fifo!vars)
  BY StepInOrder
<1>. QED BY <1>1, <1>2, PTL DEF Spec, DeliversInOrder, Fifo!Spec
=============================================================================
