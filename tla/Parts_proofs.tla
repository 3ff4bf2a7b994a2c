----------------------------- MODULE Parts_proofs -----------------------------
(***************************************************************************)
(* Theorems about the parts that work on state of their own: the timer,    *)
(* UART and memory of the HAL, the time stamps and the pool of contexts,   *)
(* and the one-call encoder, for any sizes, limits, clocks and arguments   *)
(* the modules' assumptions allow; that all the parts MC_Parts puts side   *)
(* by side keep their types; and about a download from end to end, which   *)
(* is composed of the receiver and the transfer services.                  *)
(***************************************************************************)
EXTENDS MC_Parts, UdsDownload, UdsServices_proofs, LinRx_proofs,
        SequenceTheorems, FiniteSetTheorems, WellFoundedInduction

\* The least of a set of indices is one of them.
LEMMA LeastOfSet ==
  ASSUME NEW S, S \subseteq Nat, S # {}
  PROVE  Min(S) \in S
<1>. DEFINE Less == {p \in Nat \X Nat : p[1] < p[2]}
<1>1. IsWellFoundedOn(Less, Nat)
  BY NatLessThanWellFounded DEF OpToRel
<1>2. PICK m \in S : \A k \in S : ~ (<<k, m>> \in Less)
  <2>. HIDE DEF Less
  <2>. QED BY <1>1, WFMin
<1>3. ASSUME NEW k \in S PROVE m <= k
  <2>1. <<k, m>> \in Nat \X Nat /\ ~ (<<k, m>> \in Less)
    BY <1>2
  <2>. QED BY <2>1
<1>. QED
  BY <1>3 DEF Min

-----------------------------------------------------------------------------
(* The timer of the HAL. *)

\* Nothing but hal_timer_start sets the timer running, at the time it is called.
LEMMA HalTimerTypeNext == HalTimerTypeOK /\ [HalTimerNext]_halTimerVars => HalTimerTypeOK'
<1>. SUFFICES ASSUME HalTimerTypeOK, [HalTimerNext]_halTimerVars PROVE HalTimerTypeOK'
  OBVIOUS
<1>. USE HalTimerParameters DEF HalTimerTypeOK
<1>1. CASE InitTimer \/ StopTimer
  <2>1. timer_running' = FALSE /\ timer_duration_ns' = 0 /\ timer_start_ns' = 0
        /\ clock_ns' = clock_ns /\ timer_initialised' \in {TRUE, timer_initialised}
    BY <1>1 DEF InitTimer, StopTimer, Halted
  <2>2. timer_start_ns' \in 0 .. clock_ns' /\ timer_duration_ns' \in Nat /\ clock_ns' \in Nat
    BY <2>1
  <2>. QED BY <2>1, <2>2, Zenon
<1>2. CASE AskTimer
  BY <1>2 DEF AskTimer
<1>3. CASE Tick
  BY <1>3 DEF Tick
<1>4. ASSUME NEW ms \in Timeouts, StartTimer(ms) PROVE HalTimerTypeOK'
  <2>1. ms \in Nat /\ Millisecond \in Nat
    OBVIOUS
  <2>2. ms * Millisecond \in Nat
    BY <2>1
  <2>. QED BY <1>4, <2>2 DEF StartTimer, StartedAt
<1>5. CASE UNCHANGED halTimerVars
  BY <1>5 DEF halTimerVars
<1>. QED BY <1>1, <1>2, <1>3, <1>4, <1>5 DEF HalTimerNext

\* The timer's fields keep their types; it never runs before hal_timer_init.
THEOREM HalTimerTypeCorrect == HalTimerSpec => []HalTimerTypeOK
<1>1. HalTimerInit => HalTimerTypeOK
  <2>1. HalTimerInit => /\ timer_start_ns \in 0 .. clock_ns
                        /\ timer_duration_ns \in Nat /\ clock_ns \in Nat
    BY HalTimerParameters DEF HalTimerInit
  <2>2. HalTimerInit => timer_initialised = FALSE /\ timer_running = FALSE
    BY DEF HalTimerInit
  <2>. QED BY <2>1, <2>2 DEF HalTimerTypeOK
<1>. QED BY <1>1, HalTimerTypeNext, PTL DEF HalTimerSpec

\* Rounding up never turns time that is left into none.
LEMMA RoundedUp == \A ns \in Nat \ {0} : RoundedMs(ns) > 0
<1>1. ASSUME NEW M \in Nat \ {0}, NEW ns \in Nat \ {0} PROVE (ns + M - 1) \div M > 0
  <2>1. ns + M - 1 \in Nat /\ ns + M - 1 >= M
    OBVIOUS
  <2>. QED BY <2>1
<1>. QED BY <1>1, HalTimerParameters DEF RoundedMs

\* The timer of hal_timer_posix is the one-shot timer hal_timer.h promises, which
\* the security delay is modelled with: its two questions always agree, and a
\* timer that still runs is never said to have no time left.
THEOREM TimerAlwaysOneShot == HalTimerSpec => TimerIsOneShot
<1>1. HalTimerInit => OneShot!Init
  BY DEF HalTimerInit, OneShot!Init, OneShot!Asked
<1>2. ASSUME HalTimerTypeOK, HalTimerTypeOK', [HalTimerNext]_halTimerVars
      PROVE  [OneShot!Next]_(OneShot!vars)
  <2> DEFINE shown == IF ~timer_running THEN "off" ELSE IF IsExpired THEN "expired" ELSE "running"
  <2>. USE <1>2, HalTimerParameters DEF HalTimerTypeOK
  <2>1. CASE InitTimer \/ StopTimer
    <3>1. shown' = "off" /\ UNCHANGED report
      BY <2>1 DEF InitTimer, StopTimer, Halted
    <3>. QED BY <3>1 DEF OneShot!Next, OneShot!Stop
  <2>2. ASSUME NEW ms \in Timeouts, StartTimer(ms) PROVE OneShot!Start
    BY <2>2 DEF StartTimer, OneShot!Start
  <2>3. CASE AskTimer
    <3>1. UNCHANGED shown
      BY <2>3 DEF AskTimer, IsExpired, ElapsedNs
    <3>2. IsExpired = (shown = "expired")
      BY DEF IsExpired
    <3>3. (RemainingMs = 0) = (shown # "running")
      <4>1. CASE shown = "running"
        <5>1. timer_running /\ ~(ElapsedNs >= timer_duration_ns)
          BY <4>1 DEF IsExpired
        <5>2. timer_duration_ns - ElapsedNs \in Nat \ {0}
          BY <5>1 DEF ElapsedNs
        <5>. QED BY <4>1, <5>1, <5>2, RoundedUp DEF RemainingMs
      <4>2. CASE shown # "running"
        BY <4>2 DEF RemainingMs, IsExpired
      <4>. QED BY <4>1, <4>2
    <3>4. report' = [expired |-> shown = "expired", zero |-> shown # "running"]
      <4>1. report' = [expired |-> IsExpired, zero |-> RemainingMs = 0]
        BY <2>3 DEF AskTimer
      <4>. HIDE DEF shown
      <4>. QED BY <3>2, <3>3, <4>1, Zenon
    <3>. QED BY <3>1, <3>4 DEF OneShot!Next, OneShot!Ask, OneShot!Asked
  <2>4. CASE Tick
    <3>1. UNCHANGED <<timer_running, report>> /\ (IsExpired => IsExpired')
      BY <2>4 DEF Tick, IsExpired, ElapsedNs
    <3>. QED BY <3>1 DEF OneShot!Next, OneShot!Expire, OneShot!vars
  <2>5. CASE UNCHANGED halTimerVars
    BY <2>5 DEF halTimerVars, OneShot!vars, IsExpired, ElapsedNs
  <2>. QED BY <2>1, <2>2, <2>3, <2>4, <2>5 DEF HalTimerNext, OneShot!Next
<1>. QED
  BY <1>1, <1>2, HalTimerTypeCorrect, PTL DEF HalTimerSpec, TimerIsOneShot, OneShot!Spec

-----------------------------------------------------------------------------
(* Time stamps and the pool of contexts. *)

\* A stamp is what the clock showed when it was taken.
StampInv ==
  \A i \in PoolSlots, s \in Sides :
    stamped_at[i][s] # Never =>
      /\ stamped_at[i][s] \in 0 .. now
      /\ stamp[i][s] = stamped_at[i][s] % ClockSize

TimersInv == TimersTypeOK /\ PoolExclusive /\ StampInv

\* The clock shows one of its values.
LEMMA ClockType ==
  ASSUME TimersTypeOK
  PROVE  ClockSize \in Nat \ {0} /\ Clock \in 0 .. ClockSize - 1 /\ 0 \in 0 .. ClockSize - 1
  BY TimerParameters DEF TimersTypeOK, Clock

\* A context that is given out or taken back leaves no stamp behind.
LEMMA WipeKeepsStamps ==
  ASSUME TimersInv, NEW i \in PoolSlots, WipeSlot(i), UNCHANGED now
  PROVE  /\ stamp' \in [PoolSlots -> [Sides -> 0 .. ClockSize - 1]]
         /\ stamped_at' \in [PoolSlots -> [Sides -> Nat \cup {Never}]]
         /\ stamp'[i] = FreshStamp
         /\ \A j \in PoolSlots : j # i => stamp'[j] = stamp[j]
         /\ StampInv'
<1>. USE DEF TimersInv, TimersTypeOK
<1>1. FreshStamp \in [Sides -> 0 .. ClockSize - 1]
      /\ [s \in Sides |-> Never] \in [Sides -> Nat \cup {Never}]
  BY ClockType DEF FreshStamp
<1>2. stamp' = [stamp EXCEPT ![i] = FreshStamp]
      /\ stamped_at' = [stamped_at EXCEPT ![i] = [s \in Sides |-> Never]]
  BY DEF WipeSlot
<1>3. ASSUME NEW j \in PoolSlots, NEW s \in Sides, stamped_at'[j][s] # Never
      PROVE  /\ stamped_at'[j][s] \in 0 .. now
             /\ stamp'[j][s] = stamped_at'[j][s] % ClockSize
  <2>1. j # i
    BY <1>2, <1>3
  <2>2. stamped_at'[j] = stamped_at[j] /\ stamp'[j] = stamp[j]
    BY <1>2, <2>1
  <2>. QED BY <1>3, <2>2 DEF StampInv
<1>. QED BY <1>1, <1>2, <1>3 DEF StampInv

\* A context is created in a slot nobody has, given back by its only owner, and
\* stamped with the time its owner reads.
LEMMA TimersInvNext == TimersInv /\ [TimersNext]_timerVars => TimersInv'
<1>. SUFFICES ASSUME TimersInv, [TimersNext]_timerVars PROVE TimersInv'
  OBVIOUS
<1>. USE DEF TimersInv, TimersTypeOK, PoolExclusive
<1>1. CASE CreateCtx
  <2> DEFINE i == Min(FreeSlots)
  <2>1. i \in PoolSlots /\ ~pool_used[i]
    <3>1. FreeSlots \subseteq Nat /\ FreeSlots # {}
      BY <1>1, TimerParameters DEF CreateCtx, FreeSlots, PoolSlots
    <3>2. Min(FreeSlots) \in FreeSlots
      BY <3>1, LeastOfSet
    <3>. QED BY <3>2 DEF FreeSlots
  <2>2. WipeSlot(i) /\ UNCHANGED now
        /\ pool_used' = [pool_used EXCEPT ![i] = TRUE]
        /\ owners' = [owners EXCEPT ![i] = @ + 1]
    BY <1>1 DEF CreateCtx
  <2>. HIDE DEF i
  <2>. QED BY <2>1, <2>2, WipeKeepsStamps
<1>2. ASSUME NEW i \in PoolSlots, FreeCtx(i) PROVE TimersInv'
  <2>1. owners[i] = 1
    BY <1>2 DEF FreeCtx
  <2>2. WipeSlot(i) /\ UNCHANGED now
        /\ pool_used' = [pool_used EXCEPT ![i] = FALSE]
        /\ owners' = [owners EXCEPT ![i] = @ - 1]
    BY <1>2 DEF FreeCtx
  <2>. QED BY <2>1, <2>2, WipeKeepsStamps
<1>3. ASSUME NEW i \in PoolSlots, NEW side \in Sides, RecordTime(i, side) PROVE TimersInv'
  <2>1. /\ stamp' = [stamp EXCEPT ![i][side] = Clock]
        /\ stamped_at' = [stamped_at EXCEPT ![i][side] = now]
        /\ UNCHANGED <<pool_used, now, owners>> /\ owners[i] > 0
    BY <1>3 DEF RecordTime
  <2>2. TimersTypeOK'
    BY <2>1, ClockType
  <2>3. PoolExclusive'
    BY <2>1
  <2>4. StampInv'
    BY <2>1 DEF StampInv, Clock
  <2>. QED BY <2>2, <2>3, <2>4
<1>4. CASE TimeGoesOn
  BY <1>4 DEF TimeGoesOn, StampInv
<1>5. CASE UNCHANGED timerVars
  BY <1>5 DEF timerVars, StampInv
<1>. QED BY <1>1, <1>2, <1>3, <1>4, <1>5 DEF TimersNext

\* The invariant holds in every reachable state.
LEMMA TimersInvAlways == TimersSpec => []TimersInv
<1>1. TimersInit => TimersInv
  BY TimerParameters
  DEF TimersInit, TimersInv, TimersTypeOK, PoolExclusive, StampInv, FreshStamp, Never, PoolSlots
<1>. QED BY <1>1, TimersInvNext, PTL DEF TimersSpec

\* Stamps stay values of the clock, and the pool a pool.
THEOREM TimersTypeCorrect == TimersSpec => []TimersTypeOK
  BY TimersInvAlways, PTL DEF TimersInv

\* No slot of the pool ever has two owners, however contexts are created and
\* freed, and a free one keeps no stamp of its last owner.
THEOREM PoolAlwaysExclusive == TimersSpec => []PoolExclusive
  BY TimersInvAlways, PTL DEF TimersInv

\* Timeouts are exact across any number of wraps of the clock, for any limits
\* shorter than its turn.
THEOREM TimeoutsAlwaysExact == TimersSpec => []TimeoutExact
<1>1. TimersInv => TimeoutExact
  <2>. SUFFICES ASSUME TimersInv, NEW i \in PoolSlots, NEW type \in 0 .. 4,
                       stamped_at[i][SideOf(type)] # Never,
                       now - stamped_at[i][SideOf(type)] < ClockSize
                PROVE  TimedOut(i, type) <=> now - stamped_at[i][SideOf(type)] >= LimitOf(type)
    BY DEF TimeoutExact
  <2>. DEFINE side == SideOf(type)
              from == stamped_at[i][side]
  <2>1. side \in Sides
    BY DEF SideOf, Sides
  <2>2. from \in 0 .. now /\ stamp[i][side] = from % ClockSize /\ now \in Nat
    BY <2>1 DEF TimersInv, StampInv, TimersTypeOK
  <2>3. ((now % ClockSize) - (from % ClockSize)) % ClockSize = now - from
    <3>1. ClockSize \in Nat \ {0} /\ now - from < ClockSize /\ from \in Nat /\ from <= now
      BY <2>2, ClockType DEF TimersInv
    <3>. HIDE DEF from
    <3>. QED BY <2>2, <3>1, WrappedDifference
  <2>4. Elapsed(i, side) = now - from
    BY <2>2, <2>3 DEF Elapsed, Clock
  <2>. QED BY <2>4 DEF TimedOut
<1>. QED BY <1>1, TimersInvAlways, PTL

-----------------------------------------------------------------------------
(* The one-call encoder. *)

\* The lengths whose bytes after the FF, and whose frames, a uint8_t counts; with
\* the code's sizes, those up to 260.
LengthsFit ==
  \A n \in Lengths : n \in SFMax + 1 .. FFMax => n - FFPayload < U8 /\ CfCount(n) + 1 < U8

\* Where the loop over the CFs stands once it has written n of them.
LoopAt(n) ==
  /\ data_len \in SFMax + 1 .. FFMax
  /\ n <= CfCount(data_len) /\ CfCount(data_len) + 1 <= max_frames
  /\ Len(frames) = n + 1 /\ frame_idx = n + 1 /\ tx_seq_num = SeqAfter(n)
  /\ offset \in FFPayload .. data_len
  /\ offset < data_len => offset = FFPayload + n * CFPayload
  /\ offset = frames[n + 1].at + frames[n + 1].len

EncodedPiece == [seq : Nat, at : Nat, len : Nat]

EncodeInv ==
  /\ data_len \in Lengths /\ max_frames \in Capacities
  /\ frames \in Seq(EncodedPiece)
  /\ pc \in {"check", "PCI_ERROR"} => frames = <<>>
  /\ pc = "loop" => \E n \in Nat : LoopAt(n)
  /\ pc = "OK" => offset = data_len /\ Len(frames) = frame_idx
  /\ Len(frames) <= max_frames
  /\ PiecesFit

\* Multiplying by a number keeps the order.
LEMMA TimesKeepsOrder ==
  ASSUME NEW a \in Int, NEW b \in Int, NEW c \in Nat, a <= b
  PROVE  a * c <= b * c
<1>1. (b - a) * c >= 0
  BY SMTT(30)
<1>2. (b - a) * c = b * c - a * c
  BY SMTT(30)
<1>. QED BY <1>1, <1>2

\* A message that n CFs do not exhaust takes one more.
LEMMA CfCountBound ==
  ASSUME NEW len \in Nat, len >= FFPayload
  PROVE  /\ CfCount(len) \in Nat
         /\ \A n \in Nat : FFPayload + n * CFPayload < len => n + 1 <= CfCount(len)
<1>1. CFPayload \in Nat \ {0} /\ FFPayload \in Nat
  BY FrameParameters
<1> DEFINE a == len - FFPayload + CFPayload - 1
<1>2. a \in Nat
  BY <1>1
<1>3. PICK q \in Int, r \in 0 .. CFPayload - 1 :
        a = q * CFPayload + r /\ a \div CFPayload = q /\ a % CFPayload = r
  <2>. HIDE DEF a
  <2>1. a \in Int
    BY <1>2
  <2>. QED BY <1>1, <2>1, Division, Zenon
<1>4. CfCount(len) = q
  BY <1>3 DEF CfCount
<1>5. q * CFPayload >= len - FFPayload
  BY <1>1, <1>3
<1>6. q >= 0
  <2>1. CASE q < 0
    <3>1. q * CFPayload <= (-1) * CFPayload
      BY <1>1, <2>1, TimesKeepsOrder
    <3>2. (-1) * CFPayload < 0
      BY <1>1
    <3>. QED BY <1>1, <1>5, <3>1, <3>2
  <2>. QED BY <2>1
<1>7. ASSUME NEW n \in Nat, FFPayload + n * CFPayload < len PROVE n + 1 <= q
  <2>1. CASE q <= n
    <3>1. q * CFPayload <= n * CFPayload /\ n * CFPayload \in Int
      BY <1>1, <2>1, TimesKeepsOrder
    <3>. QED BY <1>1, <1>5, <1>7, <3>1
  <2>. QED BY <2>1
<1>. QED BY <1>4, <1>6, <1>7

\* The loop's next CF is the piece of the message that follows.
LEMMA CfKeepsEncoding ==
  ASSUME LengthsFit, EncodeInv, EncodeCF
  PROVE  EncodeInv'
<1>1. PICK n \in Nat : LoopAt(n)
  BY DEF EncodeCF, EncodeInv
<1>. DEFINE len == CfLen
            f == [seq |-> NextSeq(tx_seq_num), at |-> offset, len |-> len]
<1>2. /\ CFPayload \in Nat \ {0} /\ FFPayload \in Nat \ {0} /\ U8 \in Nat \ {0}
      /\ SFMax \in Nat /\ FFMax \in Nat /\ SeqMax \in Nat \ {0, 1} /\ FFPayload <= SFMax
  BY FrameParameters, EncodeParameters
<1>3. data_len \in Nat /\ offset \in Nat /\ offset < data_len /\ data_len - offset < U8
      /\ data_len >= FFPayload /\ CfCount(data_len) + 1 < U8
  BY <1>1, <1>2 DEF LoopAt, LengthsFit, EncodeCF, EncodeInv
<1>4. /\ len \in 1 .. data_len - offset
      /\ len = CFPayload \/ offset + len = data_len
      /\ offset + len < data_len => len = CFPayload
  <2>1. (data_len - offset) % U8 = data_len - offset
    BY <1>2, <1>3
  <2>. QED BY <1>2, <1>3, <2>1 DEF CfLen, Least
<1>. HIDE DEF len
<1>5. n + 1 <= CfCount(data_len) /\ CfCount(data_len) \in Nat
  BY <1>1, <1>2, <1>3, CfCountBound DEF LoopAt
<1>6. NextSeq(tx_seq_num) = SeqAfter(n + 1) /\ SeqAfter(n + 1) = (n % SeqMax) + 1
      /\ (n % SeqMax) + 1 \in Nat
  BY <1>1, <1>2, SeqAfterFact DEF LoopAt, SeqAfter
<1>7. f \in EncodedPiece
  BY <1>3, <1>4, <1>6 DEF EncodedPiece
<1>8. /\ frames' = Append(frames, f) /\ offset' = offset + len
      /\ frame_idx' = (frame_idx + 1) % U8 /\ tx_seq_num' = NextSeq(tx_seq_num)
      /\ pc' = "loop" /\ UNCHANGED <<data_len, max_frames>>
  BY DEF EncodeCF, Return, len
<1>9. /\ f.at = offset /\ f.len = len /\ f.seq = (n % SeqMax) + 1
  BY <1>6
<1>. HIDE DEF f
<1>10. frames \in Seq(EncodedPiece) /\ Len(frames) = n + 1
  BY <1>1 DEF LoopAt, EncodeInv
<1>11. /\ frames' \in Seq(EncodedPiece) /\ Len(frames') = n + 2
       /\ \A i \in 1 .. n + 1 : frames'[i] = frames[i]
       /\ frames'[n + 2] = f
  BY <1>7, <1>8, <1>10
<1>12. LoopAt(n + 1)'
  <2>1. frame_idx' = n + 2
    <3>1. n + 2 < U8 /\ frame_idx = n + 1
      <4>1. frame_idx = n + 1
        BY <1>1 DEF LoopAt
      <4>. QED BY <1>2, <1>3, <1>5, <4>1
    <3>2. (n + 2) % U8 = n + 2
      BY <1>2, <3>1
    <3>. QED BY <1>8, <3>1, <3>2
  <2>2. offset' < data_len => offset' = FFPayload + (n + 1) * CFPayload
    <3>. SUFFICES ASSUME offset' < data_len PROVE offset' = FFPayload + (n + 1) * CFPayload
      OBVIOUS
    <3>1. len = CFPayload /\ offset = FFPayload + n * CFPayload
      BY <1>1, <1>3, <1>4, <1>8 DEF LoopAt
    <3>2. (n + 1) * CFPayload = n * CFPayload + CFPayload
      BY <1>2
    <3>3. n * CFPayload \in Nat
      BY <1>2
    <3>. QED BY <1>2, <1>8, <3>1, <3>2, <3>3
  <2>3. offset' \in FFPayload .. data_len
    <3>1. offset >= FFPayload
      BY <1>1, <1>2, <1>3 DEF LoopAt
    <3>. QED BY <1>2, <1>3, <1>4, <1>8, <3>1
  <2>4. offset' = frames'[n + 2].at + frames'[n + 2].len
    BY <1>8, <1>9, <1>11
  <2>5. data_len' \in SFMax + 1 .. FFMax /\ CfCount(data_len') + 1 <= max_frames'
    BY <1>1, <1>8 DEF LoopAt
  <2>6. tx_seq_num' = SeqAfter(n + 1)
    BY <1>6, <1>8
  <2>. QED
    BY <1>5, <1>8, <1>11, <2>1, <2>2, <2>3, <2>4, <2>5, <2>6 DEF LoopAt
<1>13. PiecesFit'
  <2>. SUFFICES ASSUME NEW i \in 1 .. n + 2
                PROVE  LET g == frames'[i] IN
                       /\ g.at = IF i = 1 THEN 0 ELSE frames'[i - 1].at + frames'[i - 1].len
                       /\ i > 1 => g.len = CFPayload \/ (g.at + g.len = data_len /\ g.len > 0)
                       /\ i > 1 => g.seq = ((i - 2) % SeqMax) + 1
    BY <1>8, <1>11 DEF PiecesFit
  <2>1. CASE i \in 1 .. n + 1
    <3>1. frames'[i] = frames[i] /\ (i > 1 => frames'[i - 1] = frames[i - 1])
      BY <1>11, <2>1
    <3>2. /\ frames[i].at = IF i = 1 THEN 0 ELSE frames[i - 1].at + frames[i - 1].len
          /\ i > 1 => \/ frames[i].len = CFPayload
                      \/ frames[i].at + frames[i].len = data_len /\ frames[i].len > 0
          /\ i > 1 => frames[i].seq = ((i - 2) % SeqMax) + 1
      BY <1>10, <2>1 DEF EncodeInv, PiecesFit
    <3>. QED BY <3>1, <3>2
  <2>2. CASE i = n + 2
    <3>1. i > 1 /\ i # 1 /\ i - 1 = n + 1 /\ i - 2 = n
      BY <2>2
    <3>2. frames'[i] = f /\ frames'[i - 1] = frames[n + 1]
      BY <1>11, <2>2, <3>1
    <3>3. offset = frames[n + 1].at + frames[n + 1].len
      BY <1>1 DEF LoopAt
    <3>. QED BY <1>4, <1>9, <3>1, <3>2, <3>3
  <2>. QED BY <2>1, <2>2
<1>14. Len(frames') <= max_frames'
  <2>1. CfCount(data_len) + 1 <= max_frames /\ max_frames \in Int
    BY <1>1, EncodeParameters DEF LoopAt, EncodeInv
  <2>. QED BY <1>5, <1>8, <1>11, <2>1
<1>. QED BY <1>8, <1>11, <1>12, <1>13, <1>14 DEF EncodeInv

\* Every pass of the call keeps what was written in pieces of the message.
LEMMA EncodeInvNext == LengthsFit /\ EncodeInv /\ [EncodeNext]_encodeVars => EncodeInv'
<1>. SUFFICES ASSUME LengthsFit, EncodeInv, [EncodeNext]_encodeVars PROVE EncodeInv'
  OBVIOUS
<1>0. /\ CFPayload \in Nat \ {0} /\ FFPayload \in Nat \ {0} /\ U8 \in Nat \ {0}
      /\ SFMax \in Nat /\ FFMax \in Nat /\ FFPayload <= SFMax
      /\ Lengths \subseteq Nat /\ Capacities \subseteq Nat
  BY FrameParameters, EncodeParameters
<1>1. CASE RejectLength \/ RejectCapacity
  BY <1>1 DEF RejectLength, RejectCapacity, Return, EncodeInv, PiecesFit
<1>2. CASE EncodeSF
  <2> DEFINE f == [seq |-> 0, at |-> 0, len |-> data_len]
  <2>1. f \in EncodedPiece /\ f.at = 0
    BY <1>0 DEF EncodeInv, EncodedPiece
  <2>2. frames' = <<f>> /\ frame_idx' = 1 /\ offset' = data_len /\ pc' = "OK"
        /\ UNCHANGED <<data_len, max_frames>> /\ max_frames >= 1
    BY <1>2 DEF EncodeSF, Return
  <2>. HIDE DEF f
  <2>3. frames' \in Seq(EncodedPiece) /\ Len(frames') = 1 /\ frames'[1] = f
    BY <2>1, <2>2
  <2>4. PiecesFit'
    BY <2>1, <2>3 DEF PiecesFit
  <2>. QED BY <2>2, <2>3, <2>4 DEF EncodeInv
<1>3. CASE EncodeFF
  <2> DEFINE f == [seq |-> 0, at |-> 0, len |-> FFPayload]
  <2>1. f \in EncodedPiece /\ f.at = 0 /\ f.len = FFPayload
    BY <1>0 DEF EncodedPiece
  <2>2. data_len \in SFMax + 1 .. FFMax /\ data_len \in Lengths
    BY <1>3 DEF EncodeFF, EncodeInv
  <2>3. Least(FFPayload, data_len) = FFPayload /\ FFPayload <= data_len
        /\ data_len \notin 1 .. SFMax /\ data_len \in 1 .. FFMax /\ data_len \in Nat
    BY <1>0, <2>2 DEF Least
  <2>4. CfCount(data_len) \in Nat /\ CfCount(data_len) + 1 < U8
    BY <2>2, <2>3, CfCountBound DEF LengthsFit
  <2>5. Needed(data_len) = 1 + CfCount(data_len)
    BY <1>0, <2>2, <2>3, <2>4 DEF Needed
  <2>6. /\ frames' = <<f>> /\ frame_idx' = 1 /\ offset' = FFPayload /\ tx_seq_num' = 0
        /\ pc' = "loop" /\ UNCHANGED <<data_len, max_frames>>
        /\ max_frames >= 1 + CfCount(data_len)
    BY <1>3, <2>3, <2>5 DEF EncodeFF, Return
  <2>. HIDE DEF f
  <2>7. frames' \in Seq(EncodedPiece) /\ Len(frames') = 1 /\ frames'[1] = f
    BY <2>1, <2>6
  <2>8. PiecesFit'
    BY <2>1, <2>7 DEF PiecesFit
  <2>9. LoopAt(0)'
    <3>1. FFPayload = FFPayload + 0 * CFPayload /\ frames'[0 + 1] = f
      BY <1>0, <2>7
    <3>. QED BY <1>0, <2>1, <2>2, <2>3, <2>4, <2>6, <2>7, <3>1 DEF LoopAt, SeqAfter
  <2>10. Len(frames') <= max_frames'
    BY <1>0, <2>4, <2>6, <2>7 DEF EncodeInv
  <2>. QED BY <2>6, <2>7, <2>8, <2>9, <2>10 DEF EncodeInv
<1>4. CASE EncodeCF
  BY <1>4, CfKeepsEncoding
<1>5. CASE EncodeEnd
  <2>1. PICK n \in Nat : LoopAt(n)
    BY <1>5 DEF EncodeEnd, EncodeInv
  <2>2. offset = data_len /\ Len(frames) = frame_idx
    BY <1>0, <1>5, <2>1 DEF EncodeEnd, LoopAt
  <2>3. pc' = "OK" /\ UNCHANGED <<data_len, max_frames, offset, frame_idx, frames>>
    BY <1>5 DEF EncodeEnd, Return
  <2>. QED BY <2>2, <2>3 DEF EncodeInv, PiecesFit
<1>6. CASE UNCHANGED encodeVars
  BY <1>6 DEF encodeVars, EncodeInv, PiecesFit, LoopAt
<1>. QED BY <1>1, <1>2, <1>3, <1>4, <1>5, <1>6 DEF EncodeNext

\* The invariant holds in every reachable state.
LEMMA EncodeInvAlways == ASSUME LengthsFit PROVE EncodeSpec => []EncodeInv
<1>1. EncodeInit => EncodeInv
  BY EncodeParameters DEF EncodeInit, EncodeInv, PiecesFit
<1>2. EncodeInv /\ [EncodeNext]_encodeVars => EncodeInv'
  BY EncodeInvNext
<1>. QED BY <1>1, <1>2, PTL DEF EncodeSpec

\* The frames lin_tx_encode_ctx writes are the consecutive pieces of the message,
\* every CF but the last full and numbered in turn, for any message whose bytes
\* after the FF its uint8_t variables can count.
THEOREM PiecesAlwaysFit == ASSUME LengthsFit PROVE EncodeSpec => []PiecesFit
<1>1. EncodeInv => PiecesFit
  BY DEF EncodeInv
<1>. QED BY <1>1, EncodeInvAlways, PTL

\* Such a call never writes beyond the caller's array, and one that returns
\* LIN_OK has written the whole message in as many frames as it reports.
THEOREM EncodesWhole ==
  ASSUME LengthsFit
  PROVE  EncodeSpec => /\ [](pc = "OK" => offset = data_len /\ Len(frames) = frame_idx)
                       /\ [](Len(frames) <= max_frames)
<1>1. EncodeInv => /\ pc = "OK" => offset = data_len /\ Len(frames) = frame_idx
                   /\ Len(frames) <= max_frames
  BY DEF EncodeInv
<1>. QED BY <1>1, EncodeInvAlways, PTL

-----------------------------------------------------------------------------
(* The UART. *)

\* The history and the queues are bytes too; a receive call that is not running
\* has nothing.
UartInv ==
  /\ UartTypeOK
  /\ wanted \in Nat
  /\ line_in \in Seq(UartBytes) /\ line_out \in Seq(UartBytes)
  /\ arrived \in Seq(UartBytes) /\ handed \in Seq(UartBytes) /\ given \in Seq(UartBytes)
  /\ system_call \notin {"select", "read"} => got = <<>>
  /\ StreamConserved

\* What was sent and what is left are next to each other.
LEMMA UartSplit ==
  ASSUME NEW s \in Seq(UartBytes), NEW a \in Nat, NEW k \in Nat, a + k <= Len(s)
  PROVE  SubSeq(s, a + 1, a + k) \o SubSeq(s, a + k + 1, Len(s)) = SubSeq(s, a + 1, Len(s))
<1>1. /\ a + 1 \in 1 .. Len(s) + 1 /\ a + k \in (a + 1) - 1 .. Len(s)
      /\ Len(s) \in a + k .. Len(s)
  OBVIOUS
<1>. QED BY <1>1, ConcatAdjacentSubSeq, Zenon

\* What read() delivers goes from the driver's queue to the call, or to its
\* caller, in order.
LEMMA ReadKeepsUart ==
  ASSUME UartInv, NEW k \in 1 .. MaxBytes, ReadSome(k)
  PROVE  UartInv'
<1> DEFINE head == SubSeq(line_in, 1, k)
           tail == SubSeq(line_in, k + 1, Len(line_in))
           now_got == got \o head
<1>. USE DEF UartInv, UartTypeOK
<1>1. k \in 1 .. Len(line_in) /\ k <= wanted - Len(got) /\ system_call = "read"
  BY DEF ReadSome, ReadCount
<1>2. /\ head \in Seq(UartBytes) /\ Len(head) = k
      /\ tail \in Seq(UartBytes)
      /\ head \o tail = line_in
  <2>1. head \in Seq(UartBytes) /\ Len(head) = k /\ tail \in Seq(UartBytes)
    BY <1>1
  <2>2. SubSeq(line_in, 1, k) \o SubSeq(line_in, k + 1, Len(line_in))
          = SubSeq(line_in, 1, Len(line_in))
    BY <1>1, ConcatAdjacentSubSeq
  <2>3. SubSeq(line_in, 1, Len(line_in)) = line_in
    BY SubSeqFull
  <2>. QED BY <2>1, <2>2, <2>3
<1>3. now_got \in Seq(UartBytes) /\ Len(now_got) = Len(got) + k /\ Len(now_got) <= wanted
  <2>. HIDE DEF head
  <2>1. got \in Seq(UartBytes) /\ head \in Seq(UartBytes)
    BY <1>2
  <2>2. now_got \in Seq(UartBytes) /\ Len(now_got) = Len(got) + Len(head)
    BY <2>1
  <2>. HIDE DEF now_got
  <2>. QED BY <1>1, <1>2, <2>1, <2>2
<1>4. (handed \o now_got) \o tail = handed \o got \o line_in
  <2>0. /\ handed \in Seq(UartBytes) /\ got \in Seq(UartBytes) /\ head \in Seq(UartBytes)
        /\ tail \in Seq(UartBytes) /\ handed \o got \in Seq(UartBytes) /\ head \o tail = line_in
    BY <1>2
  <2>. HIDE DEF head, tail, UartInv, UartTypeOK
  <2>3. \A x, y, z \in Seq(UartBytes) : (x \o y) \o z = x \o (y \o z)
    BY ConcatAssociative
  <2>1. handed \o now_got = (handed \o got) \o head
    BY <2>0, <2>3
  <2>2. ((handed \o got) \o head) \o tail = (handed \o got) \o (head \o tail)
    BY <2>0, <2>3
  <2>. HIDE DEF now_got
  <2>. QED BY <2>0, <2>1, <2>2, Zenon
<1>5. line_in' = tail /\ UNCHANGED <<uart_open, wanted, sending, total, line_out, given, arrived, lossy>>
  BY DEF ReadSome, sendVars
<1>6. CASE Len(now_got) < wanted
  <2>1. system_call' = "select" /\ got' = now_got /\ UNCHANGED <<uart_status, handed>>
    BY <1>6 DEF ReadSome
  <2>. HIDE DEF now_got, tail
  <2>2. StreamConserved'
    BY <1>1, <1>4, <1>5, <2>1 DEF StreamConserved, Unsent
  <2>3. UartTypeOK'
    BY <1>3, <1>5, <2>1
  <2>. QED BY <1>2, <1>3, <1>5, <2>1, <2>2, <2>3
<1>7. CASE ~(Len(now_got) < wanted)
  <2>1. SubSeq(now_got, 1, wanted) = now_got
    <3>1. Len(now_got) = wanted
      <4>1. now_got \in Seq(UartBytes) /\ Len(now_got) <= wanted /\ ~(Len(now_got) < wanted)
        BY <1>3, <1>7
      <4>. HIDE DEF now_got
      <4>. QED BY <4>1
    <3>2. SubSeq(now_got, 1, Len(now_got)) = now_got
      <4>. HIDE DEF now_got
      <4>. QED BY <1>3, SubSeqFull
    <3>. QED BY <3>1, <3>2, Zenon
  <2>2. /\ uart_status' = "OK" /\ system_call' = "none" /\ got' = <<>>
        /\ handed' = handed \o SubSeq(now_got, 1, wanted)
    BY <1>7 DEF ReadSome, ReturnReceived
  <2>3. handed' = handed \o now_got /\ handed' \in Seq(UartBytes)
    <3>1. handed' = handed \o now_got /\ now_got \in Seq(UartBytes)
      BY <1>3, <2>1, <2>2, Zenon
    <3>. HIDE DEF now_got
    <3>. QED BY <3>1
  <2>. HIDE DEF now_got, tail
  <2>4. handed' \o got' \o line_in' = (handed \o now_got) \o tail
    BY <1>5, <2>2, <2>3, ConcatEmptySeq
  <2>5. StreamConserved'
    BY <1>1, <1>4, <1>5, <2>2, <2>4 DEF StreamConserved, Unsent
  <2>6. UartTypeOK'
    BY <1>5, <2>2
  <2>. QED BY <1>2, <1>5, <2>2, <2>3, <2>5, <2>6
<1>. QED BY <1>6, <1>7

\* What write() takes is the next of what is left.
LEMMA WriteKeepsUart ==
  ASSUME UartInv, NEW k \in 0 .. MaxBytes, WriteSome(k)
  PROVE  UartInv'
<1>. USE DEF UartInv, UartTypeOK
<1> DEFINE n == Len(sending)
           rest == SubSeq(sending, total + k + 1, n)
           part == SubSeq(Unsent, 1, k)
<1>1. /\ system_call = "write" /\ total \in 0 .. n - 1 /\ k \in 0 .. n - total /\ n \in Nat
      /\ line_out' = line_out \o part /\ total' = total + k
      /\ UNCHANGED <<uart_open, system_call, uart_status, wanted, got, line_in, handed,
                     sending, given, arrived, lossy>>
  BY DEF WriteSome, receiveVars
<1>2. Unsent \in Seq(UartBytes) /\ Len(Unsent) = n - total
      /\ part \in Seq(UartBytes) /\ rest \in Seq(UartBytes)
  BY <1>1 DEF Unsent
<1>3. part = SubSeq(sending, total + 1, total + k)
  BY <1>1 DEF Unsent
<1>4. part \o rest = Unsent
  <2>1. SubSeq(sending, total + 1, total + k) \o SubSeq(sending, total + k + 1, n)
          = SubSeq(sending, total + 1, n)
    <3>1. total \in Nat /\ k \in Nat /\ total + k <= Len(sending) /\ sending \in Seq(UartBytes)
      BY <1>1
    <3>. QED BY <3>1, UartSplit, Zenon
  <2>. QED BY <1>3, <2>1 DEF Unsent
<1>5. Unsent' = rest
  BY <1>1 DEF Unsent
<1>. HIDE DEF part, rest
<1>6. (line_out \o part) \o rest = line_out \o Unsent
  <2>1. line_out \in Seq(UartBytes) /\ part \in Seq(UartBytes) /\ rest \in Seq(UartBytes)
    BY <1>2
  <2>. HIDE DEF UartInv, UartTypeOK
  <2>2. \A x, y, z \in Seq(UartBytes) : (x \o y) \o z = x \o (y \o z)
    BY ConcatAssociative
  <2>. QED BY <1>4, <2>1, <2>2
<1>7. StreamConserved'
  BY <1>1, <1>5, <1>6 DEF StreamConserved
<1>8. UartTypeOK'
  BY <1>1
<1>. QED BY <1>1, <1>2, <1>7, <1>8

\* Every system call, and every byte that arrives meanwhile, keeps the streams.
LEMMA UartInvNext == UartInv /\ [UartNext]_uartVars => UartInv'
<1>. SUFFICES ASSUME UartInv, [UartNext]_uartVars PROVE UartInv'
  OBVIOUS
<1>. USE DEF UartInv, UartTypeOK
<1>1. CASE OpenUart
  BY <1>1 DEF OpenUart, receiveVars, sendVars, StreamConserved, Unsent
<1>2. ASSUME NEW b \in UartBytes, Arrive(b) PROVE UartInv'
  <2>1. /\ line_in' = Append(line_in, b) /\ arrived' = Append(arrived, b)
        /\ UNCHANGED <<uart_open, system_call, uart_status, wanted, got, handed,
                       sending, total, line_out, given, lossy>>
    BY <1>2 DEF Arrive, sendVars
  <2>2. Append(line_in, b) = line_in \o <<b>> /\ Append(arrived, b) = arrived \o <<b>>
        /\ <<b>> \in Seq(UartBytes) /\ handed \o got \in Seq(UartBytes)
    BY AppendIsConcat
  <2>3. ((handed \o got) \o line_in) \o <<b>> = (handed \o got) \o (line_in \o <<b>>)
    <3>1. line_in \in Seq(UartBytes)
      OBVIOUS
    <3>. HIDE DEF UartInv, UartTypeOK
    <3>2. \A x, y, z \in Seq(UartBytes) : (x \o y) \o z = x \o (y \o z)
      BY ConcatAssociative
    <3>. QED BY <2>2, <3>1, <3>2
  <2>4. StreamConserved'
    BY <2>1, <2>2, <2>3 DEF StreamConserved, Unsent
  <2>. QED BY <2>1, <2>2, <2>4
<1>3. ASSUME NEW n \in Wanted, Receive(n) PROVE UartInv'
  <2>1. /\ UNCHANGED <<uart_open, line_in, handed, sending, total, line_out, given, arrived, lossy>>
        /\ system_call = "none" /\ system_call' \in {"none", "select"}
        /\ uart_status' \in {uart_status, "OK", "ERROR"}
        /\ got' = <<>> /\ wanted' \in Nat
    BY <1>3, UartParameters DEF Receive, sendVars
  <2>2. got = <<>>
    BY <2>1
  <2>3. StreamConserved'
    BY <2>1, <2>2 DEF StreamConserved, Unsent
  <2>. QED BY <2>1, <2>3
<1>4. CASE SelectReady
  BY <1>4 DEF SelectReady, receiveVars, sendVars, StreamConserved, Unsent
<1>5. CASE SelectTimeout
  <2>1. /\ UNCHANGED <<uart_open, wanted, line_in, sending, total, line_out, given, arrived, lossy>>
        /\ system_call = "select" /\ system_call' = "none"
        /\ uart_status' \in {"OK", "TIMEOUT"} /\ got' = <<>>
        /\ handed' = handed \o (IF TimedOutStatus = "OK" THEN got ELSE <<>>)
    BY <1>5 DEF SelectTimeout, ReturnReceived, sendVars, TimedOutStatus
  <2>2. handed' = handed \o got
    BY <2>1 DEF TimedOutStatus
  <2>3. handed' \in Seq(UartBytes) /\ handed' \o got' = handed \o got
    BY <2>1, <2>2, ConcatEmptySeq
  <2>4. StreamConserved'
    BY <2>1, <2>3 DEF StreamConserved, Unsent
  <2>. QED BY <2>1, <2>3, <2>4
<1>6. CASE ReceiveFails
  <2>1. /\ UNCHANGED <<uart_open, wanted, line_in, sending, total, line_out, given, arrived>>
        /\ system_call \in {"select", "read"} /\ system_call' = "none"
        /\ uart_status' = "ERROR" /\ got' = <<>> /\ handed' = handed \o <<>>
        /\ lossy' = (lossy \/ got # <<>>)
    BY <1>6 DEF ReceiveFails, ReturnReceived, sendVars
  <2>2. handed' = handed
    BY <2>1, ConcatEmptySeq
  <2>3. lossy' \in BOOLEAN
    BY <2>1
  <2>4. ~lossy' => ~lossy /\ got = <<>>
    BY <2>1
  <2>5. StreamConserved'
    BY <2>1, <2>2, <2>4 DEF StreamConserved, Unsent
  <2>. QED BY <2>1, <2>2, <2>3, <2>5
<1>7. ASSUME NEW d \in Outgoing, Send(d) PROVE UartInv'
  <2>1. d \in Seq(UartBytes)
    BY UartParameters
  <2>2. CASE uart_open
    <3>1. /\ system_call' = "write" /\ sending' = d /\ total' = 0 /\ given' = given \o d
          /\ UNCHANGED <<uart_open, uart_status, wanted, got, line_in, handed, line_out, arrived, lossy>>
          /\ system_call = "none"
      BY <1>7, <2>2 DEF Send, receiveVars
    <3>2. Unsent' = SubSeq(d, 1, Len(d))
      BY <3>1 DEF Unsent
    <3>3. Unsent' = d
      BY <2>1, <3>2, SubSeqFull
    <3>4. given = line_out \o <<>> => given = line_out
      BY ConcatEmptySeq
    <3>5. StreamConserved'
      BY <3>1, <3>3, <3>4 DEF StreamConserved
    <3>. QED BY <2>1, <3>1, <3>5
  <2>3. CASE ~uart_open
    BY <1>7, <2>3 DEF Send, receiveVars, StreamConserved, Unsent
  <2>. QED BY <2>2, <2>3
<1>8. CASE SendEnds
  <2>1. /\ system_call = "write" /\ total = Len(sending)
        /\ system_call' = "none" /\ uart_status' = "OK"
        /\ UNCHANGED <<uart_open, wanted, got, line_in, handed, sending, total, line_out, given,
                       arrived, lossy>>
    BY <1>8 DEF SendEnds, receiveVars, sendVars
  <2>2. Unsent = <<>>
    BY <2>1 DEF Unsent
  <2>3. StreamConserved'
    BY <2>1, <2>2 DEF StreamConserved
  <2>. QED BY <2>1, <2>3
<1>9. CASE SendFails
  BY <1>9 DEF SendFails, receiveVars, sendVars, StreamConserved
<1>10. CASE UNCHANGED uartVars
  BY <1>10 DEF uartVars, receiveVars, sendVars, StreamConserved, Unsent
<1>. QED
  BY <1>1, <1>2, <1>3, <1>4, <1>5, <1>6, <1>7, <1>8, <1>9, <1>10, ReadKeepsUart, WriteKeepsUart
  DEF UartNext

\* The invariant holds in every reachable state.
LEMMA UartInvAlways == UartSpec => []UartInv
<1>1. UartInit => UartInv
  <2>. SUFFICES ASSUME UartInit PROVE UartInv
    OBVIOUS
  <2>1. <<>> \in Seq(UartBytes) /\ Len(<<>>) = 0 /\ <<>> \o <<>> \o <<>> = <<>>
    OBVIOUS
  <2>2. UartTypeOK
    <3>1. UartInit => /\ got = <<>> /\ sending = <<>> /\ total = 0 /\ wanted = 0
                      /\ uart_open = FALSE /\ lossy = FALSE /\ system_call = "none"
                      /\ uart_status = "OK"
      BY DEF UartInit
    <3>2. 0 \in 0 .. Len(<<>>) /\ Len(<<>>) <= 0
      BY <2>1
    <3>. QED BY <2>1, <3>1, <3>2, Zenon DEF UartTypeOK
  <2>3. StreamConserved
    BY <2>1 DEF UartInit, StreamConserved
  <2>. QED BY <2>1, <2>2, <2>3 DEF UartInit, UartInv
<1>. QED BY <1>1, UartInvNext, PTL DEF UartSpec

\* A receive call never has more bytes than it was asked for, and a send call
\* never counts beyond what it was given.
THEOREM UartTypeCorrect == UartSpec => []UartTypeOK
  BY UartInvAlways, PTL DEF UartInv

\* No byte is lost, repeated or moved, in either direction, for any sizes of the
\* system calls' answers and any timeouts; unless a system call fails half way.
THEOREM StreamAlwaysConserved == UartSpec => []StreamConserved
  BY UartInvAlways, PTL DEF UartInv

-----------------------------------------------------------------------------
(* The non-volatile memory. *)

JobType == [op : {"none", "open", "write", "erase"}, from : Nat, at : Nat,
            data : Seq(NvmBytes), left : Seq(NvmBytes), skipped : BOOLEAN]

\* The loop that fills up the file works at its end.
FillingUp ==
  /\ nvm_job.op = "open" /\ ~nvm_initialised
  /\ nvm_job.at = Len(nvm_file) /\ nvm_job.at + Len(nvm_job.left) = NvmSize
  /\ \A k \in 1 .. Len(nvm_job.left) : nvm_job.left[k] = FreshByte

\* The loop of a write or an erasure stands at a place in its data; what lies
\* before it is in the file, unless a byte was passed over.
Writing ==
  /\ nvm_job.op \in {"write", "erase"} /\ nvm_initialised
  /\ nvm_job.from + Len(nvm_job.data) <= NvmSize
  /\ nvm_job.from <= nvm_job.at
  /\ nvm_job.at + Len(nvm_job.left) = nvm_job.from + Len(nvm_job.data)
  /\ \A k \in 1 .. Len(nvm_job.left) :
       nvm_job.left[k] = nvm_job.data[nvm_job.at - nvm_job.from + k]
  /\ \A k \in 1 .. Len(nvm_job.data) : nvm_job.data[k] \in may_hold[nvm_job.from + k - 1]
  /\ ~nvm_job.skipped =>
       \A k \in 1 .. nvm_job.at - nvm_job.from : nvm_file[nvm_job.from + k] = nvm_job.data[k]
  /\ nvm_read.data = <<>>

\* What a file that is too short does not have yet may be what it is filled with.
FileInv ==
  /\ \A k \in 1 .. Len(nvm_file) : nvm_file[k] \in may_hold[k - 1]
  /\ \A x \in NvmRange : x >= Len(nvm_file) => FreshByte \in may_hold[x]

ReadInv ==
  /\ nvm_read.data \in Seq(NvmBytes) /\ nvm_read.at \in Nat
  /\ nvm_read.at + Len(nvm_read.data) <= NvmSize
  /\ \A k \in 1 .. Len(nvm_read.data) : nvm_read.data[k] \in may_hold[nvm_read.at + k - 1]

NvmInv ==
  /\ NvmTypeOK /\ FileInv /\ ReadInv
  /\ nvm_job \in JobType
  /\ nvm_job = NoJob \/ FillingUp \/ Writing

\* One byte value repeated.
LEMMA RepeatedFact ==
  ASSUME NEW b \in NvmBytes, NEW n \in Nat
  PROVE  /\ Repeated(b, n) \in Seq(NvmBytes) /\ Len(Repeated(b, n)) = n
         /\ \A k \in 1 .. n : Repeated(b, n)[k] = b
  BY DEF Repeated

\* No job has nothing left to do.
LEMMA NoJobFact ==
  /\ NoJob \in JobType /\ NoJob.op = "none" /\ NoJob.left = <<>>
  /\ nvm_job = NoJob => ~FillingUp /\ ~Writing
<1>1. NoJob = [op |-> "none", from |-> 0, at |-> 0, data |-> <<>>, left |-> <<>>, skipped |-> FALSE]
  BY DEF NoJob, Job
<1>2. <<>> \in Seq(NvmBytes)
  OBVIOUS
<1>3. NoJob \in JobType
  BY <1>1, <1>2 DEF JobType
<1>. QED BY <1>1, <1>3 DEF FillingUp, Writing

\* Where no job runs and the file stays, only what may be read matters.
LEMMA IdleKeepsNvm ==
  ASSUME NvmInv, UNCHANGED <<nvm_file, may_hold>>, nvm_job' = NoJob, ReadInv',
         nvm_initialised' \in {FALSE, nvm_initialised}, nvm_status' \in {nvm_status, "OK", "ERROR"}
  PROVE  NvmInv'
<1>1. NvmTypeOK'
  <2>1. nvm_initialised' => nvm_initialised
    OBVIOUS
  <2>2. nvm_initialised' \in BOOLEAN
    BY DEF NvmInv, NvmTypeOK
  <2>. QED BY <2>1, <2>2 DEF NvmInv, NvmTypeOK
<1>2. FileInv'
  BY DEF NvmInv, FileInv
<1>. QED BY <1>1, <1>2, NoJobFact DEF NvmInv

\* hal_nvm_init goes to fill up what the file lacks.
LEMMA OpenKeepsNvm == ASSUME NvmInv, NvmOpen PROVE NvmInv'
<1>. DEFINE n == NvmSize - Len(nvm_file)
            d == Repeated(FreshByte, n)
<1>0. UNCHANGED <<nvm_initialised, nvm_file, nvm_read, may_hold>> /\ nvm_job = NoJob
  BY DEF NvmOpen
<1>1. ReadInv' /\ NvmTypeOK' /\ FileInv'
  <2>1. nvm_status' \in {nvm_status, "OK", "ERROR"}
    BY DEF NvmOpen
  <2>. QED BY <1>0, <2>1 DEF NvmInv, NvmTypeOK, ReadInv, FileInv
<1>2. CASE UNCHANGED nvm_job
  BY <1>0, <1>1, <1>2, NoJobFact DEF NvmInv
<1>3. CASE ~nvm_initialised /\ nvm_job' = Job("open", Len(nvm_file), d)
  <2>1. n \in Nat /\ Len(nvm_file) \in Nat
    BY NvmParameters DEF NvmInv, NvmTypeOK
  <2>2. d \in Seq(NvmBytes) /\ Len(d) = n /\ \A k \in 1 .. n : d[k] = FreshByte
    <3>. HIDE DEF n
    <3>. QED BY <2>1, RepeatedFact, NvmParameters
  <2>. HIDE DEF d
  <2>3. nvm_job' = [op |-> "open", from |-> Len(nvm_file), at |-> Len(nvm_file), data |-> d,
                    left |-> d, skipped |-> FALSE]
    BY <1>3 DEF Job
  <2>4. nvm_job' \in JobType
    BY <2>1, <2>2, <2>3 DEF JobType
  <2>5. FillingUp'
    BY <1>0, <1>3, <2>1, <2>2, <2>3, NvmParameters DEF FillingUp
  <2>. QED BY <1>1, <2>4, <2>5 DEF NvmInv
<1>. QED BY <1>2, <1>3 DEF NvmOpen

\* A read returns what the file holds.
LEMMA ReadKeepsNvm ==
  ASSUME NvmInv, NEW a \in Nat, NEW n \in Nat, NvmRead(a, n)
  PROVE  NvmInv'
<1>1. nvm_job' = NoJob /\ UNCHANGED <<nvm_initialised, nvm_file, may_hold>>
      /\ nvm_status' \in {"OK", "ERROR"}
  BY DEF NvmRead
<1>2. ReadInv'
  <2>1. CASE NvmRefused(a, n)
    BY <1>1, <2>1 DEF NvmRead, NvmInv, ReadInv
  <2>2. CASE ~NvmRefused(a, n)
    <3> DEFINE d == [k \in 1 .. n |-> ByteAt(a + k - 1)]
    <3>1. nvm_read' = [at |-> a, data |-> d]
      BY <2>2 DEF NvmRead
    <3>2. a + n <= NvmSize /\ Len(nvm_file) = NvmSize /\ nvm_file \in Seq(NvmBytes)
      BY <2>2 DEF NvmRefused, InRange, NvmInv, NvmTypeOK
    <3>3. ASSUME NEW k \in 1 .. n
          PROVE  d[k] \in NvmBytes /\ d[k] \in may_hold[a + k - 1]
      <4>1. a + k \in 1 .. Len(nvm_file) /\ (a + k) - 1 = a + k - 1 /\ (a + k - 1) + 1 = a + k
            /\ a + k - 1 < Len(nvm_file)
        BY <3>2
      <4>2. d[k] = nvm_file[a + k]
        BY <4>1 DEF ByteAt
      <4>3. nvm_file[a + k] \in may_hold[(a + k) - 1]
        BY <4>1 DEF NvmInv, FileInv
      <4>. QED BY <3>2, <4>1, <4>2, <4>3
    <3>4. d \in Seq(NvmBytes) /\ Len(d) = n
      <4>1. \A k \in 1 .. n : d[k] \in NvmBytes
        BY <3>3
      <4>2. DOMAIN d = 1 .. n /\ d = [k \in 1 .. n |-> d[k]]
        OBVIOUS
      <4>. HIDE DEF d
      <4>. QED BY <4>1, <4>2
    <3>. HIDE DEF d
    <3>5. nvm_read'.at = a /\ nvm_read'.data = d
      BY <3>1
    <3>. QED BY <1>1, <3>2, <3>3, <3>4, <3>5 DEF ReadInv
  <2>. QED BY <2>1, <2>2
<1>. QED BY <1>1, <1>2, IdleKeepsNvm

\* A write or an erasure begins: its bytes may be found from now on.
LEMMA BeginKeepsNvm ==
  ASSUME NvmInv, NEW op \in {"write", "erase"}, NEW a \in Nat, NEW d \in Seq(NvmBytes),
         NvmBegin(op, a, d)
  PROVE  NvmInv'
<1>1. UNCHANGED <<nvm_initialised, nvm_file>> /\ nvm_job = NoJob
      /\ nvm_read' = [at |-> 0, data |-> <<>>]
  BY DEF NvmBegin
<1>2. nvm_read'.at = 0 /\ nvm_read'.data = <<>> /\ <<>> \in Seq(NvmBytes) /\ Len(<<>>) = 0
  BY <1>1
<1>3. ReadInv'
  BY <1>2, NvmParameters DEF ReadInv
<1>4. CASE NvmRefused(a, Len(d))
  BY <1>1, <1>3, <1>4, IdleKeepsNvm DEF NvmBegin
<1>5. CASE ~NvmRefused(a, Len(d))
  <2>1. /\ nvm_initialised /\ a + Len(d) <= NvmSize /\ Len(d) \in Nat
        /\ UNCHANGED nvm_status
    BY <1>5 DEF NvmRefused, InRange, NvmBegin
  <2>2. nvm_job' = [op |-> op, from |-> a, at |-> a, data |-> d, left |-> d, skipped |-> FALSE]
    BY <1>5 DEF NvmBegin, Job
  <2>3. may_hold' = [x \in NvmRange |->
          IF x - a \in 0 .. Len(d) - 1 THEN may_hold[x] \cup {d[x - a + 1]} ELSE may_hold[x]]
    BY <1>5 DEF NvmBegin, NvmInv, NvmTypeOK
  <2>4. \A x \in NvmRange : x - a \in 0 .. Len(d) - 1 => d[x - a + 1] \in NvmBytes
    BY <2>1 DEF NvmRange
  <2>5. NvmTypeOK'
    BY <1>1, <2>1, <2>3, <2>4 DEF NvmInv, NvmTypeOK
  <2>6. \A x \in NvmRange : may_hold[x] \subseteq may_hold'[x]
    BY <2>3
  <2>7. FileInv'
    <3>1. \A k \in 1 .. Len(nvm_file) : k - 1 \in NvmRange
      BY NvmParameters DEF NvmRange, NvmInv, NvmTypeOK
    <3>. QED BY <1>1, <2>6, <3>1 DEF NvmInv, FileInv
  <2>8. \A k \in 1 .. Len(d) : d[k] \in may_hold'[a + k - 1]
    <3>. TAKE k \in 1 .. Len(d)
    <3>1. a + k - 1 \in NvmRange /\ (a + k - 1) - a \in 0 .. Len(d) - 1 /\ (a + k - 1) - a + 1 = k
      BY <2>1, NvmParameters DEF NvmRange
    <3>. QED BY <2>3, <3>1
  <2>9. nvm_job' \in JobType
    BY <2>2 DEF JobType
  <2>10. Writing'
    BY <1>1, <1>2, <2>1, <2>2, <2>8 DEF Writing
  <2>. QED BY <1>3, <2>5, <2>7, <2>9, <2>10 DEF NvmInv
<1>. QED BY <1>4, <1>5

\* A loop moved on by some of its bytes.
LEMMA AdvancedFact ==
  ASSUME nvm_job \in JobType, NEW k \in 1 .. Len(nvm_job.left), NEW skips \in BOOLEAN,
         nvm_job' = Advanced(k, skips)
  PROVE  /\ nvm_job' \in JobType
         /\ nvm_job'.op = nvm_job.op /\ nvm_job'.from = nvm_job.from
         /\ nvm_job'.data = nvm_job.data /\ nvm_job'.at = nvm_job.at + k
         /\ nvm_job'.skipped = (nvm_job.skipped \/ skips)
         /\ Len(nvm_job'.left) = Len(nvm_job.left) - k
         /\ \A i \in 1 .. Len(nvm_job'.left) : nvm_job'.left[i] = nvm_job.left[k + i]
<1>. DEFINE l == nvm_job.left
            rest == SubSeq(l, k + 1, Len(l))
<1>1. l \in Seq(NvmBytes) /\ nvm_job.at + k \in Nat /\ nvm_job.skipped \in BOOLEAN
  BY DEF JobType
<1>2. rest \in Seq(NvmBytes) /\ Len(rest) = Len(l) - k
      /\ \A i \in 1 .. Len(rest) : rest[i] = l[k + i]
  BY <1>1
<1>3. /\ nvm_job' = [nvm_job EXCEPT !.at = nvm_job.at + k, !.left = rest,
                                    !.skipped = nvm_job.skipped \/ skips]
  BY DEF Advanced
<1>4. (nvm_job.skipped \/ skips) \in BOOLEAN
  OBVIOUS
<1>. HIDE DEF rest
<1>5. nvm_job'.left = rest
  BY <1>3 DEF JobType
<1>6. nvm_job' \in JobType
  BY <1>1, <1>2, <1>3, <1>4 DEF JobType
<1>7. nvm_job'.skipped = (nvm_job.skipped \/ skips)
  BY <1>3 DEF JobType
<1>8. /\ nvm_job'.op = nvm_job.op /\ nvm_job'.from = nvm_job.from
      /\ nvm_job'.data = nvm_job.data /\ nvm_job'.at = nvm_job.at + k
  BY <1>3 DEF JobType
<1>. QED BY <1>2, <1>5, <1>6, <1>7, <1>8

\* The file after a write that leaves no gap.
LEMMA WrittenFact ==
  ASSUME NvmTypeOK, NEW d \in Seq(NvmBytes), NEW a \in 0 .. Len(nvm_file)
  PROVE  /\ Written(a, d) \in Seq(NvmBytes)
         /\ Len(Written(a, d)) =
              IF a + Len(d) > Len(nvm_file) THEN a + Len(d) ELSE Len(nvm_file)
         /\ \A j \in 1 .. Len(Written(a, d)) :
              Written(a, d)[j] = IF j - a \in 1 .. Len(d) THEN d[j - a] ELSE nvm_file[j]
<1>. DEFINE n == IF a + Len(d) > Len(nvm_file) THEN a + Len(d) ELSE Len(nvm_file)
            w == [j \in 1 .. n |-> IF j - a \in 1 .. Len(d) THEN d[j - a] ELSE ByteAt(j - 1)]
<1>1. n \in Nat /\ Len(d) \in Nat /\ Len(nvm_file) \in Nat /\ nvm_file \in Seq(NvmBytes)
  BY DEF NvmTypeOK
<1>2. ASSUME NEW j \in 1 .. n
      PROVE  /\ w[j] \in NvmBytes
             /\ w[j] = IF j - a \in 1 .. Len(d) THEN d[j - a] ELSE nvm_file[j]
  <2>1. CASE j - a \in 1 .. Len(d)
    BY <2>1
  <2>2. CASE j - a \notin 1 .. Len(d)
    <3>1. j \in 1 .. Len(nvm_file)
      BY <1>1, <2>2
    <3>2. j - 1 < Len(nvm_file) /\ (j - 1) + 1 = j
      BY <1>1, <3>1
    <3>3. ByteAt(j - 1) = nvm_file[j]
      BY <3>2 DEF ByteAt
    <3>4. w[j] = ByteAt(j - 1)
      BY <2>2
    <3>. QED BY <1>1, <2>2, <3>1, <3>3, <3>4
  <2>. QED BY <2>1, <2>2
<1>3. Written(a, d) = w
  BY DEF Written
<1>4. w = [j \in 1 .. n |-> w[j]] /\ DOMAIN w = 1 .. n
  OBVIOUS
<1>5. \A j \in 1 .. n : w[j] \in NvmBytes
  BY <1>2
<1>6. w \in Seq(NvmBytes) /\ Len(w) = n
  <2>. HIDE DEF n, w
  <2>. QED BY <1>1, <1>4, <1>5
<1>. QED BY <1>2, <1>3, <1>6

\* One system call of a loop puts its next bytes where they belong.
LEMMA StepKeepsNvm ==
  ASSUME NvmInv, NEW k \in 1 .. NvmSize, NvmStep(k)
  PROVE  NvmInv'
<1>. DEFINE l == nvm_job.left
            a == nvm_job.at
            d == SubSeq(l, 1, k)
            length == Len(nvm_file)
<1>1. /\ nvm_job \in JobType /\ l \in Seq(NvmBytes) /\ a \in Nat /\ Len(l) \in Nat
      /\ k \in 1 .. Len(l) /\ nvm_file \in Seq(NvmBytes) /\ length \in Nat /\ NvmSize \in Nat
  BY NvmParameters DEF NvmStep, NvmInv, NvmTypeOK, JobType
<1>2. /\ nvm_file' = Written(a, d) /\ nvm_job' = Advanced(k, FALSE)
      /\ UNCHANGED <<nvm_initialised, nvm_status, nvm_read, may_hold>>
  BY DEF NvmStep, WriteAt
<1>3. FillingUp \/ Writing
  BY <1>1, NoJobFact DEF NvmInv, NvmStep
<1>4. a \in 0 .. length /\ a + Len(l) <= NvmSize /\ length <= NvmSize
  BY <1>1, <1>3 DEF FillingUp, Writing, NvmInv, NvmTypeOK, JobType
<1>5. d \in Seq(NvmBytes) /\ Len(d) = k /\ \A i \in 1 .. k : d[i] = l[i]
  BY <1>1
<1>6. /\ nvm_job' \in JobType
      /\ nvm_job'.op = nvm_job.op /\ nvm_job'.from = nvm_job.from
      /\ nvm_job'.data = nvm_job.data /\ nvm_job'.at = a + k
      /\ nvm_job'.skipped = (nvm_job.skipped \/ FALSE)
      /\ Len(nvm_job'.left) = Len(l) - k
      /\ \A i \in 1 .. Len(nvm_job'.left) : nvm_job'.left[i] = l[k + i]
  BY <1>1, <1>2, AdvancedFact
<1>. HIDE DEF d
<1>7. /\ nvm_file' \in Seq(NvmBytes)
      /\ Len(nvm_file') = IF a + k > length THEN a + k ELSE length
      /\ \A j \in 1 .. Len(nvm_file') :
           nvm_file'[j] = IF j - a \in 1 .. k THEN l[j - a] ELSE nvm_file[j]
  <2>1. NvmTypeOK
    BY DEF NvmInv
  <2>2. /\ Written(a, d) \in Seq(NvmBytes)
        /\ Len(Written(a, d)) = IF a + Len(d) > length THEN a + Len(d) ELSE length
        /\ \A j \in 1 .. Len(Written(a, d)) :
             Written(a, d)[j] = IF j - a \in 1 .. Len(d) THEN d[j - a] ELSE nvm_file[j]
    BY <1>4, <1>5, <2>1, WrittenFact
  <2>. QED BY <1>2, <1>5, <2>2
<1>8. NvmTypeOK'
  BY <1>1, <1>2, <1>4, <1>7 DEF NvmInv, NvmTypeOK
<1>9. ReadInv'
  BY <1>2 DEF NvmInv, ReadInv
<1>10. \A i \in 1 .. Len(l) : l[i] \in may_hold[a + i - 1]
  <2>. TAKE i \in 1 .. Len(l)
  <2>1. CASE FillingUp
    <3>1. a + i - 1 \in NvmRange /\ a + i - 1 >= length /\ l[i] = FreshByte
      BY <1>1, <1>4, <2>1 DEF FillingUp, NvmRange
    <3>. QED BY <3>1 DEF NvmInv, FileInv
  <2>2. CASE Writing
    <3> DEFINE m == a - nvm_job.from + i
    <3>1. m \in 1 .. Len(nvm_job.data) /\ l[i] = nvm_job.data[m]
          /\ nvm_job.from + m - 1 = a + i - 1
      <4>1. /\ nvm_job.from \in Nat /\ Len(nvm_job.data) \in Nat /\ nvm_job.from <= a
            /\ a + Len(l) = nvm_job.from + Len(nvm_job.data)
        BY <1>1, <2>2 DEF Writing, JobType
      <4>2. l[i] = nvm_job.data[m]
        BY <2>2 DEF Writing
      <4>. QED BY <1>1, <4>1, <4>2
    <3>2. nvm_job.data[m] \in may_hold[nvm_job.from + m - 1]
      <4>. HIDE DEF m
      <4>. QED BY <2>2, <3>1 DEF Writing
    <3>. QED BY <3>1, <3>2
  <2>. QED BY <1>3, <2>1, <2>2
<1>11. FileInv'
  <2>1. ASSUME NEW j \in 1 .. Len(nvm_file') PROVE nvm_file'[j] \in may_hold[j - 1]
    <3>1. CASE j - a \in 1 .. k
      <4>1. j - a \in 1 .. Len(l) /\ a + (j - a) - 1 = j - 1
        BY <1>1, <3>1
      <4>2. l[j - a] \in may_hold[a + (j - a) - 1]
        BY <1>10, <4>1
      <4>. QED BY <1>7, <3>1, <4>1, <4>2
    <3>2. CASE j - a \notin 1 .. k
      <4>1. j \in 1 .. length
        BY <1>1, <1>4, <1>7, <3>2
      <4>. QED BY <1>7, <3>2, <4>1 DEF NvmInv, FileInv
    <3>. QED BY <3>1, <3>2
  <2>2. \A x \in NvmRange : x >= Len(nvm_file') => FreshByte \in may_hold[x]
    <3>. TAKE x \in NvmRange
    <3>1. x >= Len(nvm_file') => x >= length
      BY <1>1, <1>7 DEF NvmRange
    <3>. QED BY <3>1 DEF NvmInv, FileInv
  <2>. QED BY <1>2, <2>1, <2>2 DEF FileInv
<1>12. FillingUp => FillingUp'
  <2>. SUFFICES ASSUME FillingUp PROVE FillingUp'
    OBVIOUS
  <2>1. Len(nvm_file') = a + k /\ a + k + (Len(l) - k) = NvmSize
    BY <1>1, <1>7 DEF FillingUp
  <2>2. \A i \in 1 .. Len(nvm_job'.left) : nvm_job'.left[i] = FreshByte
    <3>. TAKE i \in 1 .. Len(nvm_job'.left)
    <3>1. k + i \in 1 .. Len(l)
      BY <1>1, <1>6
    <3>. QED BY <1>6, <3>1 DEF FillingUp
  <2>. QED BY <1>2, <1>6, <2>1, <2>2 DEF FillingUp
<1>13. Writing => Writing'
  <2>. SUFFICES ASSUME Writing PROVE Writing'
    OBVIOUS
  <2> DEFINE f == nvm_job.from
             data == nvm_job.data
  <2>1. f \in Nat /\ data \in Seq(NvmBytes) /\ Len(data) \in Nat /\ f <= a /\ nvm_job.skipped \in BOOLEAN
        /\ a + Len(l) = f + Len(data)
    BY <1>1 DEF Writing, JobType
  <2>2. \A i \in 1 .. Len(nvm_job'.left) : nvm_job'.left[i] = data[a + k - f + i]
    <3>. TAKE i \in 1 .. Len(nvm_job'.left)
    <3>1. k + i \in 1 .. Len(l) /\ a - f + (k + i) = a + k - f + i
      BY <1>1, <1>6, <2>1
    <3>2. l[k + i] = data[a - f + (k + i)]
      BY <3>1 DEF Writing
    <3>. QED BY <1>6, <3>1, <3>2
  <2>3. ~nvm_job.skipped => \A i \in 1 .. a + k - f : nvm_file'[f + i] = data[i]
    <3>. SUFFICES ASSUME ~nvm_job.skipped, NEW i \in 1 .. a + k - f
                  PROVE  nvm_file'[f + i] = data[i]
      OBVIOUS
    <3>1. f + i \in 1 .. Len(nvm_file')
      BY <1>1, <1>7, <2>1
    <3>2. CASE i > a - f
      <4>1. (f + i) - a \in 1 .. k /\ (f + i) - a \in 1 .. Len(l) /\ a - f + ((f + i) - a) = i
        <5>. i \in Nat /\ i <= a + k - f /\ k \in Nat /\ k <= Len(l)
          BY <1>1, <2>1
        <5>. HIDE DEF f, a, l
        <5>. QED BY <1>1, <2>1, <3>2
      <4>2. l[(f + i) - a] = data[a - f + ((f + i) - a)]
        BY <4>1 DEF Writing
      <4>. QED BY <1>7, <3>1, <4>1, <4>2
    <3>3. CASE ~(i > a - f)
      <4>1. (f + i) - a \notin 1 .. k /\ i \in 1 .. a - f
        BY <1>1, <2>1, <3>3
      <4>2. nvm_file[f + i] = data[i]
        BY <4>1 DEF Writing
      <4>. QED BY <1>7, <3>1, <4>1, <4>2
    <3>. QED BY <3>2, <3>3
  <2>4. nvm_job'.skipped = nvm_job.skipped
    BY <1>6, <2>1
  <2>5. /\ nvm_job'.op \in {"write", "erase"} /\ nvm_initialised'
        /\ nvm_job'.from + Len(nvm_job'.data) <= NvmSize /\ nvm_job'.from <= nvm_job'.at
        /\ nvm_job'.at + Len(nvm_job'.left) = nvm_job'.from + Len(nvm_job'.data)
        /\ nvm_read'.data = <<>>
    <3>1. /\ nvm_job.op \in {"write", "erase"} /\ nvm_initialised /\ nvm_read.data = <<>>
          /\ f + Len(data) <= NvmSize
      BY DEF Writing
    <3>2. f <= a + k /\ (a + k) + (Len(l) - k) = f + Len(data)
      <4>. HIDE DEF f, a, l, data
      <4>. QED BY <1>1, <2>1
    <3>. QED BY <1>2, <1>6, <3>1, <3>2
  <2>6. \A i \in 1 .. Len(data) : data[i] \in may_hold[f + i - 1]
    BY DEF Writing
  <2>7. nvm_job'.from = f /\ nvm_job'.data = data /\ nvm_job'.at = a + k
    BY <1>6
  <2>8. may_hold' = may_hold
    BY <1>2
  <2>9. \A i \in 1 .. Len(nvm_job'.left) :
          nvm_job'.left[i] = nvm_job'.data[nvm_job'.at - nvm_job'.from + i]
    <3>. TAKE i \in 1 .. Len(nvm_job'.left)
    <3>0. nvm_job'.at - nvm_job'.from + i = a + k - f + i
      BY <1>1, <2>1, <2>7
    <3>1. nvm_job'.data[nvm_job'.at - nvm_job'.from + i] = data[a + k - f + i]
      BY <2>7, <3>0
    <3>. QED BY <2>2, <3>1
  <2>10. \A i \in 1 .. Len(nvm_job'.data) : nvm_job'.data[i] \in may_hold'[nvm_job'.from + i - 1]
    BY <2>6, <2>7, <2>8
  <2>11. ~nvm_job'.skipped =>
           \A i \in 1 .. nvm_job'.at - nvm_job'.from : nvm_file'[nvm_job'.from + i] = nvm_job'.data[i]
    <3>. SUFFICES ASSUME ~nvm_job'.skipped, NEW i \in 1 .. nvm_job'.at - nvm_job'.from
                  PROVE  nvm_file'[nvm_job'.from + i] = nvm_job'.data[i]
      OBVIOUS
    <3>1. i \in 1 .. a + k - f
      BY <1>1, <2>1, <2>7
    <3>2. nvm_file'[f + i] = data[i]
      BY <2>3, <2>4, <3>1, Zenon
    <3>. QED BY <2>7, <3>2
  <2>. QED BY <2>5, <2>9, <2>10, <2>11 DEF Writing
<1>. QED BY <1>3, <1>6, <1>8, <1>9, <1>11, <1>12, <1>13 DEF NvmInv

\* A byte passed over is a byte the loop has gone by.
LEMMA InterruptKeepsNvm == ASSUME NvmInv, EraseInterrupted PROVE NvmInv'
<1>1. Len(nvm_job.left) \in Nat /\ 1 \in 1 .. Len(nvm_job.left) /\ nvm_job \in JobType
  BY DEF NvmInv, JobType, EraseInterrupted
<1>2. /\ nvm_job' = Advanced(1, TRUE) /\ nvm_job.op = "erase"
      /\ UNCHANGED <<nvm_initialised, nvm_file, nvm_status, nvm_read, may_hold>>
  BY DEF EraseInterrupted
<1>3. /\ nvm_job' \in JobType
      /\ nvm_job'.op = nvm_job.op /\ nvm_job'.from = nvm_job.from
      /\ nvm_job'.data = nvm_job.data /\ nvm_job'.at = nvm_job.at + 1
      /\ nvm_job'.skipped = (nvm_job.skipped \/ TRUE)
      /\ Len(nvm_job'.left) = Len(nvm_job.left) - 1
      /\ \A i \in 1 .. Len(nvm_job'.left) : nvm_job'.left[i] = nvm_job.left[1 + i]
  BY <1>1, <1>2, AdvancedFact
<1>4. Writing
  BY <1>2, NoJobFact DEF NvmInv, FillingUp
<1>5. /\ nvm_job.from \in Nat /\ nvm_job.at \in Nat /\ nvm_job.from <= nvm_job.at
      /\ nvm_job.at + Len(nvm_job.left) = nvm_job.from + Len(nvm_job.data)
      /\ Len(nvm_job.data) \in Nat
  BY <1>1, <1>4 DEF Writing, JobType
<1>6. \A i \in 1 .. Len(nvm_job'.left) :
        nvm_job'.left[i] = nvm_job'.data[nvm_job'.at - nvm_job'.from + i]
  <2>. TAKE i \in 1 .. Len(nvm_job'.left)
  <2>1. 1 + i \in 1 .. Len(nvm_job.left)
        /\ nvm_job.at - nvm_job.from + (1 + i) = nvm_job'.at - nvm_job'.from + i
    <3>1. i \in Nat /\ i <= Len(nvm_job.left) - 1
      BY <1>1, <1>3
    <3>2. nvm_job'.at = nvm_job.at + 1 /\ nvm_job'.from = nvm_job.from
      BY <1>3
    <3>. QED BY <1>1, <1>5, <3>1, <3>2
  <2>2. nvm_job.left[1 + i] = nvm_job.data[nvm_job.at - nvm_job.from + (1 + i)]
    BY <1>4, <2>1 DEF Writing
  <2>. QED BY <1>3, <2>1, <2>2
<1>7. nvm_job'.skipped = TRUE
  BY <1>3
<1>8. /\ nvm_job'.from <= nvm_job'.at
      /\ nvm_job'.at + Len(nvm_job'.left) = nvm_job'.from + Len(nvm_job'.data)
  BY <1>1, <1>3, <1>5
<1>9. Writing'
  <2>1. /\ nvm_job'.op \in {"write", "erase"} /\ nvm_initialised'
        /\ nvm_job'.from + Len(nvm_job'.data) <= NvmSize /\ nvm_read'.data = <<>>
        /\ \A i \in 1 .. Len(nvm_job'.data) :
             nvm_job'.data[i] \in may_hold'[nvm_job'.from + i - 1]
    BY <1>2, <1>3, <1>4 DEF Writing
  <2>. QED BY <1>6, <1>7, <1>8, <2>1 DEF Writing
<1>. QED BY <1>2, <1>3, <1>9 DEF NvmInv, NvmTypeOK, FileInv, ReadInv

\* When a loop is done the values before it are gone, unless it passed over a
\* byte: all of its own are in the file.
LEMMA DoneKeepsNvm == ASSUME NvmInv, NvmDone PROVE NvmInv'
<1> DEFINE f == nvm_job.from
           data == nvm_job.data
           settles == nvm_job.op # "open" /\ ~nvm_job.skipped
<1>1. /\ nvm_job.left = <<>> /\ nvm_job' = NoJob /\ nvm_status' = "OK" /\ nvm_initialised' = TRUE
      /\ UNCHANGED <<nvm_file, nvm_read>> /\ nvm_job # NoJob
  BY DEF NvmDone
<1>2. may_hold' = [x \in NvmRange |->
        IF settles /\ f <= x /\ x < nvm_job.at THEN {data[x - f + 1]} ELSE may_hold[x]]
  BY DEF NvmDone, NvmInv, NvmTypeOK
<1>3. /\ f \in Nat /\ nvm_job.at \in Nat /\ data \in Seq(NvmBytes) /\ Len(data) \in Nat
      /\ nvm_file \in Seq(NvmBytes) /\ Len(nvm_file) \in Nat /\ NvmSize \in Nat
      /\ may_hold \in [NvmRange -> SUBSET NvmBytes]
  BY NvmParameters DEF NvmInv, JobType, NvmTypeOK
<1>4. FillingUp \/ Writing
  BY <1>1 DEF NvmInv
<1>5. Len(nvm_file) = NvmSize
  <2>1. Len(nvm_job.left) = 0
    BY <1>1
  <2>. QED BY <1>3, <1>4, <2>1 DEF FillingUp, Writing, NvmInv, NvmTypeOK
<1>6. settles => /\ Writing /\ nvm_job.at = f + Len(data) /\ f + Len(data) <= NvmSize
                 /\ \A k \in 1 .. Len(data) : nvm_file[f + k] = data[k]
  <2>. SUFFICES ASSUME settles
                PROVE  /\ Writing /\ nvm_job.at = f + Len(data) /\ f + Len(data) <= NvmSize
                       /\ \A k \in 1 .. Len(data) : nvm_file[f + k] = data[k]
    OBVIOUS
  <2>1. Writing
    BY <1>4 DEF FillingUp
  <2>2. Len(nvm_job.left) = 0
    BY <1>1
  <2>3. nvm_job.at = f + Len(data) /\ f + Len(data) <= NvmSize /\ nvm_job.at - f = Len(data)
    BY <1>3, <2>1, <2>2 DEF Writing
  <2>4. \A k \in 1 .. nvm_job.at - f : nvm_file[f + k] = data[k]
    BY <2>1 DEF Writing
  <2>. QED BY <2>1, <2>3, <2>4
<1>7. ASSUME NEW x \in NvmRange
      PROVE  /\ may_hold'[x] \in SUBSET NvmBytes
             /\ nvm_file[x + 1] \in may_hold'[x]
  <2>1. x + 1 \in 1 .. Len(nvm_file) /\ (x + 1) - 1 = x
    BY <1>3, <1>5 DEF NvmRange
  <2>2. CASE settles /\ f <= x /\ x < nvm_job.at
    <3>1. x - f + 1 \in 1 .. Len(data) /\ f + (x - f + 1) = x + 1
      BY <1>3, <1>6, <2>2 DEF NvmRange
    <3>2. nvm_file[f + (x - f + 1)] = data[x - f + 1]
      BY <1>6, <2>2, <3>1
    <3>3. may_hold'[x] = {data[x - f + 1]}
      BY <1>2, <2>2
    <3>. QED BY <1>3, <3>1, <3>2, <3>3
  <2>3. CASE ~(settles /\ f <= x /\ x < nvm_job.at)
    <3>1. may_hold'[x] = may_hold[x]
      BY <1>2, <2>3
    <3>2. nvm_file[x + 1] \in may_hold[(x + 1) - 1]
      BY <2>1 DEF NvmInv, FileInv
    <3>. QED BY <1>3, <2>1, <3>1, <3>2
  <2>. QED BY <2>2, <2>3
<1>8. may_hold' \in [NvmRange -> SUBSET NvmBytes]
  <2>1. DOMAIN may_hold' = NvmRange /\ may_hold' = [x \in NvmRange |-> may_hold'[x]]
    BY <1>2
  <2>. QED BY <1>7, <2>1
<1>9. NvmTypeOK'
  BY <1>1, <1>5, <1>8 DEF NvmInv, NvmTypeOK
<1>10. FileInv'
  <2>1. ASSUME NEW k \in 1 .. Len(nvm_file) PROVE nvm_file[k] \in may_hold'[k - 1]
    <3>1. k - 1 \in NvmRange /\ (k - 1) + 1 = k
      BY <1>3, <1>5 DEF NvmRange
    <3>2. nvm_file[(k - 1) + 1] \in may_hold'[k - 1]
      BY <1>7, <3>1
    <3>. QED BY <3>1, <3>2
  <2>2. \A x \in NvmRange : ~(x >= Len(nvm_file))
    BY <1>3, <1>5 DEF NvmRange
  <2>. QED BY <1>1, <2>1, <2>2 DEF FileInv
<1>11. ReadInv'
  <2>1. CASE settles
    <3>1. nvm_read.data = <<>>
      BY <1>6, <2>1 DEF Writing
    <3>. QED BY <1>1, <3>1 DEF NvmInv, ReadInv
  <2>2. CASE ~settles
    <3>1. may_hold' = may_hold
      BY <1>2, <1>3, <2>2
    <3>. QED BY <1>1, <3>1 DEF NvmInv, ReadInv
  <2>. QED BY <2>1, <2>2
<1>. QED BY <1>1, <1>9, <1>10, <1>11, NoJobFact DEF NvmInv

\* Every call, system call, failure and restart preserves the invariant.
LEMMA NvmInvNext == NvmInv /\ [NvmNext]_nvmVars => NvmInv'
<1>. SUFFICES ASSUME NvmInv, [NvmNext]_nvmVars PROVE NvmInv'
  OBVIOUS
<1>1. ASSUME NEW a \in NvmAddresses, NEW n \in NvmLengths,
             \/ NvmRead(a, n)
             \/ NvmBegin("erase", a, Repeated(ErasedByte, n))
             \/ \E b \in NvmBytes : NvmBegin("write", a, Repeated(b, n))
      PROVE  NvmInv'
  <2>1. a \in Nat /\ n \in Nat /\ ErasedByte \in NvmBytes
    BY NvmParameters
  <2>2. \A b \in NvmBytes : Repeated(b, n) \in Seq(NvmBytes)
    BY <2>1, RepeatedFact
  <2>3. CASE NvmRead(a, n)
    BY <2>1, <2>3, ReadKeepsNvm
  <2>4. CASE NvmBegin("erase", a, Repeated(ErasedByte, n))
    BY <2>1, <2>2, <2>4, BeginKeepsNvm
  <2>5. ASSUME NEW b \in NvmBytes, NvmBegin("write", a, Repeated(b, n)) PROVE NvmInv'
    BY <2>1, <2>2, <2>5, BeginKeepsNvm
  <2>. QED BY <1>1, <2>3, <2>4, <2>5
<1>2. CASE NvmFails
  <2>1. /\ nvm_job' = NoJob /\ nvm_status' = "ERROR"
        /\ UNCHANGED <<nvm_initialised, nvm_file, nvm_read, may_hold>>
    BY <1>2 DEF NvmFails
  <2>2. ReadInv'
    BY <2>1 DEF NvmInv, ReadInv
  <2>. QED BY <2>1, <2>2, IdleKeepsNvm
<1>3. CASE NvmRestart
  <2>1. /\ nvm_job' = NoJob /\ nvm_status' = "OK" /\ nvm_initialised' = FALSE
        /\ nvm_read' = [at |-> 0, data |-> <<>>] /\ UNCHANGED <<nvm_file, may_hold>>
    BY <1>3 DEF NvmRestart
  <2>2. nvm_read'.at = 0 /\ nvm_read'.data = <<>> /\ <<>> \in Seq(NvmBytes) /\ Len(<<>>) = 0
    BY <2>1
  <2>3. ReadInv'
    BY <2>2, NvmParameters DEF ReadInv
  <2>. QED BY <2>1, <2>3, IdleKeepsNvm
<1>4. CASE UNCHANGED nvmVars
  BY <1>4 DEF nvmVars, NvmInv, NvmTypeOK, FileInv, ReadInv, FillingUp, Writing
<1>. QED
  BY <1>1, <1>2, <1>3, <1>4, OpenKeepsNvm, StepKeepsNvm, InterruptKeepsNvm, DoneKeepsNvm
  DEF NvmNext

\* The invariant holds in every reachable state.
LEMMA NvmInvAlways == NvmSpec => []NvmInv
<1>1. NvmInit => NvmInv
  <2>. SUFFICES ASSUME NvmInit PROVE NvmInv
    OBVIOUS
  <2>1. <<>> \in Seq(NvmBytes) /\ Len(<<>>) = 0 /\ NvmSize \in Nat
    BY NvmParameters
  <2>2. nvm_read.at = 0 /\ nvm_read.data = <<>>
    BY DEF NvmInit
  <2>3. NvmTypeOK
    <3>1. nvm_initialised = FALSE /\ nvm_file = <<>> /\ nvm_status = "OK"
          /\ may_hold \in [NvmRange -> SUBSET NvmBytes]
      BY NvmParameters DEF NvmInit
    <3>2. nvm_initialised \in BOOLEAN /\ ~nvm_initialised /\ nvm_status \in {"OK", "ERROR"}
      BY <3>1
    <3>3. nvm_file \in Seq(NvmBytes) /\ Len(nvm_file) <= NvmSize
      BY <2>1, <3>1
    <3>. QED BY <3>1, <3>2, <3>3, Zenon DEF NvmTypeOK
  <2>4. FileInv /\ ReadInv
    BY <2>1, <2>2 DEF NvmInit, FileInv, ReadInv
  <2>. QED BY <2>3, <2>4, NoJobFact DEF NvmInit, NvmInv
<1>. QED BY <1>1, NvmInvNext, PTL DEF NvmSpec

\* An initialised memory always has its full size, and never more.
THEOREM NvmTypeCorrect == NvmSpec => []NvmTypeOK
  BY NvmInvAlways, PTL DEF NvmInv

\* Every byte always holds a value last written to it, wherever the process died
\* or a write failed, and that is what reads return.
THEOREM NvmAlwaysKeeps == NvmSpec => []NvmKeeps
<1>1. NvmInv => NvmKeeps
  BY DEF NvmInv, FileInv, ReadInv, NvmKeeps
<1>. QED BY <1>1, NvmInvAlways, PTL

-----------------------------------------------------------------------------
(* All the parts side by side. *)

\* Each family of steps belongs to one part, and leaves the others as they are.
LEMMA PartsApart ==
  ASSUME [Next]_vars
  PROVE  /\ [SecNext]_secVars /\ [TransferNext]_uploadVars /\ [TimersNext]_timerVars
         /\ [HalTimerNext]_halTimerVars /\ [UartNext]_uartVars /\ [NvmNext]_nvmVars
<1>1. CASE UNCHANGED vars
  BY <1>1 DEF vars, partVars
<1>2. CASE Next
  <2>1. [SecNext]_secVars
    BY <1>2 DEF Next
  <2>2. [TransferNext]_uploadVars
    BY <1>2 DEF Next
  <2>3. [TimersNext]_timerVars
    BY <1>2 DEF Next
  <2>4. [HalTimerNext]_halTimerVars
    BY <1>2 DEF Next
  <2>5. [UartNext]_uartVars
    BY <1>2 DEF Next
  <2>6. [NvmNext]_nvmVars
    BY <1>2 DEF Next
  <2>. QED BY <2>1, <2>2, <2>3, <2>4, <2>5, <2>6
<1>. QED BY <1>1, <1>2

\* The parts keep their types whatever the requests, failures and restarts: a
\* transfer's counts stay in its buffer, a slot of the pool has one owner.
THEOREM PartsTypeCorrect == Spec => []TypeOK
<1>1. Spec => SecSpec /\ TransferSpec /\ TimersSpec /\ HalTimerSpec /\ UartSpec /\ NvmSpec
  <2>1. Init => SecInit /\ TransferInit /\ TimersInit /\ HalTimerInit /\ UartInit /\ NvmInit
    BY DEF Init
  <2>. QED BY <2>1, PartsApart, PTL
       DEF Spec, SecSpec, TransferSpec, TimersSpec, HalTimerSpec, UartSpec, NvmSpec
<1>2. SecTypeOK /\ TransferTypeOK /\ TimersTypeOK /\ PoolExclusive
      /\ HalTimerTypeOK /\ UartTypeOK /\ NvmTypeOK => TypeOK
  BY DEF TypeOK
<1>. QED BY <1>1, <1>2, SecTypeCorrect, TransferTypeCorrect, TimersTypeCorrect,
            PoolAlwaysExclusive, HalTimerTypeCorrect, UartTypeCorrect, NvmTypeCorrect, PTL

-----------------------------------------------------------------------------
(* A download from end to end. *)

\* Every block fits a Single Frame; with the code's sizes, blocks of up to four
\* bytes.  (A longer one is dispatched in pieces.)
ShortBlocks == Piece + 2 <= SFMax

\* The number of bytes in the first k blocks of the image, and the kth block.
Reach(k) == Least(k * Piece, Len(Image))
Block(k) == Taken(SubSeq(Image, (k - 1) * Piece + 1, Len(Image)), Piece)

BlockPdu(k) == <<DataSid, k % ByteSize>> \o Block(k)

\* The frames of each request.
OpenFrames     == {SFrame(OpenPdu), FFrame(OpenPdu)} \cup CFrames
BlockFrames(k) == {SFrame(BlockPdu(k))}
ExitFrames     == {SFrame(<<ExitSid>>)}

\* The answers to each request, and those that refuse it.
AnswersTo(sid)  == [sid : {sid}, nrc : Nrcs, bsc : 0 .. ByteSize - 1]
Refusals(sid)   == {a \in AnswersTo(sid) : a.nrc # "NONE"}
BlockAnswers(k) == {a \in AnswersTo(DataSid) : a.nrc = "NONE" => a.bsc = k % ByteSize}

\* What is under way, in both directions.
Pipe(F, A) == requests \in Seq(F) /\ answers \in Seq(A)

\* A transfer of the image is open and has n blocks of it.
Holds(n) ==
  /\ active /\ direction = "DOWNLOAD"
  /\ Len(Image) \in 1 .. BufferSize
  /\ block_seq_counter = n % ByteSize
  /\ buffer_length = Reach(n) /\ remaining_size = Len(Image) - Reach(n)
  /\ \A i \in 1 .. Reach(n) : buffer[i] = Image[i]

(* The inductive invariant, phase by phase.  Since the tester sends a new       *)
(* request only when nothing is under way, all that is under way are frames of, *)
(* and answers to, one request: the present one, once it was sent (tries > 0),  *)
(* or the one before.                                                           *)

Preparing ==
  phase = "prepare" /\ tries = 0 /\ ~active /\ requests = <<>> /\ answers = <<>>

Opening ==
  /\ phase = "open"
  /\ \/ tries = 0 /\ ~active /\ Pipe(ExitFrames, AnswersTo(ExitSid))
     \/ tries > 0 /\ ~active /\ Pipe(OpenFrames, Refusals(OpenSid))
     \/ tries > 0 /\ Holds(0) /\ Pipe(OpenFrames, AnswersTo(OpenSid))

Sending ==
  /\ phase = "data"
  /\ \E n \in 0 .. BlockCount - 1 :
       /\ confirmed = n
       /\ \/ /\ tries = 0 /\ Holds(n)
             /\ IF n = 0 THEN Pipe(OpenFrames, AnswersTo(OpenSid))
                ELSE Pipe(BlockFrames(n), BlockAnswers(n))
          \/ tries > 0 /\ Holds(n) /\ Pipe(BlockFrames(n + 1), Refusals(DataSid))
          \/ tries > 0 /\ Holds(n + 1) /\ Pipe(BlockFrames(n + 1), BlockAnswers(n + 1))

Exiting ==
  /\ phase = "exit"
  /\ \/ tries = 0 /\ Holds(BlockCount)
        /\ Pipe(BlockFrames(BlockCount), AnswersTo(DataSid))
     \/ tries > 0 /\ Holds(BlockCount) /\ requests \in Seq(ExitFrames) /\ answers = <<>>
     \/ tries > 0 /\ ~active /\ stored = Image /\ Pipe(ExitFrames, AnswersTo(ExitSid))

\* The answer that ends this phase may be one to the exit requested before.
Abandoning ==
  /\ phase = "abandon"
  /\ \/ tries = 0 /\ Pipe(OpenFrames, AnswersTo(OpenSid))
     \/ tries = 0 /\ \E k \in 1 .. BlockCount : Pipe(BlockFrames(k), AnswersTo(DataSid))
     \/ Pipe(ExitFrames, AnswersTo(ExitSid)) /\ (answers # <<>> => ~active)

Done ==
  phase = "done" /\ stored = Image /\ ~active /\ Pipe(ExitFrames, AnswersTo(ExitSid))

\* Only the request to open may take several frames: a reassembly is one of it.
ReceiverInv ==
  /\ expected_nad = DefaultNad
  /\ rx_state = "CF" =>
       /\ rx_buffer \in Seq(Bytes) /\ rx_buffer # <<>> /\ rx_buffer[1] = OpenSid
       /\ rx_expected_len \in Nat /\ Len(rx_buffer) < rx_expected_len

DownloadInv ==
  /\ tries \in Nat /\ confirmed \in Nat
  /\ \/ phase = "failed"
     \/ /\ ReceiverInv
        /\ Preparing \/ Opening \/ Sending \/ Exiting \/ Abandoning \/ Done

-----------------------------------------------------------------------------
(* Facts about blocks and their frames. *)

\* The blocks of the image: each but the last is full, together they are it.
LEMMA ReachFact ==
  /\ Len(Image) \in Nat /\ BlockCount \in Nat
  /\ Reach(0) = 0 /\ Reach(BlockCount) = Len(Image)
  /\ \A k \in Nat : Reach(k) \in 0 .. Len(Image)
  /\ \A k \in 1 .. BlockCount :
       /\ Reach(k - 1) = (k - 1) * Piece /\ Reach(k - 1) < Len(Image)
       /\ Reach(k) = Reach(k - 1) + Least(Piece, Len(Image) - Reach(k - 1))
<1>. DEFINE L == Len(Image)
<1>1. L \in Nat /\ Piece \in Nat \ {0}
  BY DownloadParameters
<1>2. PICK q \in Int, r \in 0 .. Piece - 1 : L + Piece - 1 = q * Piece + r /\ BlockCount = q
  <2>1. L + Piece - 1 \in Int
    BY <1>1
  <2>. QED BY <1>1, <2>1, Division DEF BlockCount
<1>3. q \in Nat /\ q * Piece >= L /\ q * Piece < L + Piece
  <2>1. q * Piece \in Int /\ q * Piece >= L /\ q * Piece < L + Piece
    BY <1>1, <1>2
  <2>2. q < 0 => q * Piece < 0
    BY <1>1
  <2>. QED BY <1>1, <2>1, <2>2
<1>4. \A k \in Nat : k * Piece \in Nat
  BY <1>1
<1>5. 0 * Piece = 0
  BY <1>1
<1>6. ASSUME NEW k \in 1 .. BlockCount
      PROVE  /\ k - 1 \in Nat /\ (k - 1) * Piece < L /\ k * Piece = (k - 1) * Piece + Piece
             /\ (k - 1) * Piece \in Nat /\ k * Piece \in Nat
  <2>1. k - 1 \in Nat /\ k \in Nat /\ q - k \in Nat
    BY <1>2, <1>3
  <2>2. q * Piece = (k - 1) * Piece + (q - k) * Piece + Piece /\ k * Piece = (k - 1) * Piece + Piece
    BY <1>1, <2>1
  <2>3. (q - k) * Piece \in Nat /\ (k - 1) * Piece \in Nat /\ k * Piece \in Nat
    BY <1>4, <2>1
  <2>. QED BY <1>1, <1>3, <2>1, <2>2, <2>3
<1>7. \A k \in Nat : Reach(k) \in 0 .. L
  BY <1>1, <1>4 DEF Reach, Least
<1>8. ASSUME NEW k \in 1 .. BlockCount
      PROVE  /\ Reach(k - 1) = (k - 1) * Piece /\ Reach(k - 1) < L
             /\ Reach(k) = Reach(k - 1) + Least(Piece, L - Reach(k - 1))
  <2>1. Reach(k - 1) = (k - 1) * Piece
    BY <1>1, <1>6 DEF Reach, Least
  <2>2. Reach(k) = Least((k - 1) * Piece + Piece, L)
    BY <1>6 DEF Reach
  <2>. QED BY <1>1, <1>6, <2>1, <2>2 DEF Least
<1>9. Reach(0) = 0 /\ Reach(BlockCount) = L
  BY <1>1, <1>2, <1>3, <1>5 DEF Reach, Least
<1>. QED BY <1>1, <1>2, <1>3, <1>7, <1>8, <1>9

\* The kth block is what the image has after the blocks before it.
LEMMA BlockFact ==
  ASSUME NEW k \in 1 .. BlockCount
  PROVE  /\ Block(k) \in Seq(DataBytes) /\ Len(Block(k)) \in 1 .. Piece
         /\ Reach(k) = Reach(k - 1) + Len(Block(k))
         /\ \A i \in 1 .. Len(Block(k)) : Block(k)[i] = Image[Reach(k - 1) + i]
<1>. DEFINE a == Reach(k - 1)
            s == SubSeq(Image, a + 1, Len(Image))
<1>1. a \in Nat /\ a < Len(Image) /\ Len(Image) \in Nat /\ Piece \in Nat \ {0}
  <2>1. k - 1 \in Nat /\ Len(Image) \in Nat /\ a < Len(Image)
    <3>1. k \in 1 .. BlockCount /\ BlockCount \in Nat
      BY ReachFact
    <3>2. k - 1 \in Nat
      <4>. HIDE DEF a
      <4>. QED BY <3>1
    <3>. QED BY <3>2, ReachFact
  <2>2. a \in 0 .. Len(Image)
    <3>1. \A j \in Nat : Reach(j) \in 0 .. Len(Image)
      BY ReachFact
    <3>. QED BY <2>1, <3>1
  <2>. QED BY <2>1, <2>2, DownloadParameters
<1>2. Block(k) = Taken(s, Piece) /\ Reach(k) = a + Least(Piece, Len(Image) - a)
  BY ReachFact DEF Block
<1>3. s \in Seq(DataBytes) /\ Len(s) = Len(Image) - a /\ \A i \in 1 .. Len(s) : s[i] = Image[a + i]
  <2>1. Image \in Seq(DataBytes)
    BY DownloadParameters
  <2>. HIDE DEF a
  <2>. QED BY <1>1, <2>1
<1>4. Taken(s, Piece) \in Seq(DataBytes) /\ Len(Taken(s, Piece)) = Least(Piece, Len(s))
      /\ \A i \in 1 .. Least(Piece, Len(s)) : Taken(s, Piece)[i] = s[i]
  <2>. HIDE DEF s
  <2>. QED BY <1>1, <1>3 DEF Taken, Least
<1>. HIDE DEF s, a
<1>5. Least(Piece, Len(s)) \in 1 .. Piece /\ Least(Piece, Len(s)) <= Len(s)
      /\ Least(Piece, Len(s)) = Least(Piece, Len(Image) - a)
  BY <1>1, <1>3 DEF Least
<1>6. \A i \in 1 .. Len(Block(k)) : Block(k)[i] = Image[a + i]
  <2>. TAKE i \in 1 .. Len(Block(k))
  <2>1. Len(Block(k)) = Least(Piece, Len(s)) /\ Len(s) \in Nat
    BY <1>1, <1>2, <1>3, <1>4
  <2>2. i \in 1 .. Least(Piece, Len(s)) /\ i \in 1 .. Len(s)
    BY <1>5, <2>1
  <2>. QED BY <1>2, <1>3, <1>4, <2>2
<1>. QED BY <1>2, <1>4, <1>5, <1>6 DEF a

\* What the request of a block holds.
LEMMA BlockPduFact ==
  ASSUME ShortBlocks, NEW k \in 1 .. BlockCount
  PROVE  /\ BlockPdu(k) \in Seq(Bytes) /\ Len(BlockPdu(k)) \in 1 .. SFMax
         /\ BlockPdu(k)[1] = DataSid /\ BlockPdu(k)[2] = k % ByteSize
         /\ k % ByteSize \in 0 .. ByteSize - 1
         /\ SubSeq(BlockPdu(k), 3, Len(BlockPdu(k))) = Block(k)
<1>1. Block(k) \in Seq(Bytes) /\ Len(Block(k)) \in 1 .. Piece
  BY BlockFact, DownloadParameters
<1>2. k % ByteSize \in 0 .. ByteSize - 1 /\ k % ByteSize \in Bytes
  <2>1. k \in Nat /\ ByteSize \in Nat \ {0}
    BY ReachFact, TransferParameters
  <2>2. k % ByteSize \in 0 .. ByteSize - 1
    BY <2>1
  <2>. QED BY <2>2, DownloadParameters
<1>3. DataSid \in Bytes /\ Piece \in Nat /\ SFMax \in Nat /\ Piece + 2 <= SFMax
  BY DownloadParameters, FrameParameters DEF ShortBlocks
<1>. DEFINE h == <<DataSid, k % ByteSize>>
            b == Block(k)
<1>4. h \in Seq(Bytes) /\ Len(h) = 2 /\ h[1] = DataSid /\ h[2] = k % ByteSize
  BY <1>2, <1>3
<1>. HIDE DEF h, b
<1>5. BlockPdu(k) = h \o b /\ b \in Seq(Bytes) /\ Len(b) \in 1 .. Piece
  BY <1>1 DEF BlockPdu, h, b
<1>6. h \o b \in Seq(Bytes) /\ Len(h \o b) = 2 + Len(b)
      /\ (h \o b)[1] = h[1] /\ (h \o b)[2] = h[2] /\ \A i \in 1 .. Len(b) : (h \o b)[2 + i] = b[i]
  <2>1. /\ h \o b \in Seq(Bytes) /\ Len(h \o b) = 2 + Len(b)
        /\ \A i \in 1 .. 2 + Len(b) : (h \o b)[i] = IF i <= 2 THEN h[i] ELSE b[i - 2]
    <3>1. /\ h \o b \in Seq(Bytes) /\ Len(h \o b) = Len(h) + Len(b)
          /\ \A i \in 1 .. Len(h) + Len(b) :
               (h \o b)[i] = IF i <= Len(h) THEN h[i] ELSE b[i - Len(h)]
      <4>1. h \in Seq(Bytes) /\ b \in Seq(Bytes)
        BY <1>4, <1>5
      <4>. QED BY <4>1, ConcatProperties, Zenon
    <3>2. Len(h) = 2
      BY <1>4
    <3>. QED BY <3>1, <3>2
  <2>2. Len(b) \in Nat /\ Len(h) = 2
    BY <1>4, <1>5
  <2>3. 1 \in 1 .. 2 + Len(b) /\ 2 \in 1 .. 2 + Len(b)
        /\ \A i \in 1 .. Len(b) : 2 + i \in 1 .. 2 + Len(b) /\ ~(2 + i <= 2) /\ (2 + i) - 2 = i
    BY <2>2
  <2>. QED BY <2>1, <2>2, <2>3
<1>7. SubSeq(h \o b, 3, Len(h \o b)) = b
  <2>1. SubSeq(h \o b, 3, Len(h \o b)) \in Seq(Bytes)
        /\ Len(SubSeq(h \o b, 3, Len(h \o b))) = Len(b)
        /\ \A i \in 1 .. Len(b) : SubSeq(h \o b, 3, Len(h \o b))[i] = (h \o b)[2 + i]
    <3>. DEFINE t == h \o b
    <3>1. t \in Seq(Bytes) /\ Len(t) = 2 + Len(b) /\ Len(b) \in Nat
      BY <1>5, <1>6
    <3>. HIDE DEF t
    <3>2. SubSeq(t, 3, Len(t)) \in Seq(Bytes) /\ Len(SubSeq(t, 3, Len(t))) = Len(b)
          /\ \A i \in 1 .. Len(b) : SubSeq(t, 3, Len(t))[i] = t[2 + i]
      BY <3>1
    <3>. QED BY <3>2 DEF t
  <2>. QED BY <1>5, <1>6, <2>1, SeqEqual
<1>. QED BY <1>2, <1>3, <1>4, <1>5, <1>6, <1>7 DEF b

\* Of a sequence that is short enough, all is taken.
LEMMA TakenAll ==
  ASSUME NEW s \in Seq(Bytes), NEW n \in Nat, Len(s) <= n
  PROVE  Taken(s, n) = s
<1>1. Taken(s, n) = SubSeq(s, 1, Len(s))
  BY DEF Taken, Least
<1>2. SubSeq(s, 1, Len(s)) \in Seq(Bytes) /\ Len(SubSeq(s, 1, Len(s))) = Len(s)
      /\ \A i \in 1 .. Len(s) : SubSeq(s, 1, Len(s))[i] = s[i]
  OBVIOUS
<1>. QED BY <1>1, <1>2, SeqEqual

\* What is taken of a sequence that is not empty begins as it does.
LEMMA TakenFirst ==
  ASSUME NEW s \in Seq(Bytes), s # <<>>, NEW n \in Nat \ {0}
  PROVE  Taken(s, n) # <<>> /\ Taken(s, n)[1] = s[1]
<1>1. Len(s) \in Nat \ {0}
  OBVIOUS
<1>2. Least(n, Len(s)) \in 1 .. Len(s)
  BY <1>1 DEF Least
<1>. DEFINE m == Least(n, Len(s))
<1>. HIDE DEF m
<1>3. Len(SubSeq(s, 1, m)) = m /\ SubSeq(s, 1, m)[1] = s[1]
  BY <1>1, <1>2 DEF m
<1>. QED BY <1>2, <1>3 DEF Taken, m

\* A request in one frame reaches its handler whole.
LEMMA SingleDecodes ==
  ASSUME ReceiverInv, NEW pdu \in Seq(Bytes), Len(pdu) \in 1 .. SFMax,
         Decode(DefaultNad, SFrame(pdu))
  PROVE  ReceiverInv' /\ rx_result' = Decoded(pdu) /\ Answers(rx_result')
<1>1. SFrame(pdu).pci = "SF" /\ SFrame(pdu).len = Len(pdu) /\ SFrame(pdu).data = pdu
  BY DEF SFrame
<1>2. Len(pdu) <= SFMax
  BY FrameParameters
<1>3. DecodeSF(DefaultNad, SFrame(pdu))
  BY <1>1, <1>2 DEF Decode, DecodeFF, DecodeCF, RejectPci, LegalSF, LegalFF, LegalCF
<1>4. rx_result' = Decoded(pdu)
  BY <1>1, <1>3, TakenAll DEF DecodeSF
<1>5. ReceiverInv'
  BY <1>3 DEF ReceiverInv, DecodeSF, filterVars
<1>6. pdu # <<>>
  OBVIOUS
<1>. QED BY <1>4, <1>5, <1>6 DEF Answers, Decoded

\* The request to open.
LEMMA OpenPduFact ==
  /\ OpenPdu \in Seq(Bytes) /\ Len(OpenPdu) = 5 /\ OpenPdu # <<>> /\ OpenPdu[1] = OpenSid
  BY FrameParameters, DownloadParameters DEF OpenPdu

\* Whichever of its frames arrive, in whatever state of the receiver: what is
\* decoded, if anything, is a request to open.
LEMMA OpenFrameDecodes ==
  ASSUME ReceiverInv, NEW f \in OpenFrames, Decode(DefaultNad, f)
  PROVE  /\ ReceiverInv'
         /\ Answers(rx_result') => /\ rx_result'.data \in Seq(Bytes)
                                   /\ rx_result'.data[1] = OpenSid
<1>0. FFPayload \in Nat \ {0} /\ CFPayload \in Nat \ {0} /\ SFMax \in Nat /\ FFMax \in Nat
  BY FrameParameters
<1>1. CASE DecodeSF(DefaultNad, f)
  <2>1. f = SFrame(OpenPdu)
    BY <1>1 DEF OpenFrames, CFrames, FFrame, DecodeSF, LegalSF
  <2>2. rx_result' = Decoded(OpenPdu)
    <3>1. f.len = 5 /\ f.data = OpenPdu
      BY <2>1, OpenPduFact DEF SFrame
    <3>2. Taken(OpenPdu, 5) = OpenPdu
      <4>1. OpenPdu \in Seq(Bytes) /\ 5 \in Nat /\ Len(OpenPdu) <= 5
        BY OpenPduFact
      <4>. QED BY <4>1, TakenAll, Zenon
    <3>. QED BY <1>1, <3>1, <3>2 DEF DecodeSF
  <2>3. ReceiverInv'
    BY <1>1 DEF ReceiverInv, DecodeSF, filterVars
  <2>. QED BY <2>2, <2>3, OpenPduFact DEF Decoded
<1>2. CASE DecodeFF(DefaultNad, f)
  <2>1. f = FFrame(OpenPdu)
    BY <1>2 DEF OpenFrames, CFrames, SFrame, DecodeFF, LegalFF
  <2>. DEFINE t == Taken(OpenPdu, FFPayload)
  <2>2. f.len = 5 /\ f.data = t
    BY <2>1, OpenPduFact DEF FFrame
  <2>3. t \in Seq(Bytes) /\ t # <<>> /\ t[1] = OpenSid /\ Len(t) <= FFPayload
    <3>1. OpenPdu \in Seq(Bytes) /\ OpenPdu # <<>> /\ Len(OpenPdu) = 5
          /\ OpenPdu[1] = OpenSid /\ FFPayload \in Nat /\ FFPayload \in Nat \ {0}
      BY <1>0, OpenPduFact
    <3>2. t # <<>> /\ t[1] = OpenSid
      BY <3>1, TakenFirst, Zenon
    <3>3. t \in Seq(Bytes) /\ Len(t) = IF FFPayload <= 5 THEN FFPayload ELSE 5
      BY <3>1, TakenFact, Zenon
    <3>4. (IF FFPayload <= 5 THEN FFPayload ELSE 5) <= FFPayload
      BY <3>1
    <3>. QED BY <3>2, <3>3, <3>4
  <2>. HIDE DEF t
  <2>4. Taken(t, FFPayload) = t
    BY <1>0, <2>3, TakenAll
  <2>5. rx_buffer' = t /\ rx_expected_len' = 5 /\ rx_result' = Decoded(t)
        /\ rx_state' = (IF FFPayload < 5 THEN "CF" ELSE "FF") /\ expected_nad' = expected_nad
    BY <1>2, <2>2, <2>4 DEF DecodeFF, filterVars
  <2>6. ReceiverInv'
    <3>1. rx_state' = "CF" => Len(t) < 5
      BY <1>0, <2>3, <2>5
    <3>. QED BY <2>3, <2>5, <3>1 DEF ReceiverInv
  <2>. QED BY <2>3, <2>5, <2>6 DEF Decoded
<1>3. CASE DecodeCF(DefaultNad, f)
  <2>1. f.data \in Seq(Bytes) /\ rx_state = "CF"
    BY <1>3 DEF OpenFrames, CFrames, SFrame, FFrame, DecodeCF, LegalCF
  <2>2. /\ rx_buffer \in Seq(Bytes) /\ rx_buffer # <<>> /\ rx_buffer[1] = OpenSid
        /\ rx_expected_len \in Nat /\ Len(rx_buffer) < rx_expected_len
    BY <2>1 DEF ReceiverInv
  <2>3. CfBytes(f) \in Seq(Bytes)
    <3>1. Least(CFPayload, rx_expected_len - Len(rx_buffer)) \in Nat
      BY <1>0, <2>2 DEF Least
    <3>. QED BY <2>1, <3>1, TakenFact DEF CfBytes
  <2>. DEFINE c == CfBytes(f)
              g == rx_buffer \o c
  <2>4. rx_buffer' = g /\ rx_result' = Decoded(g) /\ rx_expected_len' = rx_expected_len
        /\ rx_state' = (IF Len(g) >= rx_expected_len THEN "IDLE" ELSE "CF")
        /\ expected_nad' = expected_nad
    BY <1>3 DEF DecodeCF, filterVars
  <2>. HIDE DEF c
  <2>5. g \in Seq(Bytes) /\ g # <<>> /\ g[1] = OpenSid
    <3>1. c \in Seq(Bytes)
      BY <2>3 DEF c
    <3>2. Len(rx_buffer) \in Nat \ {0} /\ Len(c) \in Nat
      BY <2>2, <3>1
    <3>3. rx_buffer \o c \in Seq(Bytes) /\ Len(rx_buffer \o c) = Len(rx_buffer) + Len(c)
          /\ \A i \in 1 .. Len(rx_buffer) + Len(c) :
               (rx_buffer \o c)[i] = IF i <= Len(rx_buffer) THEN rx_buffer[i]
                                     ELSE c[i - Len(rx_buffer)]
      BY <2>2, <3>1, ConcatProperties, Zenon
    <3>4. (rx_buffer \o c)[1] = rx_buffer[1] /\ Len(rx_buffer \o c) # 0
      BY <3>2, <3>3
    <3>. QED BY <2>2, <3>3, <3>4
  <2>. HIDE DEF g
  <2>6. ReceiverInv'
    <3>1. rx_state' = "CF" => Len(g) < rx_expected_len
      BY <2>2, <2>4, <2>5
    <3>. QED BY <2>2, <2>4, <2>5, <3>1 DEF ReceiverInv
  <2>. QED BY <2>4, <2>5, <2>6 DEF Decoded
<1>4. CASE RejectPci(DefaultNad, f)
  <2>1. ReceiverInv'
    BY <1>4 DEF ReceiverInv, RejectPci, filterVars
  <2>. QED BY <1>4, <2>1 DEF RejectPci, Failed, Answers
<1>. QED BY <1>1, <1>2, <1>3, <1>4 DEF Decode

\* The frames each request is sent in.
LEMMA FramesFact ==
  /\ FramesOf(OpenPdu) \in Seq(OpenFrames)
  /\ FramesOf(<<ExitSid>>) \in Seq(ExitFrames)
  /\ ShortBlocks => \A k \in 1 .. BlockCount : FramesOf(BlockPdu(k)) \in Seq(BlockFrames(k))
<1>0. FFPayload \in Nat \ {0} /\ CFPayload \in Nat \ {0} /\ SFMax \in Nat \ {0}
      /\ FFPayload <= SFMax /\ SeqMax \in Nat \ {0}
  BY FrameParameters
<1>1. FramesOf(OpenPdu) \in Seq(OpenFrames)
  <2>1. CASE 5 <= SFMax
    BY <2>1, OpenPduFact DEF FramesOf, OpenFrames
  <2>2. CASE ~(5 <= SFMax)
    <3>. DEFINE n  == CfCount(5)
                cs == [k \in 1 .. n |-> CfOf(OpenPdu, k)]
    <3>1. n \in Nat
      <4>1. 5 - FFPayload + CFPayload - 1 \in Nat
        BY <1>0, <2>2
      <4>2. \A x \in Nat : x \div CFPayload \in Nat
        BY <1>0
      <4>. QED BY <4>1, <4>2 DEF CfCount
    <3>2. ASSUME NEW k \in 1 .. n PROVE CfOf(OpenPdu, k) \in CFrames
      <4>. DEFINE s == SubSeq(OpenPdu, FFPayload + (k - 1) * CFPayload + 1, Len(OpenPdu))
                  t == Taken(s, CFPayload)
      <4>1. k - 1 \in Nat
        <5>. HIDE DEF n
        <5>. QED BY <3>1
      <4>2. NextSeq(k - 1) \in Nat
        BY <1>0, <4>1 DEF NextSeq
      <4>3. (k - 1) * CFPayload \in Nat
        BY <1>0, <4>1
      <4>4. s \in Seq(Bytes)
        <5>. DEFINE a == FFPayload + (k - 1) * CFPayload + 1
        <5>1. a \in Nat \ {0}
          BY <1>0, <4>3
        <5>. HIDE DEF a
        <5>2. \A b \in Seq(Bytes) : SubSeq(b, a, Len(b)) \in Seq(Bytes)
          BY <5>1
        <5>. QED BY <5>2, OpenPduFact, Zenon DEF a
      <4>. HIDE DEF s
      <4>5. t \in Seq(Bytes)
        BY <1>0, <4>4, TakenFact
      <4>. HIDE DEF t
      <4>6. Padded(t, CFPayload) \in Seq(Bytes)
        <5>1. \A i \in 1 .. CFPayload : (IF i <= Len(t) THEN t[i] ELSE Pad) \in Bytes
          BY <1>0, <4>5, FrameParameters
        <5>2. Padded(t, CFPayload) \in [1 .. CFPayload -> Bytes]
          BY <5>1 DEF Padded
        <5>. QED BY <1>0, <5>2
      <4>. QED BY <4>2, <4>6 DEF CfOf, CFrame, CFrames, s, t
    <3>3. cs \in Seq(OpenFrames)
      <4>1. cs \in [1 .. n -> OpenFrames]
        BY <3>2 DEF OpenFrames
      <4>. HIDE DEF cs, n
      <4>. QED BY <3>1, <4>1
    <3>4. FramesOf(OpenPdu) = <<FFrame(OpenPdu)>> \o cs
      BY <1>0, <2>2, OpenPduFact DEF FramesOf
    <3>5. <<FFrame(OpenPdu)>> \in Seq(OpenFrames)
      BY DEF OpenFrames
    <3>. HIDE DEF cs
    <3>. QED BY <3>3, <3>4, <3>5
  <2>. QED BY <2>1, <2>2
<1>2. FramesOf(<<ExitSid>>) \in Seq(ExitFrames)
  <2>1. Len(<<ExitSid>>) <= SFMax
    BY <1>0
  <2>. QED BY <2>1 DEF FramesOf, ExitFrames
<1>3. ASSUME ShortBlocks, NEW k \in 1 .. BlockCount
      PROVE  FramesOf(BlockPdu(k)) \in Seq(BlockFrames(k))
  <2>1. Len(BlockPdu(k)) <= SFMax
    BY <1>0, <1>3, BlockPduFact
  <2>. QED BY <2>1 DEF FramesOf, BlockFrames
<1>. QED BY <1>1, <1>2, <1>3

-----------------------------------------------------------------------------
(* What the transfer services do with each request. *)

\* The counter of the next block follows that of the last, and differs from it.
LEMMA CounterFact ==
  ASSUME NEW n \in Nat
  PROVE  /\ n % ByteSize \in 0 .. ByteSize - 1
         /\ ((n % ByteSize) + 1) % ByteSize = (n + 1) % ByteSize
         /\ ((n % ByteSize) + 1) % ByteSize # n % ByteSize
<1>1. ByteSize \in Nat \ {0} /\ ByteSize > 1 /\ n \in Int /\ 0 \in Int
  BY TransferParameters
<1>2. PICK q \in Int, r \in 0 .. ByteSize - 1 : n = q * ByteSize + r /\ n % ByteSize = r
  BY <1>1, Division
<1>3. CASE r + 1 < ByteSize
  <2>1. r + 1 \in 0 .. ByteSize - 1 /\ n + 1 = q * ByteSize + (r + 1) /\ n + 1 \in Int
        /\ r + 1 = 0 * ByteSize + (r + 1) /\ r + 1 \in Int
    BY <1>1, <1>2, <1>3
  <2>2. (n + 1) % ByteSize = r + 1
    BY <1>1, <1>2, <2>1, DivisionUnique, Zenon
  <2>3. (r + 1) % ByteSize = r + 1
    BY <1>1, <2>1, DivisionUnique, Zenon
  <2>. QED BY <1>2, <2>2, <2>3
<1>4. CASE ~(r + 1 < ByteSize)
  <2>1. r + 1 = ByteSize
    BY <1>1, <1>2, <1>4
  <2>2. n + 1 = (q + 1) * ByteSize + 0 /\ n + 1 \in Int /\ q + 1 \in Int /\ 0 \in 0 .. ByteSize - 1
        /\ r + 1 = 1 * ByteSize + 0 /\ r + 1 \in Int /\ 1 \in Int
    BY <1>1, <1>2, <2>1
  <2>3. (n + 1) % ByteSize = 0
    BY <1>1, <2>2, DivisionUnique, Zenon
  <2>4. (r + 1) % ByteSize = 0
    BY <1>1, <2>2, DivisionUnique, Zenon
  <2>. QED BY <1>1, <1>2, <2>1, <2>3, <2>4
<1>. QED BY <1>3, <1>4

\* A request to open is refused and changes nothing, or opens the transfer of the
\* image when none was open.
LEMMA OpenServed ==
  ASSUME NEW pdu, pdu[1] = OpenSid, Dispatch(pdu)
  PROVE  /\ stored' = stored /\ rsp'.nrc \in Nrcs
         /\ \/ rsp'.nrc # "NONE" /\ UNCHANGED <<transferVars, bufferVars>>
            \/ rsp'.nrc = "NONE" /\ ~active /\ Holds(0)'
<1>1. /\ RequestTransfer("DOWNLOAD", "PROGRAMMING", TRUE, Len(pdu) >= Len(OpenPdu),
                         Address, Len(Image))
      /\ stored' = stored
  BY DownloadParameters DEF Dispatch
<1>2. CASE RefuseTransfer("PROGRAMMING", TRUE, Len(pdu) >= Len(OpenPdu), Address, Len(Image))
  <2>. DEFINE r == RequestRefusal("PROGRAMMING", TRUE, Len(pdu) >= Len(OpenPdu),
                                  Address, Len(Image))
  <2>1. r \in Nrcs
    BY DEF RequestRefusal, Nrcs
  <2>2. r # "NONE" /\ rsp' = Negative(r) /\ UNCHANGED <<transferVars, bufferVars>>
    BY <1>2 DEF RefuseTransfer
  <2>. HIDE DEF r
  <2>3. rsp'.nrc = r
    BY <2>2 DEF Negative
  <2>. QED BY <1>1, <2>1, <2>2, <2>3
<1>3. CASE OpenTransfer("DOWNLOAD", "PROGRAMMING", TRUE, Address, Len(Image))
  <2>1. RequestRefusal("PROGRAMMING", TRUE, TRUE, Address, Len(Image)) = "NONE"
    BY <1>3 DEF OpenTransfer
  <2>2. ~active /\ Len(Image) # 0 /\ ~(Len(Image) > BufferSize)
    BY <2>1 DEF RequestRefusal, RangeValid
  <2>3. Len(Image) \in 1 .. BufferSize
    BY <2>2, ReachFact, TransferParameters
  <2>4. active' = TRUE /\ direction' = "DOWNLOAD" /\ remaining_size' = Len(Image)
        /\ block_seq_counter' = 0 /\ buffer_length' = 0 /\ rsp' = Positive(<<>>)
    BY <1>3 DEF OpenTransfer
  <2>5. Reach(0) = 0 /\ Len(Image) - Reach(0) = Len(Image)
    BY <2>3, ReachFact
  <2>6. 0 % ByteSize = 0
    BY TransferParameters
  <2>7. Holds(0)'
    BY <2>3, <2>4, <2>5, <2>6 DEF Holds
  <2>8. rsp'.nrc = "NONE"
    BY <2>4 DEF Positive
  <2>. QED BY <1>1, <2>2, <2>7, <2>8 DEF Nrcs
<1>. QED BY <1>1, <1>2, <1>3 DEF RequestTransfer

\* A block is stored behind those before it, or, when it was stored already,
\* refused.
LEMMA BlockServed ==
  ASSUME ShortBlocks, NEW k \in 1 .. BlockCount, Dispatch(BlockPdu(k))
  PROVE  /\ stored' = stored /\ rsp'.nrc \in Nrcs
         /\ Holds(k - 1) => Holds(k)' /\ rsp'.nrc = "NONE"
         /\ Holds(k) => Holds(k)' /\ rsp'.nrc # "NONE"
<1>. DEFINE d == Block(k)
            c == k % ByteSize
<1>1. TransferData(c, d) /\ stored' = stored
  <2>1. BlockPdu(k)[1] = DataSid /\ BlockPdu(k)[2] = c
        /\ SubSeq(BlockPdu(k), 3, Len(BlockPdu(k))) = d
    BY BlockPduFact
  <2>. HIDE DEF d, c
  <2>. QED BY <2>1, DownloadParameters DEF Dispatch
<1>2. d \in Seq(DataBytes) /\ Len(d) \in 1 .. Piece /\ Reach(k) = Reach(k - 1) + Len(d)
      /\ \A i \in 1 .. Len(d) : d[i] = Image[Reach(k - 1) + i]
  BY BlockFact
<1>3. k \in Nat /\ k - 1 \in Nat /\ (k - 1) + 1 = k /\ Len(Image) \in Nat
      /\ Piece \in Nat /\ BufferSize \in Nat
  <2>1. BlockCount \in Nat /\ Len(Image) \in Nat
    BY ReachFact
  <2>. QED BY <2>1, DownloadParameters, TransferParameters
<1>4. Reach(k) \in 0 .. Len(Image) /\ Reach(k - 1) \in 0 .. Len(Image)
  BY <1>3, ReachFact
<1>. HIDE DEF d
<1>5. rsp'.nrc \in Nrcs
  <2>1. BlockRefusal(d) \in Nrcs
    BY DEF BlockRefusal, Nrcs
  <2>. QED
    BY <1>1, <2>1 DEF TransferData, NoTransfer, WrongBlock, RefuseBlock, StoreBlock, SendBlock,
                      Positive, Negative, Nrcs
<1>6. ASSUME Holds(k - 1) PROVE Holds(k)' /\ rsp'.nrc = "NONE"
  <2>1. active /\ direction = "DOWNLOAD" /\ Len(Image) \in 1 .. BufferSize
        /\ block_seq_counter = (k - 1) % ByteSize
        /\ buffer_length = Reach(k - 1) /\ remaining_size = Len(Image) - Reach(k - 1)
        /\ \A i \in 1 .. Reach(k - 1) : buffer[i] = Image[i]
    BY <1>6 DEF Holds
  <2>2. NextBlock = c
    BY <1>3, <2>1, CounterFact DEF NextBlock
  <2>3. WriteLen(d) = Len(d) /\ buffer_length + WriteLen(d) = Reach(k)
        /\ remaining_size - WriteLen(d) = Len(Image) - Reach(k) /\ ~(Reach(k) > BufferSize)
    BY <1>2, <1>3, <1>4, <2>1 DEF WriteLen, Least2
  <2>4. d # <<>>
    BY <1>2
  <2>5. BlockRefusal(d) = "NONE"
    BY <2>1, <2>3, <2>4 DEF BlockRefusal
  <2>. HIDE DEF c
  <2>6. StoreBlock(c, d)
    BY <1>1, <2>1, <2>2, <2>5 DEF TransferData, NoTransfer, WrongBlock, RefuseBlock, SendBlock
  <2>7. active' = active /\ direction' = direction /\ block_seq_counter' = c
        /\ buffer' = Stored(d) /\ buffer_length' = Reach(k)
        /\ remaining_size' = Len(Image) - Reach(k) /\ rsp' = Positive(<<>>)
    BY <2>3, <2>6 DEF StoreBlock, AcceptCounter
  <2>8. ASSUME NEW i \in 1 .. Reach(k) PROVE Stored(d)[i] = Image[i]
    <3>1. i \in 1 .. BufferSize
      BY <1>3, <1>4, <2>1
    <3>2. Stored(d)[i] = IF i - Reach(k - 1) \in 1 .. Len(d) THEN d[i - Reach(k - 1)] ELSE buffer[i]
      BY <2>1, <2>3, <3>1 DEF Stored
    <3>3. CASE i - Reach(k - 1) \in 1 .. Len(d)
      <4>1. Reach(k - 1) + (i - Reach(k - 1)) = i
        BY <1>4, <3>1
      <4>. QED BY <1>2, <3>2, <3>3, <4>1
    <3>4. CASE ~(i - Reach(k - 1) \in 1 .. Len(d))
      <4>1. i \in 1 .. Reach(k - 1)
        BY <1>2, <1>3, <1>4, <3>4
      <4>. QED BY <2>1, <3>2, <3>4, <4>1
    <3>. QED BY <3>3, <3>4
  <2>9. Holds(k)'
    BY <2>1, <2>7, <2>8 DEF Holds, c
  <2>. QED BY <2>7, <2>9 DEF Positive
<1>7. ASSUME Holds(k) PROVE Holds(k)' /\ rsp'.nrc # "NONE"
  <2>1. active /\ NextBlock # c
    BY <1>3, <1>7, CounterFact DEF Holds, NextBlock
  <2>. HIDE DEF c
  <2>2. WrongBlock(c)
    BY <1>1, <2>1 DEF TransferData, NoTransfer, RefuseBlock, StoreBlock, SendBlock, AcceptCounter
  <2>3. Holds(k)'
    BY <1>7, <2>2 DEF Holds, WrongBlock, transferVars, bufferVars
  <2>. QED BY <2>2, <2>3 DEF WrongBlock, Negative
<1>. QED BY <1>1, <1>5, <1>6, <1>7

\* An exit closes the transfer that is open, with what it holds stored; when none
\* is open, nothing changes.
LEMMA ExitServed ==
  ASSUME NEW pdu, Len(pdu) = 1, pdu[1] = ExitSid, Dispatch(pdu)
  PROVE  /\ ~active' /\ rsp'.nrc \in Nrcs
         /\ ~active => stored' = stored
         /\ Holds(BlockCount) => stored' = Image
<1>1. NoTransfer \/ CloseTransfer
  <2>1. pdu[1] # OpenSid /\ pdu[1] # DataSid
    BY DownloadParameters
  <2>2. ~(Len(pdu) > 1)
    OBVIOUS
  <2>. QED BY <2>1, <2>2, Zenon DEF Dispatch
<1>2. stored' = IF active THEN Prefix(buffer, buffer_length) ELSE stored
  BY DownloadParameters DEF Dispatch
<1>3. ~active' /\ rsp'.nrc \in Nrcs
  BY <1>1 DEF NoTransfer, CloseTransfer, transferVars, Negative, Positive, Nrcs
<1>4. ASSUME Holds(BlockCount) PROVE stored' = Image
  <2>1. active /\ buffer_length = Len(Image) /\ \A i \in 1 .. Len(Image) : buffer[i] = Image[i]
    BY <1>4, ReachFact DEF Holds
  <2>2. stored' = [i \in 1 .. Len(Image) |-> buffer[i]]
    BY <1>2, <2>1 DEF Prefix
  <2>3. Image = [i \in 1 .. Len(Image) |-> Image[i]]
    BY DownloadParameters
  <2>. QED BY <2>1, <2>2, <2>3
<1>. QED BY <1>2, <1>3, <1>4

-----------------------------------------------------------------------------
(* What a frame under way does when it arrives. *)

\* Answers to one request, and the next to it.
LEMMA AnswersGrow ==
  ASSUME NEW R, NEW Q, R \subseteq Q, answers \in Seq(R),
         NEW pdu, AnswerTo(pdu) \in Q, SendAnswer(pdu)
  PROVE  answers' \in Seq(Q)
<1>1. answers \in Seq(Q)
  OBVIOUS
<1>. DEFINE a == AnswerTo(pdu)
<1>2. answers' = Append(answers, a) \/ answers' = answers
  BY DEF SendAnswer
<1>3. a \in Q
  OBVIOUS
<1>. HIDE DEF a
<1>. QED BY <1>1, <1>2, <1>3

\* What an answer says.
LEMMA AnswerFact ==
  ASSUME NEW pdu, rsp'.nrc \in Nrcs, pdu[1] = DataSid => pdu[2] \in 0 .. ByteSize - 1
  PROVE  /\ AnswerTo(pdu) \in AnswersTo(pdu[1]) /\ AnswerTo(pdu).nrc = rsp'.nrc
         /\ pdu[1] = DataSid /\ rsp'.nrc = "NONE" => AnswerTo(pdu).bsc = pdu[2]
  BY TransferParameters DEF AnswerTo, AnswersTo

\* The transfer is as before.
LEMMA HoldsStill ==
  ASSUME NEW n, Holds(n), UNCHANGED <<transferVars, bufferVars>>
  PROVE  Holds(n)'
  BY DEF Holds, transferVars, bufferVars

\* A frame of the request to open.
LEMMA OpenProcessed ==
  ASSUME ReceiverInv, ProcessFrame, requests \in Seq(OpenFrames),
         NEW R \in {Refusals(OpenSid), AnswersTo(OpenSid)}, answers \in Seq(R)
  PROVE  /\ ReceiverInv' /\ requests' \in Seq(OpenFrames) /\ stored' = stored
         /\ \/ UNCHANGED <<transferVars, bufferVars>> /\ answers' \in Seq(R)
            \/ ~active /\ Holds(0)' /\ answers' \in Seq(AnswersTo(OpenSid))
<1>. DEFINE f == Head(requests)
            d == rx_result'.data
<1>1. f \in OpenFrames /\ requests' \in Seq(OpenFrames)
  BY DEF ProcessFrame
<1>2. Decode(DefaultNad, f)
  BY DEF ProcessFrame
<1>. HIDE DEF f
<1>3. ReceiverInv' /\ (Answers(rx_result') => d \in Seq(Bytes) /\ d[1] = OpenSid)
  BY <1>1, <1>2, OpenFrameDecodes
<1>4. CASE ~Answers(rx_result')
  BY <1>1, <1>3, <1>4 DEF ProcessFrame, uploadVars
<1>5. CASE Answers(rx_result')
  <2>1. Dispatch(d) /\ SendAnswer(d) /\ d[1] = OpenSid
    BY <1>3, <1>5 DEF ProcessFrame
  <2>. HIDE DEF d
  <2>2. stored' = stored /\ rsp'.nrc \in Nrcs
    BY <2>1, OpenServed
  <2>3. AnswerTo(d) \in AnswersTo(OpenSid) /\ AnswerTo(d).nrc = rsp'.nrc
    BY <2>1, <2>2, AnswerFact, DownloadParameters
  <2>4. R \subseteq AnswersTo(OpenSid)
    BY DEF Refusals
  <2>5. CASE rsp'.nrc # "NONE" /\ UNCHANGED <<transferVars, bufferVars>>
    <3>1. AnswerTo(d) \in R
      BY <2>3, <2>5 DEF Refusals
    <3>2. answers' \in Seq(R)
      BY <2>1, <3>1, AnswersGrow
    <3>. QED BY <1>1, <1>3, <2>2, <2>5, <3>2
  <2>6. CASE rsp'.nrc = "NONE" /\ ~active /\ Holds(0)'
    <3>1. answers' \in Seq(AnswersTo(OpenSid))
      BY <2>1, <2>3, <2>4, AnswersGrow
    <3>. QED BY <1>1, <1>3, <2>2, <2>6, <3>1
  <2>. QED BY <2>1, <2>5, <2>6, OpenServed
<1>. QED BY <1>4, <1>5

\* The frame of a block.
LEMMA BlockProcessed ==
  ASSUME ShortBlocks, ReceiverInv, ProcessFrame,
         NEW k \in 1 .. BlockCount, requests \in Seq(BlockFrames(k))
  PROVE  /\ ReceiverInv' /\ requests' \in Seq(BlockFrames(k)) /\ stored' = stored
         /\ answers \in Seq(AnswersTo(DataSid)) => answers' \in Seq(AnswersTo(DataSid))
         /\ Holds(k - 1) => Holds(k)'
         /\ Holds(k) => Holds(k)'
         /\ /\ Holds(k - 1) \/ Holds(k)
            /\ answers \in Seq(Refusals(DataSid)) \/ answers \in Seq(BlockAnswers(k))
            => answers' \in Seq(BlockAnswers(k))
<1>. DEFINE d == BlockPdu(k)
<1>1. Head(requests) \in BlockFrames(k) /\ requests' \in Seq(BlockFrames(k))
      /\ Decode(DefaultNad, Head(requests))
  BY DEF ProcessFrame
<1>2. Decode(DefaultNad, SFrame(d))
  BY <1>1 DEF BlockFrames
<1>3. d \in Seq(Bytes) /\ Len(d) \in 1 .. SFMax /\ d[1] = DataSid /\ d[2] = k % ByteSize
      /\ k % ByteSize \in 0 .. ByteSize - 1
  BY BlockPduFact
<1>. HIDE DEF d
<1>4. ReceiverInv' /\ rx_result' = Decoded(d) /\ Answers(rx_result')
  BY <1>2, <1>3, SingleDecodes
<1>5. Dispatch(d) /\ SendAnswer(d)
  BY <1>4 DEF ProcessFrame, Decoded
<1>6. /\ stored' = stored /\ rsp'.nrc \in Nrcs
      /\ Holds(k - 1) => Holds(k)' /\ rsp'.nrc = "NONE"
      /\ Holds(k) => Holds(k)' /\ rsp'.nrc # "NONE"
  BY <1>5, BlockServed DEF d
<1>7. AnswerTo(d) \in AnswersTo(DataSid) /\ AnswerTo(d) \in BlockAnswers(k)
  <2>1. d[1] = DataSid => d[2] \in 0 .. ByteSize - 1
    BY <1>3
  <2>2. AnswerTo(d) \in AnswersTo(DataSid) /\ AnswerTo(d).nrc = rsp'.nrc
        /\ (rsp'.nrc = "NONE" => AnswerTo(d).bsc = k % ByteSize)
    BY <1>3, <1>6, <2>1, AnswerFact
  <2>. QED BY <2>2 DEF BlockAnswers
<1>8. answers \in Seq(AnswersTo(DataSid)) => answers' \in Seq(AnswersTo(DataSid))
  BY <1>5, <1>7, AnswersGrow
<1>9. answers \in Seq(Refusals(DataSid)) \/ answers \in Seq(BlockAnswers(k))
      => answers' \in Seq(BlockAnswers(k))
  <2>1. Refusals(DataSid) \subseteq BlockAnswers(k)
    BY DEF Refusals, BlockAnswers
  <2>. QED BY <1>5, <1>7, <2>1, AnswersGrow
<1>. QED BY <1>1, <1>4, <1>6, <1>8, <1>9

\* The frame of an exit.
LEMMA ExitProcessed ==
  ASSUME ReceiverInv, ProcessFrame, requests \in Seq(ExitFrames)
  PROVE  /\ ReceiverInv' /\ requests' \in Seq(ExitFrames) /\ ~active'
         /\ answers \in Seq(AnswersTo(ExitSid)) => answers' \in Seq(AnswersTo(ExitSid))
         /\ ~active => stored' = stored
         /\ Holds(BlockCount) => stored' = Image
<1>. DEFINE d == <<ExitSid>>
<1>1. Head(requests) \in ExitFrames /\ requests' \in Seq(ExitFrames)
      /\ Decode(DefaultNad, Head(requests))
  BY DEF ProcessFrame
<1>2. Decode(DefaultNad, SFrame(d))
  BY <1>1 DEF ExitFrames
<1>3. d \in Seq(Bytes) /\ Len(d) = 1 /\ Len(d) \in 1 .. SFMax /\ d[1] = ExitSid
  BY DownloadParameters, FrameParameters
<1>. HIDE DEF d
<1>4. ReceiverInv' /\ rx_result' = Decoded(d) /\ Answers(rx_result')
  BY <1>2, <1>3, SingleDecodes
<1>5. Dispatch(d) /\ SendAnswer(d)
  BY <1>4 DEF ProcessFrame, Decoded
<1>6. ~active' /\ rsp'.nrc \in Nrcs /\ (~active => stored' = stored)
      /\ (Holds(BlockCount) => stored' = Image)
  BY <1>3, <1>5, ExitServed
<1>7. AnswerTo(d) \in AnswersTo(ExitSid)
  BY <1>3, <1>6, AnswerFact, DownloadParameters
<1>8. answers \in Seq(AnswersTo(ExitSid)) => answers' \in Seq(AnswersTo(ExitSid))
  BY <1>5, <1>7, AnswersGrow
<1>. QED BY <1>1, <1>4, <1>6, <1>8

-----------------------------------------------------------------------------
(* Each step keeps the invariant. *)

\* A transfer of the image open: the image has blocks.
LEMMA BlocksFact ==
  ASSUME NEW n, Holds(n)
  PROVE  BlockCount \in Nat \ {0} /\ BlockCount \in 1 .. BlockCount
<1>1. Len(Image) # 0
  BY DEF Holds
<1>2. BlockCount # 0 /\ BlockCount \in Nat
  BY <1>1, ReachFact
<1>. QED BY <1>2

\* The number of blocks confirmed, while they are sent.
LEMMA ConfirmedFact ==
  ASSUME NEW n \in 0 .. BlockCount - 1
  PROVE  /\ n \in Nat /\ n + 1 \in 1 .. BlockCount /\ (n + 1) - 1 = n /\ BlockCount \in Nat
         /\ n # 0 => n \in 1 .. BlockCount
<1>1. BlockCount \in Nat
  BY ReachFact
<1>. QED BY <1>1

\* A frame under way is processed.
LEMMA ProcessStep ==
  ASSUME ShortBlocks, DownloadInv, ProcessFrame
  PROVE  DownloadInv'
<1>0. phase' = phase /\ confirmed' = confirmed /\ tries' = tries /\ requests # <<>>
  BY DEF ProcessFrame, testerVars
<1>1. CASE phase = "failed"
  BY <1>0, <1>1 DEF DownloadInv
<1>2. CASE ReceiverInv /\ Opening
  <2>1. CASE tries = 0 /\ ~active /\ Pipe(ExitFrames, AnswersTo(ExitSid))
    BY <1>0, <1>2, <2>1, ExitProcessed DEF DownloadInv, Opening, Pipe
  <2>2. CASE tries > 0 /\ ~active /\ Pipe(OpenFrames, Refusals(OpenSid))
    <3>1. /\ ReceiverInv' /\ requests' \in Seq(OpenFrames)
          /\ \/ UNCHANGED <<transferVars, bufferVars>> /\ answers' \in Seq(Refusals(OpenSid))
             \/ Holds(0)' /\ answers' \in Seq(AnswersTo(OpenSid))
      BY <1>2, <2>2, OpenProcessed DEF Pipe
    <3>. QED BY <1>0, <1>2, <2>2, <3>1 DEF DownloadInv, Opening, Pipe, transferVars
  <2>3. CASE tries > 0 /\ Holds(0) /\ Pipe(OpenFrames, AnswersTo(OpenSid))
    <3>1. active
      BY <2>3 DEF Holds
    <3>2. /\ ReceiverInv' /\ requests' \in Seq(OpenFrames)
          /\ UNCHANGED <<transferVars, bufferVars>> /\ answers' \in Seq(AnswersTo(OpenSid))
      BY <1>2, <2>3, <3>1, OpenProcessed DEF Pipe
    <3>3. Holds(0)'
      BY <2>3, <3>2, HoldsStill
    <3>. QED BY <1>0, <1>2, <2>3, <3>2, <3>3 DEF DownloadInv, Opening, Pipe
  <2>. QED BY <1>2, <2>1, <2>2, <2>3 DEF Opening
<1>3. CASE ReceiverInv /\ Sending
  <2>0. PICK n \in 0 .. BlockCount - 1 :
          /\ confirmed = n
          /\ \/ /\ tries = 0 /\ Holds(n)
                /\ IF n = 0 THEN Pipe(OpenFrames, AnswersTo(OpenSid))
                   ELSE Pipe(BlockFrames(n), BlockAnswers(n))
             \/ tries > 0 /\ Holds(n) /\ Pipe(BlockFrames(n + 1), Refusals(DataSid))
             \/ tries > 0 /\ Holds(n + 1) /\ Pipe(BlockFrames(n + 1), BlockAnswers(n + 1))
    BY <1>3 DEF Sending
  <2>1. n + 1 \in 1 .. BlockCount /\ (n + 1) - 1 = n /\ (n # 0 => n \in 1 .. BlockCount)
    BY ConfirmedFact
  <2>2. CASE tries = 0 /\ Holds(n) /\ n = 0 /\ Pipe(OpenFrames, AnswersTo(OpenSid))
    <3>1. active
      BY <2>2 DEF Holds
    <3>2. /\ ReceiverInv' /\ requests' \in Seq(OpenFrames)
          /\ UNCHANGED <<transferVars, bufferVars>> /\ answers' \in Seq(AnswersTo(OpenSid))
      BY <1>3, <2>2, <3>1, OpenProcessed DEF Pipe
    <3>3. Holds(n)'
      BY <2>2, <3>2, HoldsStill
    <3>. QED BY <1>0, <1>3, <2>0, <2>2, <3>2, <3>3 DEF DownloadInv, Sending, Pipe
  <2>3. CASE tries = 0 /\ Holds(n) /\ n # 0 /\ Pipe(BlockFrames(n), BlockAnswers(n))
    <3>1. ReceiverInv' /\ requests' \in Seq(BlockFrames(n)) /\ Holds(n)'
          /\ answers' \in Seq(BlockAnswers(n))
      BY <1>3, <2>1, <2>3, BlockProcessed DEF Pipe
    <3>. QED BY <1>0, <1>3, <2>0, <2>3, <3>1 DEF DownloadInv, Sending, Pipe
  <2>. DEFINE k == n + 1
  <2>. HIDE DEF k
  <2>4. k \in 1 .. BlockCount /\ k - 1 = n
    BY <2>1 DEF k
  <2>5. CASE /\ tries > 0
             /\ \/ Holds(n) /\ Pipe(BlockFrames(k), Refusals(DataSid))
                \/ Holds(k) /\ Pipe(BlockFrames(k), BlockAnswers(k))
    <3>1. ReceiverInv' /\ requests' \in Seq(BlockFrames(k)) /\ Holds(k)'
          /\ answers' \in Seq(BlockAnswers(k))
      BY <1>3, <2>4, <2>5, BlockProcessed DEF Pipe
    <3>. QED BY <1>0, <1>3, <2>0, <2>5, <3>1 DEF DownloadInv, Sending, Pipe, k
  <2>. QED BY <2>0, <2>2, <2>3, <2>5 DEF k
<1>4. CASE ReceiverInv /\ Exiting
  <2>1. CASE tries = 0 /\ Holds(BlockCount) /\ Pipe(BlockFrames(BlockCount), AnswersTo(DataSid))
    <3>1. BlockCount \in 1 .. BlockCount
      BY <2>1, BlocksFact
    <3>2. ReceiverInv' /\ requests' \in Seq(BlockFrames(BlockCount)) /\ Holds(BlockCount)'
          /\ answers' \in Seq(AnswersTo(DataSid))
      BY <1>4, <2>1, <3>1, BlockProcessed DEF Pipe
    <3>. QED BY <1>0, <1>4, <2>1, <3>2 DEF DownloadInv, Exiting, Pipe
  <2>2. CASE tries > 0 /\ Holds(BlockCount) /\ requests \in Seq(ExitFrames) /\ answers = <<>>
    <3>1. answers \in Seq(AnswersTo(ExitSid))
      BY <2>2
    <3>2. ReceiverInv' /\ requests' \in Seq(ExitFrames) /\ ~active' /\ stored' = Image
          /\ answers' \in Seq(AnswersTo(ExitSid))
      BY <1>4, <2>2, <3>1, ExitProcessed
    <3>. QED BY <1>0, <1>4, <2>2, <3>2 DEF DownloadInv, Exiting, Pipe
  <2>3. CASE tries > 0 /\ ~active /\ stored = Image /\ Pipe(ExitFrames, AnswersTo(ExitSid))
    BY <1>0, <1>4, <2>3, ExitProcessed DEF DownloadInv, Exiting, Pipe
  <2>. QED BY <1>4, <2>1, <2>2, <2>3 DEF Exiting
<1>5. CASE ReceiverInv /\ Abandoning
  <2>1. CASE tries = 0 /\ Pipe(OpenFrames, AnswersTo(OpenSid))
    <3>1. ReceiverInv' /\ requests' \in Seq(OpenFrames) /\ answers' \in Seq(AnswersTo(OpenSid))
      BY <1>5, <2>1, OpenProcessed DEF Pipe
    <3>. QED BY <1>0, <1>5, <2>1, <3>1 DEF DownloadInv, Abandoning, Pipe
  <2>2. ASSUME tries = 0, NEW k \in 1 .. BlockCount, Pipe(BlockFrames(k), AnswersTo(DataSid))
        PROVE  DownloadInv'
    <3>1. ReceiverInv' /\ requests' \in Seq(BlockFrames(k)) /\ answers' \in Seq(AnswersTo(DataSid))
      BY <1>5, <2>2, BlockProcessed DEF Pipe
    <3>. QED BY <1>0, <1>5, <2>2, <3>1 DEF DownloadInv, Abandoning, Pipe
  <2>3. CASE Pipe(ExitFrames, AnswersTo(ExitSid))
    <3>1. ReceiverInv' /\ requests' \in Seq(ExitFrames) /\ ~active'
          /\ answers' \in Seq(AnswersTo(ExitSid))
      BY <1>5, <2>3, ExitProcessed DEF Pipe
    <3>. QED BY <1>0, <1>5, <3>1 DEF DownloadInv, Abandoning, Pipe
  <2>. QED BY <1>5, <2>1, <2>2, <2>3 DEF Abandoning
<1>6. CASE ReceiverInv /\ Done
  BY <1>0, <1>6, ExitProcessed DEF DownloadInv, Done, Pipe
<1>. QED BY <1>0, <1>1, <1>2, <1>3, <1>4, <1>5, <1>6 DEF DownloadInv, Preparing

\* What the tester does leaves the ECU as it is.
LEMMA EcuStill ==
  ASSUME UNCHANGED ecuVars
  PROVE  /\ ReceiverInv => ReceiverInv'
         /\ active' = active /\ stored' = stored
         /\ \A n : Holds(n) => Holds(n)'
<1>1. UNCHANGED <<rxVars, transferVars, bufferVars, stored>>
  BY DEF ecuVars, uploadVars
<1>2. ReceiverInv => ReceiverInv'
  BY <1>1 DEF ReceiverInv, rxVars, filterVars
<1>. QED BY <1>1, <1>2, HoldsStill DEF transferVars

\* A frame under way is lost.
LEMMA LoseStep ==
  ASSUME DownloadInv, LoseFrame
  PROVE  DownloadInv'
<1>0. phase' = phase /\ confirmed' = confirmed /\ tries' = tries /\ requests # <<>>
      /\ requests' = Tail(requests) /\ answers' = answers
  BY DEF LoseFrame, testerVars
<1>1. (ReceiverInv => ReceiverInv') /\ active' = active /\ stored' = stored
      /\ \A n : Holds(n) => Holds(n)'
  BY EcuStill DEF LoseFrame
<1>2. ASSUME NEW F, NEW A, Pipe(F, A) PROVE Pipe(F, A)'
  <2>1. requests \in Seq(F) /\ answers' \in Seq(A)
    BY <1>0, <1>2 DEF Pipe
  <2>2. Tail(requests) \in Seq(F)
    BY <1>0, <2>1
  <2>. QED BY <1>0, <2>1, <2>2 DEF Pipe
<1>3. requests \in Seq(ExitFrames) => requests' \in Seq(ExitFrames)
  BY <1>0
<1>4. Opening => Opening'
  BY <1>0, <1>1, <1>2 DEF Opening
<1>5. Sending => Sending'
  <2>. SUFFICES ASSUME Sending PROVE Sending'
    OBVIOUS
  <2>0. PICK n \in 0 .. BlockCount - 1 :
          /\ confirmed = n
          /\ \/ /\ tries = 0 /\ Holds(n)
                /\ IF n = 0 THEN Pipe(OpenFrames, AnswersTo(OpenSid))
                   ELSE Pipe(BlockFrames(n), BlockAnswers(n))
             \/ tries > 0 /\ Holds(n) /\ Pipe(BlockFrames(n + 1), Refusals(DataSid))
             \/ tries > 0 /\ Holds(n + 1) /\ Pipe(BlockFrames(n + 1), BlockAnswers(n + 1))
    BY DEF Sending
  <2>. QED BY <1>0, <1>1, <1>2, <2>0 DEF Sending
<1>6. Exiting => Exiting'
  BY <1>0, <1>1, <1>2, <1>3 DEF Exiting
<1>7. Abandoning => Abandoning'
  BY <1>0, <1>1, <1>2 DEF Abandoning
<1>8. Done => Done'
  BY <1>0, <1>1, <1>2 DEF Done
<1>. QED BY <1>0, <1>1, <1>4, <1>5, <1>6, <1>7, <1>8 DEF DownloadInv, Preparing

\* The request of each phase.
LEMMA RequestFact ==
  /\ phase = "open" => Request = OpenPdu
  /\ phase = "data" => \A n \in Nat : confirmed = n => Request = BlockPdu(n + 1)
  /\ phase = "exit" \/ phase = "abandon" => Request = <<ExitSid>>
<1>1. ASSUME phase = "data", NEW n \in Nat, confirmed = n PROVE Request = BlockPdu(n + 1)
  <2>1. (n + 1) - 1 = n
    OBVIOUS
  <2>2. Request = <<DataSid, (n + 1) % ByteSize>>
                  \o Taken(SubSeq(Image, n * Piece + 1, Len(Image)), Piece)
    BY <1>1, Zenon DEF Request, Counter
  <2>. QED BY <2>1, <2>2 DEF BlockPdu, Block
<1>. QED BY <1>1 DEF Request

\* The present request is sent: for the first time only when nothing is under way.
LEMMA TransmitStep ==
  ASSUME ShortBlocks, DownloadInv, Transmit, tries = 0 => Quiet
  PROVE  DownloadInv'
<1>0. phase' = phase /\ confirmed' = confirmed /\ tries' = tries + 1 /\ answers' = answers
      /\ requests' = requests \o FramesOf(Request) /\ Busy /\ tries \in Nat
  BY DEF Transmit, DownloadInv
<1>1. (ReceiverInv => ReceiverInv') /\ active' = active /\ stored' = stored
      /\ \A n : Holds(n) => Holds(n)'
  BY EcuStill DEF Transmit
<1>2. tries' \in Nat /\ tries' > 0 /\ ~(tries' = 0)
  BY <1>0
<1>3. tries = 0 \/ tries > 0
  BY <1>0
<1>4. ASSUME NEW F, FramesOf(Request) \in Seq(F), tries = 0 \/ requests \in Seq(F)
      PROVE  requests' \in Seq(F)
  <2>. DEFINE q == FramesOf(Request)
  <2>1. requests \in Seq(F)
    <3>1. <<>> \in Seq(F)
      OBVIOUS
    <3>. QED BY <1>4, <3>1, Zenon DEF Quiet
  <2>2. q \in Seq(F)
    BY <1>4
  <2>. HIDE DEF q
  <2>3. requests \o q \in Seq(F)
    BY <2>1, <2>2
  <2>. QED BY <1>0, <2>3 DEF q
<1>5. CASE ReceiverInv /\ Opening
  <2>1. FramesOf(Request) \in Seq(OpenFrames)
    BY <1>5, RequestFact, FramesFact DEF Opening
  <2>2. requests' \in Seq(OpenFrames)
    BY <1>4, <1>5, <2>1 DEF Opening, Pipe
  <2>3. tries = 0 => answers' \in Seq(Refusals(OpenSid))
    BY <1>0 DEF Quiet
  <2>4. Opening'
    BY <1>0, <1>1, <1>2, <1>5, <2>2, <2>3 DEF Opening, Pipe
  <2>. QED BY <1>0, <1>1, <1>2, <1>5, <2>4 DEF DownloadInv
<1>6. CASE ReceiverInv /\ Sending
  <2>0. PICK n \in 0 .. BlockCount - 1 :
          /\ confirmed = n
          /\ \/ /\ tries = 0 /\ Holds(n)
                /\ IF n = 0 THEN Pipe(OpenFrames, AnswersTo(OpenSid))
                   ELSE Pipe(BlockFrames(n), BlockAnswers(n))
             \/ tries > 0 /\ Holds(n) /\ Pipe(BlockFrames(n + 1), Refusals(DataSid))
             \/ tries > 0 /\ Holds(n + 1) /\ Pipe(BlockFrames(n + 1), BlockAnswers(n + 1))
    BY <1>6 DEF Sending
  <2>1. n \in Nat /\ n + 1 \in 1 .. BlockCount
    BY ConfirmedFact
  <2>2. FramesOf(Request) \in Seq(BlockFrames(n + 1))
    <3>1. Request = BlockPdu(n + 1)
      BY <1>6, <2>0, <2>1, RequestFact DEF Sending
    <3>. QED BY <2>1, <3>1, FramesFact
  <2>3. requests' \in Seq(BlockFrames(n + 1))
    <3>1. tries = 0 \/ requests \in Seq(BlockFrames(n + 1))
      BY <2>0 DEF Pipe
    <3>. QED BY <1>4, <2>2, <3>1
  <2>4. tries = 0 => answers' \in Seq(Refusals(DataSid))
    BY <1>0 DEF Quiet
  <2>5. \/ Holds(n)' /\ answers' \in Seq(Refusals(DataSid))
        \/ Holds(n + 1)' /\ answers' \in Seq(BlockAnswers(n + 1))
    BY <1>0, <1>1, <1>3, <2>0, <2>4 DEF Pipe
  <2>6. Sending'
    BY <1>0, <1>2, <1>6, <2>0, <2>3, <2>5 DEF Sending, Pipe
  <2>. QED BY <1>0, <1>1, <1>2, <1>6, <2>6 DEF DownloadInv
<1>7. CASE ReceiverInv /\ Exiting
  <2>1. FramesOf(Request) \in Seq(ExitFrames)
    BY <1>7, RequestFact, FramesFact DEF Exiting
  <2>2. requests' \in Seq(ExitFrames)
    BY <1>4, <1>7, <2>1 DEF Exiting, Pipe
  <2>3. tries = 0 => answers' = <<>>
    BY <1>0 DEF Quiet
  <2>4. Exiting'
    BY <1>0, <1>1, <1>2, <1>7, <2>2, <2>3 DEF Exiting, Pipe
  <2>. QED BY <1>0, <1>1, <1>2, <1>7, <2>4 DEF DownloadInv
<1>8. CASE ReceiverInv /\ Abandoning
  <2>1. FramesOf(Request) \in Seq(ExitFrames)
    BY <1>8, RequestFact, FramesFact DEF Abandoning
  <2>2. requests' \in Seq(ExitFrames)
    BY <1>4, <1>8, <2>1 DEF Abandoning, Pipe
  <2>3. tries = 0 => answers' = <<>> /\ answers' \in Seq(AnswersTo(ExitSid))
    BY <1>0 DEF Quiet
  <2>4. Abandoning'
    BY <1>0, <1>1, <1>8, <2>2, <2>3 DEF Abandoning, Pipe
  <2>. QED BY <1>0, <1>1, <1>2, <1>8, <2>4 DEF DownloadInv
<1>. QED BY <1>0, <1>5, <1>6, <1>7, <1>8 DEF DownloadInv, Busy, Preparing, Done

\* The present request went unanswered as often as it may.
LEMMA RestartStep ==
  ASSUME ShortBlocks, DownloadInv, Restart
  PROVE  DownloadInv'
<1>0. confirmed' = confirmed /\ tries' = 0 /\ answers' = answers /\ requests' = requests
      /\ Busy /\ tries > 0 /\ ~(tries = 0) /\ confirmed \in Nat
  BY DownloadParameters DEF Restart, DownloadInv
<1>1. (ReceiverInv => ReceiverInv') /\ active' = active
  BY EcuStill DEF Restart
<1>2. CASE phase' = "failed"
  BY <1>0, <1>2 DEF DownloadInv
<1>3. CASE phase' = "abandon" /\ ReceiverInv
  <2>1. \A sid : \A s \in Seq(Refusals(sid)) : s \in Seq(AnswersTo(sid))
    BY DEF Refusals
  <2>2. \A k : \A s \in Seq(BlockAnswers(k)) : s \in Seq(AnswersTo(DataSid))
    BY DEF BlockAnswers
  <2>3. Opening => Abandoning'
    BY <1>0, <1>3, <2>1 DEF Opening, Abandoning, Pipe
  <2>4. Sending => Abandoning'
    <3>. SUFFICES ASSUME Sending PROVE Abandoning'
      OBVIOUS
    <3>1. PICK n \in 0 .. BlockCount - 1 :
            \/ Pipe(BlockFrames(n + 1), Refusals(DataSid))
            \/ Pipe(BlockFrames(n + 1), BlockAnswers(n + 1))
      BY <1>0 DEF Sending
    <3>. DEFINE k == n + 1
    <3>2. k \in 1 .. BlockCount
      BY ConfirmedFact
    <3>. HIDE DEF k
    <3>3. requests \in Seq(BlockFrames(k)) /\ answers \in Seq(AnswersTo(DataSid))
      BY <2>1, <2>2, <3>1 DEF Pipe, k
    <3>. QED BY <1>0, <1>3, <3>2, <3>3 DEF Abandoning, Pipe
  <2>5. Exiting => Abandoning'
    <3>1. <<>> \in Seq(AnswersTo(ExitSid))
      OBVIOUS
    <3>. QED BY <1>0, <1>1, <1>3, <3>1 DEF Exiting, Abandoning, Pipe
  <2>6. Abandoning => Abandoning'
    BY <1>0, <1>1, <1>3 DEF Abandoning, Pipe
  <2>7. Opening \/ Sending \/ Exiting \/ Abandoning
    BY <1>0 DEF DownloadInv, Busy, Preparing, Done
  <2>. QED BY <1>0, <1>1, <1>3, <2>3, <2>4, <2>5, <2>6, <2>7 DEF DownloadInv
<1>4. phase' = "abandon" \/ phase' = "failed"
  BY DEF Restart
<1>. QED BY <1>0, <1>2, <1>3, <1>4 DEF DownloadInv, Busy

\* An answer is taken: it ends the phase it belongs to, or is passed over.
LEMMA TakeStep ==
  ASSUME ShortBlocks, DownloadInv, TakeAnswer
  PROVE  DownloadInv'
<1>. DEFINE a == Head(answers)
<1>0. answers # <<>> /\ answers' = Tail(answers) /\ requests' = requests
      /\ tries \in Nat /\ confirmed \in Nat
  BY DEF TakeAnswer, DownloadInv
<1>1. (ReceiverInv => ReceiverInv') /\ active' = active /\ stored' = stored
      /\ \A n : Holds(n) => Holds(n)'
  BY EcuStill DEF TakeAnswer
<1>2. CASE ~Expected(a)
  <2>1. phase' = phase /\ confirmed' = confirmed /\ tries' = tries
    BY <1>2 DEF TakeAnswer
  <2>2. ASSUME NEW F, NEW A, Pipe(F, A) PROVE Pipe(F, A)'
    <3>1. requests \in Seq(F) /\ answers \in Seq(A)
      BY <2>2 DEF Pipe
    <3>2. Tail(answers) \in Seq(A)
      BY <1>0, <3>1
    <3>. QED BY <1>0, <3>1, <3>2 DEF Pipe
  <2>3. Opening => Opening'
    BY <1>1, <2>1, <2>2 DEF Opening
  <2>4. Sending => Sending'
    <3>. SUFFICES ASSUME Sending PROVE Sending'
      OBVIOUS
    <3>0. PICK n \in 0 .. BlockCount - 1 :
            /\ confirmed = n
            /\ \/ /\ tries = 0 /\ Holds(n)
                  /\ IF n = 0 THEN Pipe(OpenFrames, AnswersTo(OpenSid))
                     ELSE Pipe(BlockFrames(n), BlockAnswers(n))
               \/ tries > 0 /\ Holds(n) /\ Pipe(BlockFrames(n + 1), Refusals(DataSid))
               \/ tries > 0 /\ Holds(n + 1) /\ Pipe(BlockFrames(n + 1), BlockAnswers(n + 1))
      BY DEF Sending
    <3>. QED BY <1>1, <2>1, <2>2, <3>0 DEF Sending
  <2>5. Exiting => Exiting'
    BY <1>0, <1>1, <2>1, <2>2 DEF Exiting
  <2>6. Abandoning => Abandoning'
    BY <1>0, <1>1, <2>1, <2>2 DEF Abandoning
  <2>7. Done => Done'
    BY <1>1, <2>1, <2>2 DEF Done
  <2>. QED BY <1>0, <1>1, <2>1, <2>3, <2>4, <2>5, <2>6, <2>7 DEF DownloadInv, Preparing
<1>3. CASE Expected(a)
  <2>1. /\ phase' = NextPhase /\ confirmed' = (IF phase = "data" THEN confirmed + 1 ELSE 0)
        /\ tries' = 0 /\ Busy /\ a.sid = Request[1]
        /\ a.nrc = "NONE" \/ phase = "abandon"
        /\ phase = "data" => a.bsc = Counter
    BY <1>3 DEF TakeAnswer, Expected
  <2>2. \A A : answers \in Seq(A) => a \in A /\ answers' \in Seq(A)
    BY <1>0
  <2>3. /\ OpenPdu[1] = OpenSid /\ <<ExitSid>>[1] = ExitSid
        /\ OpenSid # DataSid /\ OpenSid # ExitSid /\ DataSid # ExitSid
    BY OpenPduFact, DownloadParameters
  <2>. HIDE DEF a
  <2>4. \A sid : answers \in Seq(AnswersTo(sid)) => a.sid = sid
    <3>1. \A sid : \A x \in AnswersTo(sid) : x.sid = sid
      BY DEF AnswersTo
    <3>. QED BY <2>2, <3>1
  <2>5. \A sid : answers \in Seq(Refusals(sid)) => a.nrc # "NONE"
    <3>1. \A sid : \A x \in Refusals(sid) : x.nrc # "NONE"
      BY DEF Refusals
    <3>. QED BY <2>2, <3>1
  <2>6. CASE ReceiverInv /\ Opening
    <3>1. a.sid = OpenSid /\ a.nrc = "NONE"
      BY <2>1, <2>3, <2>6, RequestFact DEF Opening
    <3>2. ~(answers \in Seq(AnswersTo(ExitSid))) /\ ~(answers \in Seq(Refusals(OpenSid)))
      BY <2>3, <2>4, <2>5, <3>1
    <3>3. Holds(0) /\ requests \in Seq(OpenFrames) /\ answers' \in Seq(AnswersTo(OpenSid))
      BY <2>2, <2>6, <3>2 DEF Opening, Pipe
    <3>4. BlockCount \in Nat \ {0}
      BY <3>3, BlocksFact
    <3>5. phase' = "data" /\ confirmed' = 0 /\ 0 \in 0 .. BlockCount - 1
      BY <2>1, <2>6, <3>4 DEF Opening, NextPhase
    <3>6. Sending'
      BY <1>0, <1>1, <2>1, <3>3, <3>5 DEF Sending, Pipe
    <3>. QED BY <1>1, <2>1, <2>6, <3>5, <3>6 DEF DownloadInv
  <2>7. CASE ReceiverInv /\ Sending
    <3>0. PICK n \in 0 .. BlockCount - 1 :
            /\ confirmed = n
            /\ \/ /\ tries = 0 /\ Holds(n)
                  /\ IF n = 0 THEN Pipe(OpenFrames, AnswersTo(OpenSid))
                     ELSE Pipe(BlockFrames(n), BlockAnswers(n))
               \/ tries > 0 /\ Holds(n) /\ Pipe(BlockFrames(n + 1), Refusals(DataSid))
               \/ tries > 0 /\ Holds(n + 1) /\ Pipe(BlockFrames(n + 1), BlockAnswers(n + 1))
      BY <2>7 DEF Sending
    <3>1. n \in Nat /\ n + 1 \in 1 .. BlockCount /\ BlockCount \in Nat
          /\ (n # 0 => n \in 1 .. BlockCount)
      BY ConfirmedFact
    <3>2. phase = "data"
      BY <2>7 DEF Sending
    <3>3. a.sid = DataSid
      <4>1. Request = BlockPdu(n + 1)
        BY <3>0, <3>1, <3>2, RequestFact
      <4>. QED BY <2>1, <3>1, <4>1, BlockPduFact
    <3>4. a.nrc = "NONE" /\ a.bsc = (n + 1) % ByteSize /\ (n + 1) % ByteSize # n % ByteSize
      BY <2>1, <3>0, <3>1, <3>2, CounterFact DEF Counter
    <3>5. ~(answers \in Seq(AnswersTo(OpenSid))) /\ ~(answers \in Seq(Refusals(DataSid)))
      BY <2>3, <2>4, <2>5, <3>3, <3>4
    <3>6. ~(answers \in Seq(BlockAnswers(n)))
      BY <2>2, <3>4 DEF BlockAnswers
    <3>. DEFINE k == n + 1
    <3>7. Holds(k) /\ requests \in Seq(BlockFrames(k)) /\ answers' \in Seq(BlockAnswers(k))
      BY <2>2, <3>0, <3>5, <3>6 DEF Pipe
    <3>8. confirmed' = k /\ phase' = (IF k < BlockCount THEN "data" ELSE "exit")
          /\ k \in Nat /\ k # 0 /\ k <= BlockCount
      BY <2>1, <3>0, <3>1, <3>2 DEF NextPhase
    <3>. HIDE DEF k
    <3>9. CASE k < BlockCount
      <4>1. k \in 0 .. BlockCount - 1
        BY <3>1, <3>8, <3>9
      <4>2. Holds(k)'
        BY <1>1, <3>7
      <4>3. Sending'
        BY <1>0, <2>1, <3>7, <3>8, <3>9, <4>1, <4>2 DEF Sending, Pipe
      <4>. QED BY <1>1, <2>1, <2>7, <3>8, <4>3 DEF DownloadInv
    <3>10. CASE ~(k < BlockCount)
      <4>1. k = BlockCount
        BY <3>1, <3>8, <3>10
      <4>2. Holds(BlockCount)' /\ answers' \in Seq(AnswersTo(DataSid))
            /\ requests' \in Seq(BlockFrames(BlockCount))
        BY <1>0, <1>1, <3>7, <4>1 DEF BlockAnswers
      <4>3. Exiting'
        BY <2>1, <3>8, <3>10, <4>2 DEF Exiting, Pipe
      <4>. QED BY <1>1, <2>1, <2>7, <3>8, <4>3 DEF DownloadInv
    <3>. QED BY <3>9, <3>10
  <2>8. CASE ReceiverInv /\ Exiting
    <3>1. a.sid = ExitSid
      BY <2>1, <2>3, <2>8, RequestFact DEF Exiting
    <3>2. ~(answers \in Seq(AnswersTo(DataSid)))
      BY <2>3, <2>4, <3>1
    <3>3. ~active /\ stored = Image /\ Pipe(ExitFrames, AnswersTo(ExitSid))
      BY <1>0, <2>8, <3>2 DEF Exiting, Pipe
    <3>4. phase' = "done" /\ confirmed' = 0
      BY <2>1, <2>8 DEF Exiting, NextPhase
    <3>5. Done'
      BY <1>0, <1>1, <2>2, <3>3, <3>4 DEF Done, Pipe
    <3>. QED BY <1>1, <2>1, <2>8, <3>4, <3>5 DEF DownloadInv
  <2>9. CASE ReceiverInv /\ Abandoning
    <3>1. a.sid = ExitSid
      BY <2>1, <2>3, <2>9, RequestFact DEF Abandoning
    <3>2. ~(answers \in Seq(AnswersTo(DataSid))) /\ ~(answers \in Seq(AnswersTo(OpenSid)))
      BY <2>3, <2>4, <3>1
    <3>3. ~active /\ Pipe(ExitFrames, AnswersTo(ExitSid))
      BY <1>0, <2>9, <3>2 DEF Abandoning, Pipe
    <3>4. phase' = "open" /\ confirmed' = 0
      BY <2>1, <2>9 DEF Abandoning, NextPhase
    <3>5. Opening'
      BY <1>0, <1>1, <2>1, <2>2, <3>3, <3>4 DEF Opening, Pipe
    <3>. QED BY <1>1, <2>1, <2>9, <3>4, <3>5 DEF DownloadInv
  <2>. QED BY <2>1, <2>6, <2>7, <2>8, <2>9 DEF DownloadInv, Busy, Preparing, Done
<1>. QED BY <1>2, <1>3

\* Before the first request.
LEMMA PrepareStep ==
  ASSUME DownloadInv, Prepare
  PROVE  DownloadInv'
<1>1. Preparing /\ ReceiverInv /\ confirmed \in Nat
  BY DEF DownloadInv, Prepare, Opening, Sending, Exiting, Abandoning, Done
<1>2. phase' = "open" /\ tries' = tries /\ confirmed' = confirmed
      /\ requests' = requests /\ answers' = answers /\ UNCHANGED rxVars /\ active' = active
  BY DEF Prepare, RegisterRegion, transferVars
<1>3. ReceiverInv'
  BY <1>1, <1>2 DEF ReceiverInv, rxVars, filterVars
<1>4. <<>> \in Seq(ExitFrames) /\ <<>> \in Seq(AnswersTo(ExitSid))
  OBVIOUS
<1>5. Opening'
  BY <1>1, <1>2, <1>4 DEF Preparing, Opening, Pipe
<1>6. tries' \in Nat
  BY <1>1, <1>2 DEF Preparing
<1>. QED BY <1>1, <1>2, <1>3, <1>5, <1>6 DEF DownloadInv

\* A download from its start.
LEMMA DownloadInvInit == DownloadInit => DownloadInv
<1>. SUFFICES ASSUME DownloadInit PROVE DownloadInv
  OBVIOUS
<1>1. phase = "prepare" /\ tries = 0 /\ confirmed = 0 /\ requests = <<>> /\ answers = <<>>
      /\ expected_nad = DefaultNad /\ rx_state = "IDLE" /\ active = FALSE
  BY DEF DownloadInit, RxInit, TransferInit
<1>. QED BY <1>1 DEF DownloadInv, ReceiverInv, Preparing

\* Each step of the tester, the bus and the ECU.
LEMMA DownloadInvNext ==
  ASSUME ShortBlocks, DownloadInv, [DownloadNext]_downloadVars
  PROVE  DownloadInv'
<1>1. ASSUME SendRequest \/ GiveUp \/ TimeoutEarly PROVE DownloadInv'
  <2>1. (Transmit /\ (tries = 0 => Quiet)) \/ Restart
    BY <1>1 DEF SendRequest, GiveUp, TimeoutEarly, DownloadInv
  <2>. QED BY <2>1, TransmitStep, RestartStep
<1>2. ASSUME UNCHANGED downloadVars PROVE DownloadInv'
  <2>1. phase' = phase /\ confirmed' = confirmed /\ tries' = tries
        /\ requests' = requests /\ answers' = answers /\ UNCHANGED ecuVars
    BY <1>2 DEF downloadVars, testerVars
  <2>2. (ReceiverInv => ReceiverInv') /\ active' = active /\ stored' = stored
        /\ \A n : Holds(n) => Holds(n)'
    BY <2>1, EcuStill
  <2>3. \A F, A : Pipe(F, A) => Pipe(F, A)'
    BY <2>1 DEF Pipe
  <2>4. Opening => Opening'
    BY <2>1, <2>2, <2>3 DEF Opening
  <2>5. Sending => Sending'
    BY <2>1, <2>2, <2>3 DEF Sending
  <2>6. Exiting => Exiting'
    BY <2>1, <2>2, <2>3 DEF Exiting
  <2>7. Abandoning => Abandoning'
    BY <2>1, <2>2, <2>3 DEF Abandoning
  <2>8. Done => Done'
    BY <2>1, <2>2, <2>3 DEF Done
  <2>. QED BY <2>1, <2>2, <2>4, <2>5, <2>6, <2>7, <2>8 DEF DownloadInv, Preparing
<1>. QED BY <1>1, <1>2, PrepareStep, ProcessStep, LoseStep, TakeStep DEF DownloadNext

\* The invariant in every reachable state.
LEMMA DownloadInvAlways == ASSUME ShortBlocks PROVE DownloadSpec => []DownloadInv
<1>1. DownloadInv /\ [DownloadNext]_downloadVars => DownloadInv'
  BY DownloadInvNext
<1>. QED BY <1>1, DownloadInvInit, PTL DEF DownloadSpec

\* While blocks are sent, the ECU holds all that the tester was told is received,
\* and at most one block more: the one whose answer is not yet heard.
ConfirmedStored ==
  phase = "data" =>
    /\ \A i \in 1 .. Reach(confirmed) : buffer[i] = Image[i]
    /\ buffer_length \in {Reach(confirmed), Reach(confirmed + 1)}

\* Whatever is lost or repeated, a block answered positively is in the buffer, at
\* its place, until the transfer is closed.
THEOREM ConfirmedAlwaysStored ==
  ASSUME ShortBlocks
  PROVE  DownloadSpec => []ConfirmedStored
<1>1. DownloadInv => ConfirmedStored
  <2>. SUFFICES ASSUME DownloadInv, phase = "data" PROVE ConfirmedStored
    BY DEF ConfirmedStored
  <2>1. PICK n \in 0 .. BlockCount - 1 : confirmed = n /\ (Holds(n) \/ Holds(n + 1))
    BY DEF DownloadInv, Preparing, Opening, Sending, Exiting, Abandoning, Done
  <2>. DEFINE k == n + 1
  <2>2. n \in Nat /\ k \in Nat /\ k \in 1 .. BlockCount /\ k - 1 = n
    BY ConfirmedFact
  <2>. HIDE DEF k
  <2>3. Reach(n) \in Nat /\ Reach(k) \in Nat
    <3>1. \A j \in Nat : Reach(j) \in Nat
      BY ReachFact
    <3>. QED BY <2>2, <3>1
  <2>4. Reach(n) <= Reach(k)
    <3>1. Reach(k) = Reach(n) + Len(Block(k)) /\ Len(Block(k)) \in Nat
      BY <2>2, BlockFact, DownloadParameters
    <3>. QED BY <2>3, <3>1
  <2>5. CASE Holds(n)
    BY <2>1, <2>5 DEF ConfirmedStored, Holds, k
  <2>6. CASE Holds(k)
    <3>1. \A i \in 1 .. Reach(n) : i \in 1 .. Reach(k)
      BY <2>3, <2>4
    <3>. QED BY <2>1, <2>6, <3>1 DEF ConfirmedStored, Holds, k
  <2>. QED BY <2>1, <2>5, <2>6 DEF k
<1>. QED BY <1>1, DownloadInvAlways, PTL

\* Whatever is lost or comes too early, however often requests are repeated and
\* the download is begun anew: a tester told that its download is done has the
\* image stored, whole and in order.
THEOREM DownloadAlwaysWhole ==
  ASSUME ShortBlocks
  PROVE  DownloadSpec => []DownloadWhole
<1>1. DownloadInv => DownloadWhole
  BY DEF DownloadInv, DownloadWhole, Preparing, Opening, Sending, Exiting, Abandoning, Done
<1>. QED BY <1>1, DownloadInvAlways, PTL
=============================================================================
