-------------------------- MODULE UdsServices_proofs --------------------------
(***************************************************************************)
(* Theorems about the three components of the server with state of their   *)
(* own: UdsSecurity, for every set of levels and every limit on attempts;  *)
(* UdsRoutine, for any routines and any table size; and UdsTransfer, for   *)
(* buffers, blocks and address spaces of any size.                         *)
(***************************************************************************)
EXTENDS UdsSecurity, UdsRoutine, UdsTransfer, SequenceTheorems, TLAPS

-----------------------------------------------------------------------------
(* Security.  SecInv is the inductive invariant the safety results share.   *)

\* The history variable counts what attempt_count counts: locking and delays of
\* other levels leave both alone.
GuessesCounted == guesses = attempt_count

SecInv ==
  /\ SecTypeOK
  /\ UnlockedSettled
  /\ GuessesCounted
  /\ DelayIsTimed
  /\ PendingHasSeed

\* uds_security_init establishes the invariant.
LEMMA SecInvInit == SecInit => SecInv
<1> SUFFICES ASSUME SecInit PROVE SecInv
  OBVIOUS
<1> USE DEF SecInit
<1>1. 0 \in 0 .. MaxAttempts
  BY SecurityParameters
<1>2. SecTypeOK
  BY <1>1, Zenon DEF SecTypeOK, NRCs
<1>3. UnlockedSettled /\ GuessesCounted /\ DelayIsTimed /\ PendingHasSeed
  BY DEF UnlockedSettled, GuessesCounted, DelayIsTimed, PendingHasSeed
<1>4. QED
  BY <1>2, <1>3 DEF SecInv

\* Every request, lock and timer event preserves the invariant.
LEMMA SecInvNext == SecInv /\ [SecNext]_secVars => SecInv'
<1> SUFFICES ASSUME SecInv, [SecNext]_secVars PROVE SecInv'
  OBVIOUS
<1> USE SecurityParameters DEF SecInv, SecTypeOK, UnlockedSettled, GuessesCounted,
      DelayIsTimed, PendingHasSeed, NRCs
<1>1. CASE InvalidLevel
  BY <1>1 DEF InvalidLevel, levelVars, pendingVars, delayVars
<1>2. CASE DelayRefusal
  BY <1>2 DEF DelayRefusal, levelVars, pendingVars, delayVars
<1>3. ASSUME NEW l \in Levels, ZeroSeed(l) PROVE SecInv'
  BY <1>3 DEF ZeroSeed, DelayHolds, levelVars, pendingVars
<1>4. ASSUME NEW l \in Levels, NewSeed(l) PROVE SecInv'
  BY <1>4 DEF NewSeed, DelayHolds
<1>5. ASSUME NEW l \in Levels, NoSeed(l) PROVE SecInv'
  BY <1>5 DEF NoSeed, levelVars, pendingVars, delayVars
<1>6. ASSUME NEW l \in Levels, TooManyAttempts(l) PROVE SecInv'
  <2> USE <1>6 DEF TooManyAttempts, ConsumeSeed, Exhausted
  <2>1. 0 \in 0 .. MaxAttempts /\ 0 \in Nat
    OBVIOUS
  <2>2. SecTypeOK'
    BY <2>1, Zenon
  <2>3. UnlockedSettled'
    OBVIOUS
  <2>4. GuessesCounted' /\ DelayIsTimed' /\ PendingHasSeed'
    OBVIOUS
  <2>5. QED
    BY <2>2, <2>3, <2>4
<1>7. ASSUME NEW l \in Levels, RightKey(l) PROVE SecInv'
  <2> USE <1>7 DEF RightKey, ConsumeSeed, Exhausted
  <2>1. 0 \in 0 .. MaxAttempts /\ 0 \in Nat
    OBVIOUS
  <2>2. SecTypeOK'
    BY <2>1, Zenon
  <2>3. UnlockedSettled'
    OBVIOUS
  <2>4. GuessesCounted' /\ DelayIsTimed' /\ PendingHasSeed'
    BY DEF DelayHolds
  <2>5. QED
    BY <2>2, <2>3, <2>4
<1>8. ASSUME NEW l \in Levels, WrongKey(l) PROVE SecInv'
  <2> USE <1>8 DEF WrongKey, ConsumeSeed, Exhausted
  <2>1. attempt_count[l] + 1 \in 0 .. MaxAttempts /\ guesses[l] + 1 \in Nat
    OBVIOUS
  <2>2. SecTypeOK'
    BY <2>1, Zenon
  <2>3. UnlockedSettled'
    OBVIOUS
  <2>4. GuessesCounted' /\ DelayIsTimed' /\ PendingHasSeed'
    BY DEF DelayHolds
  <2>5. QED
    BY <2>2, <2>3, <2>4
<1>9. CASE Lock
  BY <1>9 DEF Lock, delayVars
<1>10. CASE NoticeExpiry
  BY <1>10 DEF NoticeExpiry, levelVars, pendingVars
<1>11. CASE Expire
  BY <1>11 DEF Expire, levelVars, pendingVars
<1>12. CASE UNCHANGED secVars
  BY <1>12 DEF secVars, levelVars, pendingVars, delayVars
<1>13. QED
  BY <1>1, <1>2, <1>3, <1>4, <1>5, <1>6, <1>7, <1>8, <1>9, <1>10, <1>11, <1>12
  DEF SecNext, RequestSeed, SendKey, KeyInDelay

\* The invariant holds in every reachable state.
LEMMA SecInvAlways == SecSpec => []SecInv
  BY SecInvInit, SecInvNext, PTL DEF SecSpec

\* The fields of sec_state keep their types; attempt_count never passes
\* SECURITY_MAX_ATTEMPTS, so its uint8_t cannot wrap.
THEOREM SecTypeCorrect == SecSpec => []SecTypeOK
  BY SecInvAlways, PTL DEF SecInv

\* No level has more than SECURITY_MAX_ATTEMPTS wrong keys judged without being
\* unlocked or put in delay, whatever the other levels and the locks do.
THEOREM GuessesAlwaysBounded == SecSpec => []GuessesBounded
<1>1. SecInv => GuessesBounded
  BY SecurityParameters DEF SecInv, SecTypeOK, GuessesCounted, GuessesBounded
<1>2. QED
  BY <1>1, SecInvAlways, PTL

\* No key is judged at a level already unlocked; a delay never outlives its
\* timer and is never forgotten while the timer runs; and a pending seed is the
\* seed of the level it is said to be of.
THEOREM SecurityAlwaysCoherent == SecSpec => []SecurityCoherent
<1>1. SecInv => SecurityCoherent
  BY DEF SecInv, SecurityCoherent
<1>2. QED
  BY <1>1, SecInvAlways, PTL

\* While the delay runs no level gives a seed, judges a key or becomes unlocked.
THEOREM DelayAlwaysRefuses == SecSpec => DelayRefusesAll
<1> DEFINE Frozen ==
      timer = "running" => \A l \in Levels :
        /\ ~seed_sent[l] => ~seed_sent'[l]
        /\ ~unlocked[l] => ~unlocked'[l]
        /\ guesses'[l] <= guesses[l]
        /\ attempt_count'[l] = attempt_count[l]
<1>1. ASSUME SecInv, [SecNext]_secVars PROVE [Frozen]_secVars
  <2> SUFFICES ASSUME timer = "running", NEW k \in Levels
               PROVE /\ ~seed_sent[k] => ~seed_sent'[k]
                     /\ ~unlocked[k] => ~unlocked'[k]
                     /\ guesses'[k] <= guesses[k]
                     /\ attempt_count'[k] = attempt_count[k]
    OBVIOUS
  <2> USE <1>1 DEF SecInv, SecTypeOK
  <2>1. DelayHolds
    BY DEF DelayHolds, DelayIsTimed
  <2>2. CASE Lock
    BY <2>2 DEF Lock
  <2>3. CASE UNCHANGED levelVars
    BY <2>3 DEF levelVars
  <2>4. \/ Lock
        \/ UNCHANGED levelVars
    BY <2>1 DEF SecNext, RequestSeed, SendKey, InvalidLevel, DelayRefusal, ZeroSeed,
       NewSeed, NoSeed, KeyInDelay, TooManyAttempts, RightKey, WrongKey, ConsumeSeed, Exhausted,
       NoticeExpiry, Expire, secVars
  <2>5. QED
    BY <2>2, <2>3, <2>4
<1>2. QED
  BY <1>1, SecInvAlways, PTL DEF SecSpec, DelayRefusesAll

-----------------------------------------------------------------------------
(* Routines. *)

\* The inductive invariant: that only one routine runs rests on the identifiers
\* being distinct, since is_any_other_running compares identifiers.
RoutineInv == RoutineTypeOK /\ OneAtATime

\* The table uds_svc_routine_init leaves has the default routines, none running.
LEMMA RoutineInvInit == RoutineInit => RoutineInv
  BY RoutineParameters
  DEF RoutineInit, RoutineInv, RoutineTypeOK, OneAtATime, Slots

\* A registered routine gets a slot, and an identifier, of its own.
LEMMA RegisterKeepsInv ==
  ASSUME RoutineInv, NEW e \in Routines, RegisterRoutine(e)
  PROVE  RoutineInv'
<1> DEFINE n == Len(registry)
<1>1. e \in Entry /\ registry \in Seq(Entry) /\ n \in Nat
      /\ is_running \in [1 .. n -> BOOLEAN]
  BY RoutineParameters DEF RoutineInv, RoutineTypeOK, Slots
<1>2. /\ registry' \in Seq(Entry) /\ Len(registry') = n + 1
      /\ \A i \in 1 .. n : registry'[i] = registry[i]
      /\ registry'[n + 1] = e
  BY <1>1 DEF RegisterRoutine
<1>3. is_running \in Seq(BOOLEAN) /\ Len(is_running) = n
  BY <1>1
<1>4. /\ is_running' \in [1 .. n + 1 -> BOOLEAN]
      /\ \A i \in 1 .. n : is_running'[i] = is_running[i]
      /\ is_running'[n + 1] = FALSE
  <2>1. is_running' = Append(is_running, FALSE)
    BY DEF RegisterRoutine, NewSlot
  <2>2. FALSE \in BOOLEAN
    OBVIOUS
  <2>3. /\ is_running' \in Seq(BOOLEAN) /\ Len(is_running') = n + 1
        /\ \A i \in 1 .. n : is_running'[i] = is_running[i]
        /\ is_running'[n + 1] = FALSE
    <3>1. \A q \in Seq(BOOLEAN), b \in BOOLEAN :
            /\ Append(q, b) \in Seq(BOOLEAN)
            /\ Len(Append(q, b)) = Len(q) + 1
            /\ \A i \in 1 .. Len(q) : Append(q, b)[i] = q[i]
            /\ Append(q, b)[Len(q) + 1] = b
      BY AppendProperties
    <3>2. QED
      BY <1>3, <2>1, <2>2, <3>1, Zenon
  <2>4. is_running' \in [1 .. n + 1 -> BOOLEAN]
    BY <2>3, LenProperties
  <2>5. QED
    BY <2>3, <2>4
<1>5. \A i \in 1 .. n : registry[i].id # e.id
  BY DEF RegisterRoutine, MayRegister, Slots
<1>6. \A i, j \in 1 .. n :
        /\ is_running[i] /\ is_running[j] => i = j
        /\ registry[i].id = registry[j].id => i = j
  BY DEF RoutineInv, OneAtATime, Slots
<1>7. \A i \in 1 .. n + 1 : i \in 1 .. n \/ i = n + 1
  BY <1>1
<1> HIDE DEF n
<1>8. RoutineTypeOK'
  BY <1>2, <1>4 DEF RoutineTypeOK, Slots
<1>9. ASSUME NEW i \in Slots', NEW j \in Slots',
             (is_running'[i] /\ is_running'[j]) \/ registry'[i].id = registry'[j].id
      PROVE  i = j
  BY <1>2, <1>4, <1>5, <1>6, <1>7, <1>9 DEF Slots
<1>10. QED
  BY <1>8, <1>9 DEF RoutineInv, OneAtATime

\* A start is refused while any slot is running; a stop and a request for
\* results start nothing.
LEMMA ControlKeepsInv ==
  ASSUME RoutineInv, NEW i \in Slots, NEW open \in BOOLEAN, NEW code,
         RoutineControl(i, open, code)
  PROVE  RoutineInv'
<1> USE DEF RoutineInv, RoutineTypeOK
<1>1. PICK ok \in BOOLEAN :
        \/ StartRoutine(i, open, ok, code)
        \/ StopRoutine(i, open, ok, code)
        \/ RequestResults(i, open, ok, code)
  BY DEF RoutineControl
<1>2. CASE StartRoutine(i, open, ok, code)
  <2>1. registry' = registry /\ Slots' = Slots
    BY <1>2 DEF StartRoutine, Slots
  <2>2. is_running' \in [Slots -> BOOLEAN]
    BY <1>2 DEF StartRoutine
  <2>3. CASE code = "NONE"
    <3>1. ~StartBlocked(i)
      BY <1>2, <2>3 DEF StartRoutine, StartRefusal
    <3>2. \A j \in Slots : ~is_running[j]
      BY <3>1 DEF StartBlocked, AnyOtherRunning, OneAtATime
    <3>3. \A j \in Slots : is_running'[j] => j = i
      BY <1>2, <3>2 DEF StartRoutine
    <3>4. QED
      BY <2>1, <2>2, <3>3 DEF OneAtATime
  <2>4. CASE code # "NONE"
    <3>1. \A j \in Slots : is_running'[j] = is_running[j]
      BY <1>2, <2>4 DEF StartRoutine
    <3>2. QED
      BY <2>1, <2>2, <3>1 DEF OneAtATime
  <2>5. QED
    BY <2>3, <2>4
<1>3. CASE StopRoutine(i, open, ok, code)
  <2>1. registry' = registry /\ Slots' = Slots
    BY <1>3 DEF StopRoutine, Slots
  <2>2. is_running' \in [Slots -> BOOLEAN]
    BY <1>3 DEF StopRoutine
  <2>3. \A j \in Slots : is_running'[j] => is_running[j]
    BY <1>3 DEF StopRoutine
  <2>4. QED
    BY <2>1, <2>2, <2>3 DEF OneAtATime
<1>4. CASE RequestResults(i, open, ok, code)
  BY <1>4 DEF RequestResults, routineVars, OneAtATime, Slots
<1>5. QED
  BY <1>1, <1>2, <1>3, <1>4

\* Every step preserves the invariant.
LEMMA RoutineInvNext == RoutineInv /\ [RoutineNext]_routineVars => RoutineInv'
<1> SUFFICES ASSUME RoutineInv, [RoutineNext]_routineVars PROVE RoutineInv'
  OBVIOUS
<1>1. ASSUME UNCHANGED routineVars PROVE RoutineInv'
  BY <1>1 DEF routineVars, RoutineInv, RoutineTypeOK, OneAtATime, Slots
<1>2. ASSUME NEW code, BadRequest(code) PROVE RoutineInv'
  BY <1>1, <1>2 DEF BadRequest
<1>3. QED
  BY <1>1, <1>2, RegisterKeepsInv, ControlKeepsInv DEF RoutineNext

\* The table keeps its types, whatever the integrator registers.
THEOREM RoutineTypeCorrect == RoutineSpec => []RoutineTypeOK
  BY RoutineInvInit, RoutineInvNext, PTL DEF RoutineSpec, RoutineInv

\* Never two routines at a time, whatever is registered, started and stopped.
THEOREM AlwaysOneAtATime == RoutineSpec => []OneAtATime
  BY RoutineInvInit, RoutineInvNext, PTL DEF RoutineSpec, RoutineInv

-----------------------------------------------------------------------------
(* Transfers: arithmetic. *)

\* A uint32_t sum of two words wraps at most once, and then falls below its
\* first operand.
LEMMA WrapOnce ==
  ASSUME NEW W \in Nat \ {0}, NEW a \in 0 .. W - 1, NEW k \in 0 .. W - 1
  PROVE /\ (a + k) % W \in 0 .. W - 1
        /\ (a + k) % W >= a => (a + k) % W = a + k
<1>1. CASE a + k < W
  BY <1>1
<1>2. CASE a + k >= W
  <2>1. (a + k) % W = a + k - W
    BY <1>2
  <2>2. QED
    BY <2>1
<1>3. QED
  BY <1>1, <1>2

\* A range is_memory_range_valid accepts lies inside a registered region as sets
\* of addresses, at the end of the address space too.
THEOREM RangeValidIsInside ==
  ASSUME NEW a \in 0 .. WordSize - 1, NEW n \in 0 .. WordSize - 1,
         mem_regions \in Seq(Ranges), RangeValid(a, n)
  PROVE \E i \in DOMAIN mem_regions :
          a .. a + n - 1 \subseteq mem_regions[i].start .. mem_regions[i].end
<1>1. n - 1 \in 0 .. WordSize - 1
  BY TransferParameters DEF RangeValid
<1>2. LastByte(a, n) = a + n - 1
  <2>1. (a + (n - 1)) % WordSize >= a => (a + (n - 1)) % WordSize = a + (n - 1)
    BY <1>1, WrapOnce, TransferParameters
  <2>2. a + n - 1 = a + (n - 1)
    OBVIOUS
  <2>3. LastByte(a, n) >= a
    BY DEF RangeValid
  <2>4. QED
    BY <2>1, <2>2, <2>3 DEF LastByte
<1>3. PICK i \in DOMAIN mem_regions :
        a >= mem_regions[i].start /\ LastByte(a, n) <= mem_regions[i].end
  BY DEF RangeValid
<1>4. mem_regions[i] \in Ranges
  BY <1>3
<1>5. mem_regions[i].start \in Int /\ mem_regions[i].end \in Int
  BY <1>4, TransferParameters
<1>6. QED
  BY <1>2, <1>3, <1>5

-----------------------------------------------------------------------------
(* The numbers of the transfer context. *)

\* The inductive invariant: the numeric part of the type invariant, and the
\* accounting of bytes that keeps every block inside the buffer.
CountInv ==
  /\ direction \in Directions \cup {"NONE"}
  /\ active \in BOOLEAN
  /\ remaining_size \in Nat /\ buffer_length \in Nat
  /\ size \in 0 .. BufferSize
  /\ direction = "UPLOAD" => remaining_size <= BufferSize
  /\ BytesConserved
  /\ NeverSuspended

\* uds_svc_transfer_init establishes the accounting.
LEMMA CountInvInit == TransferInit => CountInv
<1> SUFFICES ASSUME TransferInit PROVE CountInv
  OBVIOUS
<1>1. active \in BOOLEAN /\ (active <=> direction # "NONE")
  BY Zenon DEF TransferInit
<1>2. size \in 0 .. BufferSize
  BY TransferParameters DEF TransferInit
<1>3. rsp.nrc = "CNC"
  BY DEF TransferInit, Negative
<1>4. QED
  BY <1>1, <1>2, <1>3
  DEF TransferInit, CountInv, BytesConserved, NeverSuspended, Directions

\* Every service and every configuration step preserves it.
LEMMA CountInvNext == CountInv /\ [TransferNext]_uploadVars => CountInv'
<1> SUFFICES ASSUME CountInv, [TransferNext]_uploadVars PROVE CountInv'
  OBVIOUS
<1> USE TransferParameters
    DEF CountInv, BytesConserved, NeverSuspended, Directions
<1>1. ASSUME NEW r \in Ranges, RegisterRegion(r) PROVE CountInv'
  BY <1>1 DEF RegisterRegion, transferVars, bufferVars, historyVars
<1>2. ASSUME NEW s, NEW secure, NEW complete, NEW a \in Addresses, NEW n \in Sizes,
             RefuseTransfer(s, secure, complete, a, n)
      PROVE CountInv'
  BY <1>2 DEF RefuseTransfer, RequestRefusal, Negative, transferVars, bufferVars,
     historyVars
<1>3. ASSUME NEW dir \in Directions, NEW s, NEW secure, NEW a \in Addresses,
             NEW n \in Sizes, OpenTransfer(dir, s, secure, a, n)
      PROVE CountInv'
  <2>1. n \in Nat /\ n <= BufferSize
    BY <1>3 DEF OpenTransfer, RequestRefusal
  <2>2. QED
    BY <1>3, <2>1 DEF OpenTransfer, Positive
<1>4. ASSUME NEW s, NEW secure, NEW f, NEW complete,
             RequestFileTransfer(s, secure, f, complete)
      PROVE CountInv'
  BY <1>4 DEF RequestFileTransfer, FileRefusal, Negative, transferVars, bufferVars,
     historyVars
<1>5. CASE NoTransfer
  BY <1>5 DEF NoTransfer, Negative, transferVars, bufferVars, historyVars
<1>6. ASSUME NEW bsc, WrongBlock(bsc) PROVE CountInv'
  BY <1>6 DEF WrongBlock, Negative, transferVars, bufferVars, historyVars
<1>7. ASSUME NEW d \in Blocks
      PROVE WriteLen(d) \in Nat /\ WriteLen(d) <= remaining_size
  BY <1>7 DEF WriteLen, Least2
<1>8. ASSUME NEW bsc, NEW d \in Blocks, RefuseBlock(bsc, d) PROVE CountInv'
  <2>1. direction = "DOWNLOAD" => buffer_length + WriteLen(d) <= BufferSize
    BY <1>7
  <2>2. BlockRefusal(d) # "TDS"
    BY <2>1, <1>7 DEF BlockRefusal
  <2>3. QED
    BY <1>8, <2>2 DEF RefuseBlock, AcceptCounter, Negative, bufferVars
<1>9. ASSUME NEW bsc, NEW d \in Blocks, StoreBlock(bsc, d) PROVE CountInv'
  BY <1>7, <1>9 DEF StoreBlock, AcceptCounter, Positive
<1>10. ASSUME NEW bsc, NEW d \in Blocks, SendBlock(bsc, d) PROVE CountInv'
  <2>1. ReadLen \in Nat /\ ReadLen <= remaining_size
    BY DEF ReadLen, Least2
  <2>2. CopyLen \in Nat /\ CopyLen <= remaining_size /\ CopyLen <= buffer_length
    BY <2>1 DEF CopyLen, Least2
  <2>3. buffer_length = remaining_size
    BY <1>10 DEF SendBlock, BlockRefusal
  <2>4. QED
    BY <1>10, <2>2, <2>3 DEF SendBlock, AcceptCounter, Positive
<1>11. CASE ExitWithData
  BY <1>11 DEF ExitWithData, Negative, transferVars, bufferVars, historyVars
<1>12. CASE CloseTransfer
  <2>1. direction' = "NONE" /\ remaining_size' = 0 /\ buffer_length' = 0 /\ size' = 0
        /\ rsp'.nrc = "NONE"
    BY <1>12 DEF CloseTransfer, ClearCounts, Positive
  <2>2. active' \in BOOLEAN /\ (active' <=> direction' # "NONE")
    BY <1>12, Zenon DEF CloseTransfer, ClearCounts
  <2>3. size' \in 0 .. BufferSize
    BY <2>1
  <2>4. QED
    BY <2>1, <2>2, <2>3
<1>13. ASSUME NEW d \in Images, FillUpload(d) PROVE CountInv'
  BY <1>13 DEF FillUpload
<1>14. CASE UNCHANGED uploadVars
  BY <1>14 DEF uploadVars, transferVars, bufferVars, historyVars
<1>15. QED
  BY <1>1, <1>2, <1>3, <1>4, <1>5, <1>6, <1>8, <1>9, <1>10, <1>11, <1>12, <1>13, <1>14
  DEF TransferNext, RequestTransfer, TransferData, TransferExit

\* The accounting holds in every reachable state.
LEMMA CountInvAlways == TransferSpec => []CountInv
  BY CountInvInit, CountInvNext, PTL DEF TransferSpec

\* Whatever blocks come, refused or clamped: a download's stored and due bytes
\* are the bytes it was opened for, and an upload holds nothing or what is due.
THEOREM BytesAlwaysConserved == TransferSpec => []BytesConserved
  BY CountInvAlways, PTL DEF CountInv

\* TransferData's buffer bound check never fires: no block ever reaches past the
\* buffer, so transferDataSuspended is never answered.
THEOREM NeverAnswersSuspended == TransferSpec => []NeverSuspended
  BY CountInvAlways, PTL DEF CountInv

-----------------------------------------------------------------------------
(* The region a transfer was opened for. *)

\* The region table only grows, so the region that was found stays there.
RegionInv == mem_regions \in Seq(Ranges) /\ TransferInRegion

\* Every step keeps an open transfer inside its region.
LEMMA RegionInvNext ==
  RegionInv /\ CountInv /\ [TransferNext]_uploadVars => RegionInv'
<1> SUFFICES ASSUME RegionInv, CountInv, [TransferNext]_uploadVars PROVE RegionInv'
  OBVIOUS
<1> USE DEF RegionInv, TransferInRegion
<1>1. ASSUME NEW r \in Ranges, RegisterRegion(r) PROVE RegionInv'
  <2>1. mem_regions' \in Seq(Ranges) /\ DOMAIN mem_regions \subseteq DOMAIN mem_regions'
    BY <1>1 DEF RegisterRegion
  <2>2. \A i \in DOMAIN mem_regions : mem_regions'[i] = mem_regions[i]
    BY <1>1 DEF RegisterRegion
  <2>3. QED
    BY <1>1, <2>1, <2>2 DEF RegisterRegion, transferVars, historyVars
<1>2. ASSUME NEW dir, NEW s, NEW secure, NEW a \in Addresses, NEW n \in Sizes,
             OpenTransfer(dir, s, secure, a, n)
      PROVE RegionInv'
  <2>1. RangeValid(a, n) /\ a \in 0 .. WordSize - 1 /\ n \in 0 .. WordSize - 1
    BY <1>2, TransferParameters DEF OpenTransfer, RequestRefusal
  <2>2. \E i \in DOMAIN mem_regions :
          a .. a + n - 1 \subseteq mem_regions[i].start .. mem_regions[i].end
    BY <2>1, RangeValidIsInside
  <2>3. QED
    BY <1>2, <2>2 DEF OpenTransfer
<1>3. CASE CloseTransfer
  BY <1>3 DEF CloseTransfer, ClearCounts
<1>4. ASSUME NEW d \in Images, FillUpload(d) PROVE RegionInv'
  <2>1. image' # <<>>
    BY <1>4 DEF FillUpload
  <2>2. QED
    BY <1>4, <2>1 DEF FillUpload
<1>5. ASSUME UNCHANGED <<active, memory_addr, size, image, mem_regions>>
      PROVE RegionInv'
  BY <1>5
<1>6. QED
  BY <1>1, <1>2, <1>3, <1>4, <1>5
  DEF TransferNext, RequestTransfer, RefuseTransfer, RequestFileTransfer, TransferData,
      NoTransfer, WrongBlock, RefuseBlock, StoreBlock, SendBlock, AcceptCounter, ClearCounts,
      TransferExit, ExitWithData, uploadVars, transferVars, historyVars

\* Every open transfer's memory lies inside one registered region, for addresses
\* up to the end of the uint32_t range too.
THEOREM TransferAlwaysInRegion == TransferSpec => []TransferInRegion
<1>1. TransferInit => RegionInv
  BY DEF TransferInit, RegionInv, TransferInRegion
<1>2. RegionInv => TransferInRegion
  BY DEF RegionInv
<1>3. QED
  BY <1>1, <1>2, RegionInvNext, CountInvAlways, PTL DEF TransferSpec

-----------------------------------------------------------------------------
(* The contents of the buffer, and types. *)

Nrcs == {"NONE", "CNC", "SAD", "IMLOIF", "UDNA", "ROOR", "SFNS", "WBSC", "TDS"}
Response == [nrc : Nrcs, data : Seq(DataBytes)]

\* The fields that are not numbers of the accounting.
RestInv ==
  /\ memory_addr \in 0 .. WordSize - 1
  /\ block_seq_counter \in 0 .. ByteSize - 1
  /\ buffer \in [1 .. BufferSize -> DataBytes]
  /\ mem_regions \in Seq(Ranges)
  /\ rsp \in Response
  /\ image \in Seq(DataBytes) /\ passed \in Seq(DataBytes)

\* The history keeps the beginning of what it is given.
LEMMA KeptFact ==
  ASSUME NEW q \in Seq(DataBytes)
  PROVE  /\ Kept(q) \in Seq(DataBytes)
         /\ Len(Kept(q)) = IF Len(q) <= BufferSize + 1 THEN Len(q) ELSE BufferSize + 1
         /\ \A i \in 1 .. Len(Kept(q)) : Kept(q)[i] = q[i]
  BY TransferParameters DEF Kept, Least2

\* Opening a transfer and closing one leave nothing of the last.
LEMMA FreshFact ==
  /\ Cleared \in [1 .. BufferSize -> DataBytes]
  /\ <<>> \in Seq(DataBytes)
  /\ Positive(<<>>) \in Response
  /\ \A n \in Nrcs : Negative(n) \in Response
  BY TransferParameters DEF Cleared, Positive, Negative, Response, Nrcs

\* An upload block is made of bytes of the buffer.
LEMMA SendBlockTypes ==
  ASSUME CountInv, RestInv, NEW bsc, NEW d \in Blocks, SendBlock(bsc, d)
  PROVE  buffer' \in [1 .. BufferSize -> DataBytes] /\ rsp' \in Response
         /\ passed' \in Seq(DataBytes)
<1> DEFINE left  == buffer_length - CopyLen
           moved == [i \in 1 .. BufferSize |->
                       IF i <= left THEN buffer[i + CopyLen] ELSE buffer[i]]
<1>1. BufferSize \in Nat /\ MaxBlock \in Nat
  BY TransferParameters
<1>2. buffer_length \in Nat /\ remaining_size \in Nat /\ buffer_length <= BufferSize
  <2>1. direction = "UPLOAD"
    BY DEF SendBlock
  <2>2. buffer_length \in Nat /\ remaining_size \in Nat
    BY DEF CountInv
  <2>3. buffer_length <= BufferSize
    BY <1>1, <2>1, <2>2 DEF CountInv, BytesConserved
  <2>4. QED
    BY <2>2, <2>3
<1>3. CopyLen \in Nat /\ CopyLen <= buffer_length
  BY <1>1, <1>2 DEF CopyLen, ReadLen, Least2
<1>4. moved \in [1 .. BufferSize -> DataBytes]
  <2>1. ASSUME NEW i \in 1 .. BufferSize PROVE moved[i] \in DataBytes
    BY <1>1, <1>2, <1>3, <2>1 DEF RestInv
  <2>2. QED
    BY <2>1
<1>5. Prefix(moved, CopyLen) \in Seq(DataBytes)
  <2> HIDE DEF moved
  <2>1. Prefix(moved, CopyLen) \in [1 .. CopyLen -> DataBytes]
    BY <1>1, <1>2, <1>3, <1>4 DEF Prefix
  <2>2. QED
    BY <1>3, <2>1
<1>6. buffer' = moved /\ rsp' = Positive(Prefix(moved, CopyLen))
      /\ passed' = Kept(passed \o Prefix(moved, CopyLen))
  BY DEF SendBlock
<1> HIDE DEF moved
<1>7. rsp' \in Response
  BY <1>5, <1>6 DEF Positive, Response, Nrcs
<1>8. passed \o Prefix(moved, CopyLen) \in Seq(DataBytes)
  BY <1>5 DEF RestInv
<1>9. QED
  BY <1>4, <1>6, <1>7, <1>8, KeptFact

\* Every step keeps the types of the rest.
LEMMA RestInvNext == CountInv /\ RestInv /\ [TransferNext]_uploadVars => RestInv'
<1> SUFFICES ASSUME CountInv, RestInv, [TransferNext]_uploadVars PROVE RestInv'
  OBVIOUS
<1> USE DEF RestInv
<1>1. ASSUME NEW n \in Nrcs, rsp' = Negative(n),
             UNCHANGED <<transferVars, bufferVars, mem_regions, historyVars>>
      PROVE  RestInv'
  BY <1>1, FreshFact DEF transferVars, bufferVars, historyVars
<1>2. ASSUME NEW r \in Ranges, RegisterRegion(r) PROVE RestInv'
  BY <1>2 DEF RegisterRegion, transferVars, bufferVars, historyVars
<1>3. ASSUME NEW dir, NEW s, NEW secure, NEW complete, NEW a \in Addresses, NEW n \in Sizes,
             RequestTransfer(dir, s, secure, complete, a, n)
      PROVE  RestInv'
  <2>1. CASE RefuseTransfer(s, secure, complete, a, n)
    <3>1. RequestRefusal(s, secure, complete, a, n) \in Nrcs
      BY DEF RequestRefusal, Nrcs
    <3>2. QED
      BY <1>1, <2>1, <3>1 DEF RefuseTransfer
  <2>2. CASE OpenTransfer(dir, s, secure, a, n)
    BY <2>2, FreshFact, TransferParameters DEF OpenTransfer
  <2>3. QED
    BY <1>3, <2>1, <2>2 DEF RequestTransfer
<1>4. ASSUME NEW s, NEW secure, NEW f, NEW complete, RequestFileTransfer(s, secure, f, complete)
      PROVE  RestInv'
  <2>1. FileRefusal(s, secure, f, complete) \in Nrcs
    BY DEF FileRefusal, Nrcs
  <2>2. QED
    BY <1>1, <1>4, <2>1 DEF RequestFileTransfer
<1>5. CASE NoTransfer
  BY <1>1, <1>5 DEF NoTransfer, Nrcs
<1>6. ASSUME NEW bsc, WrongBlock(bsc) PROVE RestInv'
  BY <1>1, <1>6 DEF WrongBlock, Nrcs
<1>7. ASSUME NEW bsc \in 0 .. ByteSize - 1, NEW d \in Blocks, RefuseBlock(bsc, d) PROVE RestInv'
  <2>1. BlockRefusal(d) \in Nrcs
    BY DEF BlockRefusal, Nrcs
  <2>2. rsp' \in Response
    BY <1>7, <2>1, FreshFact DEF RefuseBlock
  <2>3. QED
    BY <1>7, <2>2 DEF RefuseBlock, AcceptCounter, bufferVars
<1>8. ASSUME NEW bsc \in 0 .. ByteSize - 1, NEW d \in Blocks, StoreBlock(bsc, d) PROVE RestInv'
  <2>1. d \in Seq(DataBytes)
    BY TransferParameters
  <2>2. Stored(d) \in [1 .. BufferSize -> DataBytes]
    <3>1. WriteLen(d) \in Nat /\ WriteLen(d) <= Len(d) /\ buffer_length \in Nat
      BY <2>1 DEF WriteLen, Least2, CountInv
    <3>2. \A k \in 1 .. WriteLen(d) : d[k] \in DataBytes
      BY <2>1, <3>1
    <3>3. QED
      BY <3>2 DEF Stored
  <2>3. passed \o d \in Seq(DataBytes)
    BY <2>1
  <2>4. QED
    BY <1>8, <2>2, <2>3, KeptFact, FreshFact DEF StoreBlock, AcceptCounter
<1>9. ASSUME NEW bsc \in 0 .. ByteSize - 1, NEW d \in Blocks, SendBlock(bsc, d) PROVE RestInv'
  BY <1>9, SendBlockTypes DEF SendBlock, AcceptCounter
<1>10. CASE ExitWithData
  BY <1>1, <1>10 DEF ExitWithData, Nrcs
<1>11. CASE CloseTransfer
  BY <1>11, FreshFact, TransferParameters DEF CloseTransfer, ClearCounts
<1>12. ASSUME NEW d \in Images, FillUpload(d) PROVE RestInv'
  <2>1. d \in Seq(DataBytes)
    BY TransferParameters
  <2>2. buffer' \in [1 .. BufferSize -> DataBytes]
    <3>1. \A i \in 1 .. BufferSize : i <= Len(d) => d[i] \in DataBytes
      BY <2>1
    <3>2. QED
      BY <1>12, <3>1 DEF FillUpload
  <2>3. QED
    BY <1>12, <2>1, <2>2 DEF FillUpload
<1>13. CASE UNCHANGED uploadVars
  BY <1>13 DEF uploadVars, transferVars, bufferVars, historyVars
<1>14. QED
  BY <1>2, <1>3, <1>4, <1>5, <1>6, <1>7, <1>8, <1>9, <1>10, <1>11, <1>12, <1>13
  DEF TransferNext, TransferData, TransferExit

\* They hold in every reachable state.
LEMMA RestInvAlways == TransferSpec => []RestInv
<1>1. TransferInit => RestInv
  BY FreshFact, TransferParameters DEF TransferInit, RestInv, Nrcs
<1>2. QED
  BY <1>1, RestInvNext, CountInvAlways, PTL DEF TransferSpec

\* The context keeps its types: what is stored and what is due never exceed the
\* buffer, the counter its width, and every response is made of bytes.
THEOREM TransferTypeCorrect == TransferSpec => []TransferTypeOK
<1>1. CountInv /\ RestInv => TransferTypeOK
  <2> SUFFICES ASSUME CountInv, RestInv PROVE TransferTypeOK
    OBVIOUS
  <2>1. BufferSize \in Nat
    BY TransferParameters
  <2>2. remaining_size \in 0 .. BufferSize /\ buffer_length \in 0 .. BufferSize
    BY <2>1 DEF CountInv, BytesConserved, Directions
  <2>3. QED
    BY <2>2 DEF CountInv, RestInv, Response, Nrcs, TransferTypeOK
<1>2. QED
  BY <1>1, CountInvAlways, RestInvAlways, PTL

\* Besides being in order, what is stored is all that was passed for as long as
\* something is still due: only the last block can have been cut.
OrderInv ==
  StoredInOrder /\ (direction = "DOWNLOAD" /\ remaining_size > 0 => Len(passed) = buffer_length)

\* A block goes behind what is stored.
LEMMA StoreBlockOrder ==
  ASSUME CountInv, RestInv, OrderInv, NEW bsc, NEW d \in Blocks, StoreBlock(bsc, d), CountInv'
  PROVE  OrderInv'
<1> DEFINE w == WriteLen(d)
<1>1. BufferSize \in Nat /\ d \in Seq(DataBytes) /\ passed \in Seq(DataBytes)
  BY TransferParameters DEF RestInv
<1>2. /\ direction = "DOWNLOAD" /\ buffer_length \in Nat /\ remaining_size \in Nat
      /\ buffer_length <= Len(passed) /\ \A i \in 1 .. buffer_length : buffer[i] = passed[i]
      /\ remaining_size > 0 => Len(passed) = buffer_length
  BY DEF CountInv, OrderInv, StoredInOrder, StoreBlock
<1>3. w \in Nat /\ w <= Len(d) /\ w <= remaining_size /\ (w = Len(d) \/ w = remaining_size)
  BY <1>1, <1>2 DEF WriteLen, Least2
<1>4. /\ buffer_length' = buffer_length + w /\ remaining_size' = remaining_size - w
      /\ direction' = "DOWNLOAD"
      /\ buffer' = Stored(d) /\ passed' = Kept(passed \o d)
  BY <1>2 DEF StoreBlock, AcceptCounter
<1>5. buffer_length + w <= BufferSize
  BY <1>1, <1>4 DEF CountInv, BytesConserved
<1> DEFINE all == passed \o d
<1>6. /\ all \in Seq(DataBytes) /\ Len(all) = Len(passed) + Len(d)
      /\ \A i \in 1 .. Len(passed) : all[i] = passed[i]
      /\ \A i \in 1 .. Len(d) : all[Len(passed) + i] = d[i]
  BY <1>1
<1> HIDE DEF w, all
<1>7. /\ Len(passed') = IF Len(all) <= BufferSize + 1 THEN Len(all) ELSE BufferSize + 1
      /\ \A i \in 1 .. Len(passed') : passed'[i] = all[i]
  BY <1>4, <1>6, KeptFact DEF all
<1>8. buffer_length + w <= Len(all)
  BY <1>1, <1>2, <1>3, <1>6
<1>9. buffer_length' <= Len(passed')
  BY <1>1, <1>2, <1>3, <1>4, <1>5, <1>6, <1>7, <1>8
<1>10. ASSUME NEW i \in 1 .. buffer_length + w PROVE Stored(d)[i] = all[i]
  <2>1. Stored(d)[i] = IF i - buffer_length \in 1 .. w THEN d[i - buffer_length] ELSE buffer[i]
    BY <1>1, <1>2, <1>3, <1>5 DEF Stored, w
  <2>2. CASE i <= buffer_length
    <3>1. all[i] = passed[i] /\ buffer[i] = passed[i] /\ i - buffer_length \notin 1 .. w
      BY <1>1, <1>2, <1>3, <1>6, <2>2
    <3>2. QED
      BY <2>1, <3>1
  <2>3. CASE i > buffer_length
    <3>1. i - buffer_length \in 1 .. w /\ remaining_size > 0
      BY <1>2, <1>3, <2>3
    <3>2. Len(passed) = buffer_length /\ i - buffer_length \in 1 .. Len(d)
      BY <1>1, <1>2, <1>3, <3>1
    <3>3. all[Len(passed) + (i - buffer_length)] = d[i - buffer_length]
      BY <1>6, <3>2
    <3>4. Len(passed) + (i - buffer_length) = i
      BY <1>2, <3>2
    <3>5. QED
      BY <2>1, <3>1, <3>3, <3>4
  <2>4. QED
    BY <1>2, <1>3, <2>2, <2>3
<1>11. \A i \in 1 .. buffer_length' : buffer'[i] = passed'[i]
  <2>1. ASSUME NEW i \in 1 .. buffer_length' PROVE buffer'[i] = passed'[i]
    <3>1. i \in 1 .. buffer_length + w /\ i \in 1 .. Len(passed')
      BY <1>1, <1>2, <1>3, <1>4, <1>5, <1>6, <1>7, <1>9
    <3>2. QED
      BY <1>4, <1>7, <1>10, <3>1
  <2>2. QED
    BY <2>1
<1>12. remaining_size' > 0 => Len(passed') = buffer_length'
  <2>1. SUFFICES ASSUME remaining_size' > 0 PROVE Len(passed') = buffer_length'
    OBVIOUS
  <2>2. w = Len(d) /\ remaining_size > 0
    BY <1>1, <1>2, <1>3, <1>4, <2>1
  <2>3. Len(all) = buffer_length + w
    BY <1>1, <1>2, <1>6, <2>2
  <2>4. QED
    BY <1>1, <1>2, <1>3, <1>4, <1>5, <1>7, <2>3
<1>13. QED
  BY <1>9, <1>11, <1>12 DEF OrderInv, StoredInOrder

\* Every step keeps the order.
LEMMA OrderInvNext ==
  CountInv /\ RestInv /\ OrderInv /\ [TransferNext]_uploadVars => OrderInv'
<1> SUFFICES ASSUME CountInv, RestInv, OrderInv, [TransferNext]_uploadVars PROVE OrderInv'
  OBVIOUS
<1>1. CASE UNCHANGED <<direction, remaining_size, buffer, buffer_length, passed>>
  BY <1>1 DEF OrderInv, StoredInOrder
<1>2. CASE direction' # "DOWNLOAD"
  BY <1>2 DEF OrderInv, StoredInOrder
<1>3. ASSUME NEW dir, NEW s, NEW secure, NEW a \in Addresses, NEW n \in Sizes,
             OpenTransfer(dir, s, secure, a, n)
      PROVE  OrderInv'
  BY <1>3 DEF OpenTransfer, OrderInv, StoredInOrder
<1>4. ASSUME NEW bsc, NEW d \in Blocks, StoreBlock(bsc, d) PROVE OrderInv'
  BY <1>4, CountInvNext, StoreBlockOrder
<1>5. ASSUME NEW bsc, NEW d, SendBlock(bsc, d) PROVE OrderInv'
  BY <1>2, <1>5 DEF SendBlock, AcceptCounter
<1>6. CASE CloseTransfer
  BY <1>2, <1>6 DEF CloseTransfer
<1>7. ASSUME NEW d, FillUpload(d) PROVE OrderInv'
  BY <1>2, <1>7 DEF FillUpload
<1>8. QED
  BY <1>1, <1>3, <1>4, <1>5, <1>6, <1>7
  DEF TransferNext, RequestTransfer, RefuseTransfer, RequestFileTransfer, TransferData,
      NoTransfer, WrongBlock, RefuseBlock, AcceptCounter, RegisterRegion,
      TransferExit, ExitWithData, uploadVars, transferVars, bufferVars, historyVars

\* What a download has stored is, in order, the beginning of what the tester was
\* told is received, for blocks of any length, refused, clamped or repeated.
THEOREM AlwaysStoredInOrder == TransferSpec => []StoredInOrder
<1>1. TransferInit => OrderInv
  BY DEF TransferInit, OrderInv, StoredInOrder
<1>2. OrderInv => StoredInOrder
  BY DEF OrderInv
<1>3. QED
  BY <1>1, <1>2, OrderInvNext, CountInvAlways, RestInvAlways, PTL DEF TransferSpec

-----------------------------------------------------------------------------
(* Uploads. *)

\* The integrator fills the buffer with no more than one block: then the gap the
\* memmove closes is never in front of bytes a response still points to.
OneBlockImages == \A d \in Images : Len(d) <= MaxBlock

\* An upload is not filled or all sent, or is filled and nothing is sent.
UploadInv ==
  direction = "UPLOAD" =>
    \/ buffer_length = 0 /\ (passed = <<>> \/ passed = image)
    \/ /\ passed = <<>> /\ Len(image) = buffer_length /\ remaining_size = buffer_length
       /\ buffer_length <= MaxBlock /\ \A i \in 1 .. buffer_length : buffer[i] = image[i]

\* The one block of an upload is all that was filled in.
LEMMA SendBlockWhole ==
  ASSUME CountInv, RestInv, UploadInv, NEW bsc, NEW d, SendBlock(bsc, d)
  PROVE  UploadInv'
<1> DEFINE n == buffer_length
           left == n - CopyLen
           moved == [i \in 1 .. BufferSize |-> IF i <= left THEN buffer[i + CopyLen] ELSE buffer[i]]
<1>1. direction = "UPLOAD" /\ BlockRefusal(d) = "NONE" /\ n # 0
  BY DEF SendBlock, BlockRefusal
<1>2. /\ passed = <<>> /\ Len(image) = n /\ remaining_size = n
      /\ n <= MaxBlock /\ \A i \in 1 .. n : buffer[i] = image[i]
  BY <1>1 DEF UploadInv
<1>3. n \in Nat /\ n <= BufferSize /\ BufferSize \in Nat /\ MaxBlock \in Nat
      /\ image \in Seq(DataBytes)
  BY <1>1, TransferParameters DEF CountInv, BytesConserved, RestInv
<1>4. CopyLen = n
  BY <1>2, <1>3 DEF CopyLen, ReadLen, Least2
<1>5. left = 0
  BY <1>3, <1>4
<1>6. image' = image /\ buffer_length' = left /\ passed' = Kept(passed \o Prefix(moved, CopyLen))
  BY DEF SendBlock, AcceptCounter
<1> HIDE DEF left
<1>7. \A i \in 1 .. n : moved[i] = image[i]
  BY <1>2, <1>3, <1>5
<1> HIDE DEF moved
<1>8. Prefix(moved, n) = image
  <2>1. Prefix(moved, n) = [i \in 1 .. n |-> image[i]]
    BY <1>7 DEF Prefix
  <2>2. image = [i \in 1 .. Len(image) |-> image[i]]
    BY <1>3
  <2>3. QED
    BY <1>2, <2>1, <2>2
<1>9. passed \o Prefix(moved, CopyLen) = image
  BY <1>2, <1>3, <1>4, <1>8
<1>10. Kept(image) = image
  <2>1. Kept(image) \in Seq(DataBytes) /\ Len(Kept(image)) = Len(image)
        /\ \A i \in 1 .. Len(image) : Kept(image)[i] = image[i]
    BY <1>2, <1>3, KeptFact
  <2>2. QED
    BY <1>3, <2>1, SeqEqual
<1>11. QED
  BY <1>5, <1>6, <1>9, <1>10 DEF UploadInv

\* Every step of an upload.
LEMMA UploadInvNext ==
  ASSUME OneBlockImages, CountInv, RestInv, UploadInv, [TransferNext]_uploadVars
  PROVE  UploadInv'
<1>1. CASE UNCHANGED <<direction, remaining_size, buffer, buffer_length, image, passed>>
  BY <1>1 DEF UploadInv
<1>2. CASE direction' # "UPLOAD"
  BY <1>2 DEF UploadInv
<1>3. ASSUME NEW dir, NEW s, NEW secure, NEW a, NEW n, OpenTransfer(dir, s, secure, a, n)
      PROVE  UploadInv'
  BY <1>3 DEF OpenTransfer, UploadInv
<1>4. ASSUME NEW bsc, NEW d, StoreBlock(bsc, d) PROVE UploadInv'
  BY <1>2, <1>4 DEF StoreBlock, AcceptCounter
<1>5. CASE CloseTransfer
  BY <1>2, <1>5 DEF CloseTransfer
<1>6. ASSUME NEW d \in Images, FillUpload(d) PROVE UploadInv'
  <2>1. direction = "UPLOAD" /\ image = <<>>
    BY <1>6 DEF FillUpload
  <2>2. passed = <<>>
    <3>1. buffer_length = 0 => passed = <<>>
      BY <2>1 DEF UploadInv
    <3>2. QED
      BY <2>1, <3>1 DEF UploadInv
  <2>3. d \in Seq(DataBytes) /\ Len(d) <= BufferSize /\ Len(d) <= MaxBlock /\ BufferSize \in Nat
    BY TransferParameters DEF OneBlockImages
  <2>4. /\ passed' = passed /\ image' = d /\ buffer_length' = Len(d) /\ remaining_size' = Len(d)
        /\ buffer' = [i \in 1 .. BufferSize |-> IF i <= Len(d) THEN d[i] ELSE buffer[i]]
    BY <1>6 DEF FillUpload
  <2>5. \A i \in 1 .. Len(d) : buffer'[i] = d[i]
    BY <2>3, <2>4
  <2>6. QED
    BY <2>2, <2>3, <2>4, <2>5 DEF UploadInv
<1>7. QED
  BY <1>1, <1>3, <1>4, <1>5, <1>6, SendBlockWhole
  DEF TransferNext, RequestTransfer, RefuseTransfer, RequestFileTransfer, TransferData,
      NoTransfer, WrongBlock, RefuseBlock, AcceptCounter, RegisterRegion,
      TransferExit, ExitWithData, uploadVars, transferVars, bufferVars, historyVars

\* What the tester receives of an upload of no more than one block is what the
\* buffer was filled with: the memmove before the response is read, which spoils
\* longer uploads, spoils nothing then.
THEOREM OneBlockUploadFaithful ==
  ASSUME OneBlockImages
  PROVE  TransferSpec => []UploadFaithful
<1>1. TransferInit => UploadInv
  BY DEF TransferInit, UploadInv
<1>2. RestInv /\ UploadInv => UploadFaithful
  <2>1. ASSUME RestInv, UploadInv, direction = "UPLOAD"
        PROVE  Len(passed) <= Len(image) /\ \A i \in 1 .. Len(passed) : passed[i] = image[i]
    <3>1. Len(image) \in Nat /\ (passed = <<>> \/ passed = image)
      BY <2>1 DEF RestInv, UploadInv
    <3>2. QED
      BY <3>1
  <2>2. QED
    BY <2>1 DEF UploadFaithful
<1>3. CountInv /\ RestInv /\ UploadInv /\ [TransferNext]_uploadVars => UploadInv'
  BY UploadInvNext
<1>4. QED
  BY <1>1, <1>2, <1>3, CountInvAlways, RestInvAlways, PTL DEF TransferSpec
=============================================================================
