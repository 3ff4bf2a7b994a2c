------------------------------ MODULE LinTimers ------------------------------
(***************************************************************************)
(* The time stamps of a LIN transport context and the static pool that     *)
(* contexts come from (lin_create_ctx, lin_free_ctx).  The caller passes a *)
(* millisecond clock that wraps: a uint32_t.  No other code of the program *)
(* calls these operations, so any caller's sequence of them is allowed.    *)
(*                                                                         *)
(* now, stamped_at and owners are history variables: the time that does    *)
(* not wrap, when each stamp was taken (Never since the context was        *)
(* created), and how many callers were handed each slot.                   *)
(***************************************************************************)
EXTENDS Integers, FiniteSetsExt

CONSTANTS
  Instances,   \* LIN_TRANSPORT_MAX_INSTANCES
  ClockSize,   \* number of values of the clock
  LimitB,      \* LIN_TIMEOUT_N_BS, N_BR and N_CR
  LimitA,      \* LIN_TIMEOUT_N_AS and N_AR
  LastTime     \* bound on now

ASSUME TimerParameters ==
  /\ Instances \in Nat \ {0}
  /\ LimitA \in Nat /\ LimitB \in Nat
  /\ ClockSize \in Nat /\ LimitA < ClockSize /\ LimitB < ClockSize
  /\ LastTime \in Nat

VARIABLES
  pool_used,    \* g_pool_used
  stamp,        \* last_tx_time and last_rx_time of each slot
  now, stamped_at, owners

timerVars == <<pool_used, stamp, now, stamped_at, owners>>

PoolSlots == 0 .. Instances - 1
Sides == {"tx", "rx"}
Never == -1

\* ctx_init, as far as time goes
FreshStamp == [s \in Sides |-> 0]

TimersInit ==
  /\ pool_used = [i \in PoolSlots |-> FALSE]
  /\ stamp = [i \in PoolSlots |-> FreshStamp]
  /\ now = 0
  /\ stamped_at = [i \in PoolSlots |-> [s \in Sides |-> Never]]
  /\ owners = [i \in PoolSlots |-> 0]

\* What the caller's clock shows.
Clock == now % ClockSize

\* Mutated form of FreeSlots: the last slot is never looked at as used.
FreeSlotsAll == {i \in PoolSlots : ~pool_used[i] \/ i = Instances - 1}

FreeSlots == {i \in PoolSlots : ~pool_used[i]}

WipeSlot(i) ==
  /\ stamp' = [stamp EXCEPT ![i] = FreshStamp]
  /\ stamped_at' = [stamped_at EXCEPT ![i] = [s \in Sides |-> Never]]

\* lin_create_ctx; with no free slot it returns NULL.
CreateCtx ==
  /\ FreeSlots # {}
  /\ LET i == Min(FreeSlots) IN
     /\ pool_used' = [pool_used EXCEPT ![i] = TRUE]
     /\ owners' = [owners EXCEPT ![i] = @ + 1]
     /\ WipeSlot(i)
  /\ UNCHANGED now

\* lin_free_ctx of a context its caller has; a context outside the pool is ignored.
FreeCtx(i) ==
  /\ owners[i] > 0
  /\ pool_used' = [pool_used EXCEPT ![i] = FALSE]
  /\ owners' = [owners EXCEPT ![i] = @ - 1]
  /\ WipeSlot(i)
  /\ UNCHANGED now

\* lin_transport_record_tx_time_ctx and lin_transport_record_rx_time_ctx
RecordTime(i, side) ==
  /\ owners[i] > 0
  /\ stamp' = [stamp EXCEPT ![i][side] = Clock]
  /\ stamped_at' = [stamped_at EXCEPT ![i][side] = now]
  /\ UNCHANGED <<pool_used, now, owners>>

-----------------------------------------------------------------------------
(* lin_transport_check_timeout_ctx, which only answers: types 0 to 4 are N_Bs,
   N_Br, N_Cr, N_As and N_Ar.                                               *)

SideOf(type)  == IF type \in {2, 4} THEN "rx" ELSE "tx"
LimitOf(type) == IF type \in {3, 4} THEN LimitA ELSE LimitB

\* Mutated form of TimedOut: the deadline is computed, and wraps before the clock.
TimedOutDeadline(i, type) ==
  type \in 0 .. 4 /\ Clock >= (stamp[i][SideOf(type)] + LimitOf(type)) % ClockSize

\* The subtraction is one of uint32_t.
Elapsed(i, side) == (Clock - stamp[i][side]) % ClockSize

TimedOut(i, type) == type \in 0 .. 4 /\ Elapsed(i, SideOf(type)) >= LimitOf(type)

TimeGoesOn ==
  /\ now < LastTime
  /\ now' = now + 1
  /\ UNCHANGED <<pool_used, stamp, stamped_at, owners>>

TimersNext ==
  \/ CreateCtx
  \/ \E i \in PoolSlots :
       \/ FreeCtx(i)
       \/ \E side \in Sides : RecordTime(i, side)
  \/ TimeGoesOn

TimersSpec == TimersInit /\ [][TimersNext]_timerVars

-----------------------------------------------------------------------------
(* Types of the pool and the stamps. *)
TimersTypeOK ==
  /\ pool_used \in [PoolSlots -> BOOLEAN]
  /\ stamp \in [PoolSlots -> [Sides -> 0 .. ClockSize - 1]]
  /\ stamped_at \in [PoolSlots -> [Sides -> Nat \cup {Never}]]
  /\ now \in Nat
  /\ owners \in [PoolSlots -> Nat]

\* A slot of the pool has at most one owner, and is marked used while it has one.
\* Freeing it leaves nothing of its time stamps for the next.
PoolExclusive ==
  \A i \in PoolSlots :
    /\ owners[i] = IF pool_used[i] THEN 1 ELSE 0
    /\ owners[i] = 0 => stamp[i] = FreshStamp

\* A timeout is reported when, and only when, as much time as its limit has
\* passed since the frame it is counted from, however often the clock has wrapped
\* in its life; unless a whole turn of the clock passes between the two.
TimeoutExact ==
  \A i \in PoolSlots, type \in 0 .. 4 :
    LET from == stamped_at[i][SideOf(type)] IN
    from # Never /\ now - from < ClockSize =>
      (TimedOut(i, type) <=> now - from >= LimitOf(type))
=============================================================================
