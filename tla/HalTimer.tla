------------------------------ MODULE HalTimer ------------------------------
(***************************************************************************)
(* The POSIX one-shot timer (hal_timer_posix): a start and a duration on   *)
(* the monotonic nanosecond clock, asked in milliseconds.                  *)
(***************************************************************************)
EXTENDS Naturals

CONSTANTS
  Millisecond,  \* nanoseconds in a millisecond
  Timeouts,     \* timeout_ms of hal_timer_start
  LastTick      \* bound on the clock

ASSUME HalTimerParameters ==
  Millisecond \in Nat \ {0} /\ Timeouts \subseteq Nat /\ LastTick \in Nat

VARIABLES
  timer_initialised, timer_running, timer_start_ns, timer_duration_ns,
  clock_ns,          \* CLOCK_MONOTONIC
  report             \* the last answers: is_expired, and remaining time 0

halTimerVars == <<timer_initialised, timer_running, timer_start_ns, timer_duration_ns,
                  clock_ns, report>>

HalTimerInit ==
  /\ timer_initialised = FALSE /\ timer_running = FALSE
  /\ timer_start_ns = 0 /\ timer_duration_ns = 0
  /\ clock_ns \in 0 .. Millisecond
  /\ report = [expired |-> FALSE, zero |-> TRUE]

Halted == timer_running' = FALSE /\ timer_duration_ns' = 0 /\ timer_start_ns' = 0

\* hal_timer_init
InitTimer == Halted /\ timer_initialised' = TRUE /\ UNCHANGED <<clock_ns, report>>

\* hal_timer_stop
StopTimer == Halted /\ UNCHANGED <<timer_initialised, clock_ns, report>>

\* Mutated form of StartedAt: the start of a running timer is kept.
StartedAtFirst == IF timer_running THEN timer_start_ns ELSE clock_ns

StartedAt == clock_ns

\* hal_timer_start; before hal_timer_init it only returns HAL_ERROR.
StartTimer(ms) ==
  /\ timer_initialised
  /\ timer_start_ns' = StartedAt
  /\ timer_duration_ns' = ms * Millisecond
  /\ timer_running' = TRUE
  /\ UNCHANGED <<timer_initialised, clock_ns, report>>

ElapsedNs == clock_ns - timer_start_ns

\* is_expired_raw
IsExpired == timer_running /\ ElapsedNs >= timer_duration_ns

\* Mutated form of RoundedMs: the last, incomplete millisecond is dropped.
RoundedMsDown(ns) == ns \div Millisecond

\* Rounded up to the next whole millisecond.
RoundedMs(ns) == (ns + Millisecond - 1) \div Millisecond

\* hal_timer_get_remaining_ms
RemainingMs ==
  IF ~timer_running \/ ElapsedNs >= timer_duration_ns THEN 0
  ELSE RoundedMs(timer_duration_ns - ElapsedNs)

AskTimer ==
  /\ report' = [expired |-> IsExpired, zero |-> RemainingMs = 0]
  /\ UNCHANGED <<timer_initialised, timer_running, timer_start_ns, timer_duration_ns, clock_ns>>

Tick ==
  /\ clock_ns < LastTick
  /\ clock_ns' = clock_ns + 1
  /\ UNCHANGED <<timer_initialised, timer_running, timer_start_ns, timer_duration_ns, report>>

HalTimerNext ==
  \/ InitTimer \/ StopTimer \/ AskTimer \/ Tick
  \/ \E ms \in Timeouts : StartTimer(ms)

HalTimerSpec == HalTimerInit /\ [][HalTimerNext]_halTimerVars

-----------------------------------------------------------------------------
(* Types of the timer. *)
HalTimerTypeOK ==
  /\ timer_initialised \in BOOLEAN /\ timer_running \in BOOLEAN
  /\ timer_start_ns \in 0 .. clock_ns /\ timer_duration_ns \in Nat /\ clock_ns \in Nat
  /\ timer_running => timer_initialised

\* The timer is a one-shot timer: it expires once its time is up and not before,
\* stays expired until started or stopped, and "a nearly-expired timer never
\* reports 0 before it truly has expired": at any one moment its two answers do
\* not contradict each other.
OneShot == INSTANCE OneShotTimer WITH
  timer <- IF ~timer_running THEN "off" ELSE IF IsExpired THEN "expired" ELSE "running"
TimerIsOneShot == OneShot!Spec
=============================================================================
