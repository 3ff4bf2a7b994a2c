----------------------------- MODULE UdsSecurity -----------------------------
(***************************************************************************)
(* The SecurityAccess state machine (uds_security): one record per level,  *)
(* one seed_pending/current_level_idx pair and ONE delay, run on the one   *)
(* HAL timer, for all levels.  Whether a key is right is the validation    *)
(* callback's verdict, either of which may come for any key; seeds and     *)
(* keys themselves are not represented.                                    *)
(*                                                                         *)
(* guesses is a history variable: the wrong keys judged at a level since   *)
(* it was last unlocked or last put in delay.                              *)
(***************************************************************************)
EXTENDS Naturals

CONSTANTS Levels,       \* level indexes below SECURITY_NUM_LEVELS
          MaxAttempts   \* SECURITY_MAX_ATTEMPTS

ASSUME SecurityParameters ==
  /\ Levels # {}
  /\ MaxAttempts \in Nat \ {0}

VARIABLES
  unlocked,            \* per level
  seed_sent,           \* per level: a seed is out, its key not received
  attempt_count,       \* per level
  current_level_idx, seed_pending,
  delay_active,
  timer,               \* the HAL timer: off, running or expired
  nrc,                 \* the answer to the last request
  guesses              \* history

levelVars   == <<unlocked, seed_sent, attempt_count, guesses>>
pendingVars == <<current_level_idx, seed_pending>>
delayVars   == <<delay_active, timer>>
secVars     == <<levelVars, pendingVars, delayVars, nrc>>

NRCs == {"POSITIVE", "SFNS", "RSE", "IK", "ENOA", "RTDNE"}

\* uds_security_init
SecInit ==
  /\ unlocked = [l \in Levels |-> FALSE]
  /\ seed_sent = [l \in Levels |-> FALSE]
  /\ attempt_count = [l \in Levels |-> 0]
  /\ guesses = [l \in Levels |-> 0]
  /\ current_level_idx \in Levels
  /\ seed_pending = FALSE
  /\ delay_active = FALSE
  /\ timer = "off"
  /\ nrc = "POSITIVE"

-----------------------------------------------------------------------------
\* A subfunction whose level index is out of range: both calls refuse it first.
InvalidLevel ==
  /\ nrc' = "SFNS"
  /\ UNCHANGED <<levelVars, pendingVars, delayVars>>

\* Mutated forms of DelayHolds: the timer's answer inverted, and never asked for.
DelayInverted == delay_active /\ timer = "expired"
DelayStuck    == delay_active

\* hal_timer_is_expired, asked while delay_active: the delay still holds.
DelayHolds == delay_active /\ timer # "expired"

DelayRefusal ==
  /\ DelayHolds
  /\ nrc' = "RTDNE"
  /\ UNCHANGED <<levelVars, pendingVars, delayVars>>

(* uds_security_request_seed *)

ZeroSeed(l) ==
  /\ ~DelayHolds
  /\ unlocked[l]
  /\ delay_active' = FALSE
  /\ nrc' = "POSITIVE"
  /\ UNCHANGED <<levelVars, pendingVars, timer>>

NewSeed(l) ==
  /\ ~DelayHolds
  /\ ~unlocked[l]
  /\ delay_active' = FALSE
  /\ seed_sent' = [seed_sent EXCEPT ![l] = TRUE]
  /\ seed_pending' = TRUE
  /\ current_level_idx' = l
  /\ nrc' = "POSITIVE"
  /\ UNCHANGED <<unlocked, attempt_count, guesses, timer>>

RequestSeed(l) == DelayRefusal \/ ZeroSeed(l) \/ NewSeed(l)

-----------------------------------------------------------------------------
(* uds_security_send_key: the seed test comes before the delay test. *)

NoSeed(l) ==
  /\ ~seed_sent[l]
  /\ nrc' = "RSE"
  /\ UNCHANGED <<levelVars, pendingVars, delayVars>>

KeyInDelay(l) == seed_sent[l] /\ DelayRefusal

\* Mutated forms of ConsumeSeed: the level's seed stays out; it stays pending.
ConsumeKeepsSeed(l) ==
  /\ seed_sent[l] /\ ~DelayHolds
  /\ seed_pending' = FALSE
  /\ UNCHANGED <<seed_sent, current_level_idx>>
ConsumeKeepsPending(l) ==
  /\ seed_sent[l] /\ ~DelayHolds
  /\ seed_sent' = [seed_sent EXCEPT ![l] = FALSE]
  /\ UNCHANGED pendingVars

\* Every way on from a seed withdraws it.
ConsumeSeed(l) ==
  /\ seed_sent[l]
  /\ ~DelayHolds
  /\ seed_sent' = [seed_sent EXCEPT ![l] = FALSE]
  /\ seed_pending' = FALSE
  /\ UNCHANGED current_level_idx

\* Mutated form of Exhausted: one attempt too many.
ExhaustedLate(l) == attempt_count[l] > MaxAttempts

Exhausted(l) == attempt_count[l] >= MaxAttempts

TooManyAttempts(l) ==
  /\ ConsumeSeed(l)
  /\ Exhausted(l)
  /\ timer' = "running"
  /\ delay_active' = TRUE
  /\ attempt_count' = [attempt_count EXCEPT ![l] = 0]
  /\ guesses' = [guesses EXCEPT ![l] = 0]
  /\ nrc' = "ENOA"
  /\ UNCHANGED unlocked

RightKey(l) ==
  /\ ConsumeSeed(l)
  /\ ~Exhausted(l)
  /\ unlocked' = [unlocked EXCEPT ![l] = TRUE]
  /\ attempt_count' = [attempt_count EXCEPT ![l] = 0]
  /\ guesses' = [guesses EXCEPT ![l] = 0]
  /\ delay_active' = FALSE
  /\ nrc' = "POSITIVE"
  /\ UNCHANGED timer

WrongKey(l) ==
  /\ ConsumeSeed(l)
  /\ ~Exhausted(l)
  /\ attempt_count' = [attempt_count EXCEPT ![l] = @ + 1]
  /\ guesses' = [guesses EXCEPT ![l] = @ + 1]
  /\ delay_active' = FALSE
  /\ nrc' = "IK"
  /\ UNCHANGED <<unlocked, timer>>

SendKey(l) ==
  NoSeed(l) \/ KeyInDelay(l) \/ TooManyAttempts(l) \/ RightKey(l) \/ WrongKey(l)

-----------------------------------------------------------------------------
\* Mutated forms of Lock: the attempts are given back; seeds stay out.
LockForgives ==
  /\ unlocked' = [l \in Levels |-> FALSE] /\ seed_sent' = [l \in Levels |-> FALSE]
  /\ seed_pending' = FALSE
  /\ attempt_count' = [l \in Levels |-> 0]
  /\ UNCHANGED <<guesses, current_level_idx, delayVars, nrc>>
LockKeepsSeeds ==
  /\ unlocked' = [l \in Levels |-> FALSE]
  /\ UNCHANGED <<seed_sent, attempt_count, guesses, pendingVars, delayVars, nrc>>

\* uds_security_lock
Lock ==
  /\ unlocked' = [l \in Levels |-> FALSE]
  /\ seed_sent' = [l \in Levels |-> FALSE]
  /\ seed_pending' = FALSE
  /\ UNCHANGED <<attempt_count, guesses, current_level_idx, delayVars, nrc>>

\* uds_security_get_delay_remaining_ms, when it changes anything
NoticeExpiry ==
  /\ delay_active /\ timer = "expired"
  /\ delay_active' = FALSE
  /\ UNCHANGED <<levelVars, pendingVars, timer, nrc>>

\* The running timer reaches its duration; it stays expired until restarted.
Expire ==
  /\ timer = "running"
  /\ timer' = "expired"
  /\ UNCHANGED <<levelVars, pendingVars, delay_active, nrc>>

\* uds_security_is_unlocked
IsUnlocked == \E l \in Levels : unlocked[l]

SecNext ==
  \/ InvalidLevel
  \/ \E l \in Levels : RequestSeed(l) \/ SendKey(l)
  \/ Lock
  \/ NoticeExpiry
  \/ Expire

SecSpec == SecInit /\ [][SecNext]_secVars

\* The clock runs, and the tester keeps asking for a seed once the time is up.
FairSecSpec ==
  /\ SecSpec
  /\ WF_secVars(Expire)
  /\ \A l \in Levels : WF_secVars(timer = "expired" /\ RequestSeed(l))

-----------------------------------------------------------------------------
(* Types of the module's state. *)
SecTypeOK ==
  /\ unlocked \in [Levels -> BOOLEAN]
  /\ seed_sent \in [Levels -> BOOLEAN]
  /\ attempt_count \in [Levels -> 0 .. MaxAttempts]
  /\ guesses \in [Levels -> Nat]
  /\ current_level_idx \in Levels
  /\ seed_pending \in BOOLEAN
  /\ delay_active \in BOOLEAN
  /\ timer \in {"off", "running", "expired"}
  /\ nrc \in NRCs

\* An unlocked level has no seed out and a full set of attempts: no key is ever
\* judged again at a level already unlocked, whatever requests come between.
UnlockedSettled == \A l \in Levels : unlocked[l] => ~seed_sent[l] /\ attempt_count[l] = 0

\* However requests, locks and delays of several levels interleave, no level has
\* more than SECURITY_MAX_ATTEMPTS wrong keys judged without being unlocked or
\* put in delay (uds_security_lock does not give the attempts back).
GuessesBounded == \A l \in Levels : guesses[l] <= MaxAttempts

\* While the delay's time runs the module knows that it does, and a delay it
\* believes in has a timer that will expire: it neither forgets a delay nor
\* waits on a timer nobody started.
DelayIsTimed ==
  /\ timer = "running" => delay_active
  /\ delay_active => timer # "off"

\* The pending level, when there is one, is one whose seed is out.
PendingHasSeed == seed_pending => seed_sent[current_level_idx]

\* Together: the seeds, the attempts, the delay and the one timer tell the same
\* story after any interleaving of the requests of several levels with locks and
\* the passing of time.
SecurityCoherent == UnlockedSettled /\ DelayIsTimed /\ PendingHasSeed

\* During the delay no level gives a seed, judges a key or becomes unlocked.
DelayRefusesAll ==
  [][timer = "running" => \A l \in Levels :
        /\ ~seed_sent[l] => ~seed_sent'[l]
        /\ ~unlocked[l] => ~unlocked'[l]
        /\ guesses'[l] <= guesses[l]
        /\ attempt_count'[l] = attempt_count[l]]_secVars

\* A tester that asks again after the time is up ends the delay: keys of other
\* levels may restart it, but only as often as seeds were out when it began.
DelayEnds == delay_active ~> ~delay_active
=============================================================================
