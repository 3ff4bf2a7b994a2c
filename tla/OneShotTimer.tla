---------------------------- MODULE OneShotTimer ----------------------------
(***************************************************************************)
(* What hal_timer.h promises of the one timer: it is off, running, or      *)
(* expired until it is started or stopped, and both of its questions tell  *)
(* which.  This is the timer the security module is modelled with.         *)
(***************************************************************************)
VARIABLES timer,
          report   \* the last answers: is_expired, and remaining time 0

vars == <<timer, report>>

Asked(e, z) == [expired |-> e, zero |-> z]

Init == timer = "off" /\ report = Asked(FALSE, TRUE)

\* A timer started for no time at all is expired at once.
Start  == timer' \in {"running", "expired"} /\ UNCHANGED report
Stop   == timer' = "off" /\ UNCHANGED report
Expire == timer = "running" /\ timer' = "expired" /\ UNCHANGED report
Ask    == report' = Asked(timer = "expired", timer # "running") /\ UNCHANGED timer

Next == Start \/ Stop \/ Expire \/ Ask

Spec == Init /\ [][Next]_vars
=============================================================================
