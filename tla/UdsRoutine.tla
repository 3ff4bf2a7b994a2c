----------------------------- MODULE UdsRoutine -----------------------------
(***************************************************************************)
(* RoutineControl (uds_svc_routine): a table of routines, each with the    *)
(* callbacks it supports, of which one at a time may be running.  Whether a *)
(* callback succeeds is its own verdict.  Routines are never unregistered,  *)
(* so the active slots of the table are its first ones: a sequence.         *)
(***************************************************************************)
EXTENDS Integers, Sequences

CONSTANTS
  Routines,    \* what may be registered: the entry without its run state
  Defaults,    \* the sequence uds_svc_routine_init registers
  RoutineMax   \* UDS_ROUTINE_MAX

\* session_mask, security_level > 0, and which of the callbacks are not NULL.
Entry == [id : Nat, sessions : SUBSET {"DEFAULT", "PROGRAMMING", "EXTENDED"},
          secured : BOOLEAN, start : BOOLEAN, stop : BOOLEAN, results : BOOLEAN]

ASSUME RoutineParameters ==
  /\ Routines \subseteq Entry
  /\ RoutineMax \in Nat
  /\ Defaults \in Seq(Entry) /\ Len(Defaults) <= RoutineMax
  /\ \A i, j \in 1 .. Len(Defaults) : Defaults[i].id = Defaults[j].id => i = j

VARIABLES
  registry,    \* the active slots of g_routine_registry, without is_running
  is_running   \* is_running of those slots

routineVars == <<registry, is_running>>

RoutineNRCs == {"NONE", "SFNS", "IMLOIF", "ROOR", "SAD", "CNC", "GPF"}

Slots == 1 .. Len(registry)

\* uds_svc_routine_init
RoutineInit ==
  /\ registry = Defaults
  /\ is_running = [i \in 1 .. Len(Defaults) |-> FALSE]

\* Mutated forms of MayRegister (the identifier may be in the table already) and
\* of NewSlot (the slot is left as it is).
MayRegisterTwice(e) == Len(registry) < RoutineMax
NewSlotStale == UNCHANGED is_running

\* A registered routine is not running.
NewSlot == is_running' = Append(is_running, FALSE)

MayRegister(e) ==
  /\ Len(registry) < RoutineMax
  /\ \A i \in Slots : registry[i].id # e.id

\* uds_svc_routine_register; otherwise it only returns false.
RegisterRoutine(e) ==
  /\ MayRegister(e)
  /\ registry' = Append(registry, e)
  /\ NewSlot

-----------------------------------------------------------------------------
(* uds_svc_routine_control: unlocked is the flag its context points to, nrc
   the answer it gives, "NONE" for a positive one.                          *)

\* An unknown subfunction, a short request, an unknown routine.
BadRequest(nrc) == nrc \in {"SFNS", "IMLOIF", "ROOR"} /\ UNCHANGED routineVars

NotPermitted(i, unlocked) == registry[i].secured /\ ~unlocked

\* is_any_other_running: slots are told apart by their identifiers.
AnyOtherRunning(id) == \E i \in Slots : is_running[i] /\ registry[i].id # id

StartBlocked(i) == is_running[i] \/ AnyOtherRunning(registry[i].id)

StartRefusal(i, unlocked, ok) ==
  IF NotPermitted(i, unlocked) THEN "SAD"
  ELSE IF StartBlocked(i) THEN "CNC"
  ELSE IF ~registry[i].start THEN "SFNS"
  ELSE IF ~ok THEN "GPF"
  ELSE "NONE"

StopRefusal(i, unlocked, ok) ==
  IF NotPermitted(i, unlocked) THEN "SAD"
  ELSE IF ~is_running[i] THEN "CNC"
  ELSE IF ~registry[i].stop THEN "SFNS"
  ELSE IF ~ok THEN "GPF"
  ELSE "NONE"

ResultsRefusal(i, unlocked, ok) ==
  IF NotPermitted(i, unlocked) THEN "SAD"
  ELSE IF ~registry[i].results THEN "SFNS"
  ELSE IF ~ok THEN "GPF"
  ELSE "NONE"

StartRoutine(i, unlocked, ok, nrc) ==
  /\ nrc = StartRefusal(i, unlocked, ok)
  /\ is_running' = [is_running EXCEPT ![i] = @ \/ nrc = "NONE"]
  /\ UNCHANGED registry

StopRoutine(i, unlocked, ok, nrc) ==
  /\ nrc = StopRefusal(i, unlocked, ok)
  /\ is_running' = [is_running EXCEPT ![i] = @ /\ nrc # "NONE"]
  /\ UNCHANGED registry

RequestResults(i, unlocked, ok, nrc) ==
  /\ nrc = ResultsRefusal(i, unlocked, ok)
  /\ UNCHANGED routineVars

RoutineControl(i, unlocked, nrc) ==
  \E ok \in BOOLEAN :
    \/ StartRoutine(i, unlocked, ok, nrc)
    \/ StopRoutine(i, unlocked, ok, nrc)
    \/ RequestResults(i, unlocked, ok, nrc)

RoutineNext ==
  \/ \E e \in Routines : RegisterRoutine(e)
  \/ \E nrc \in RoutineNRCs : BadRequest(nrc)
  \/ \E i \in Slots, unlocked \in BOOLEAN, nrc \in RoutineNRCs :
       RoutineControl(i, unlocked, nrc)

RoutineSpec == RoutineInit /\ [][RoutineNext]_routineVars

-----------------------------------------------------------------------------
(* Types of the table. *)
RoutineTypeOK ==
  /\ registry \in Seq(Entry)
  /\ is_running \in [Slots -> BOOLEAN]

\* "Used to enforce the only one routine at a time constraint": whatever is
\* registered, started and stopped, no two slots are running.  The check tells
\* slots apart by identifier, so it needs that no identifier is registered twice.
OneAtATime ==
  /\ \A i, j \in Slots : is_running[i] /\ is_running[j] => i = j
  /\ \A i, j \in Slots : registry[i].id = registry[j].id => i = j
=============================================================================
