------------------------------- MODULE UdsIo --------------------------------
(***************************************************************************)
(* InputOutputControlByIdentifier (uds_svc_io): a table of the values that *)
(* registered identifiers are overridden with.  Returning control blanks a *)
(* slot in the middle of the table.                                        *)
(***************************************************************************)
EXTENDS UdsData, FiniteSetsExt

CONSTANTS
  OverrideMax,  \* IO_OVERRIDE_MAX
  ValueMax      \* IO_OVERRIDE_VALUE_MAX

ASSUME IoParameters == OverrideMax \in Nat /\ ValueMax \in Nat \ {0}

VARIABLES
  overrides,  \* g_io_overrides
  io_done     \* history: the last operation the table itself was asked for

ioVars == <<overrides, io_done>>

IoSlots == 1 .. OverrideMax
NoOverride == [did |-> 0, value |-> <<>>, active |-> FALSE]

IoOp(op, did, value, ok) == [op |-> op, key |-> did, value |-> value, ok |-> ok]

\* uds_svc_io_init; uds_svc_io_reset has no caller in the program.
IoInit ==
  /\ overrides = [i \in IoSlots |-> NoOverride]
  /\ io_done = IoOp("init", 0, <<>>, TRUE)

\* Mutated form of FindOverride: the search ends at the first free slot.
FindOverridePacked(did) ==
  {i \in IoSlots : /\ overrides[i].did = did
                  /\ \A j \in 1 .. i : overrides[j].active}

\* find_override, as the set of slots the identifier has.
FindOverride(did) == {i \in IoSlots : overrides[i].active /\ overrides[i].did = did}

\* find_free_override_slot
FreeOverrides == {i \in IoSlots : ~overrides[i].active}

Secured(e) == e.access \in {"SECURED_READ", "SECURED_WRITE"}

Denied(e, unlocked) == Secured(e) /\ ~unlocked

RefuseIo(nrc) == DataAnswer(nrc, <<>>) /\ UNCHANGED ioVars

\* Mutated form of Removed: the slot is only marked free.
RemovedStale(i) == [overrides[i] EXCEPT !.active = FALSE]

\* remove_override
Removed(i) == NoOverride

\* returnControlToStandard and resetToDefault: no override is no error.
ReturnControl(i, unlocked) ==
  LET did == did_registry[i].did IN
  IF Denied(did_registry[i], unlocked) THEN RefuseIo("SAD")
  ELSE /\ overrides' = IF FindOverride(did) = {} THEN overrides
                       ELSE LET s == Min(FindOverride(did)) IN
                            [overrides EXCEPT ![s] = Removed(s)]
       /\ io_done' = IoOp("remove", did, <<>>, TRUE)
       /\ DataAnswer("NONE", <<>>)

\* freezeCurrentState reads the identifier and keeps nothing.
Freeze(i, unlocked) ==
  /\ IF Denied(did_registry[i], unlocked) THEN DataAnswer("SAD", <<>>)
     ELSE \/ ReadFails(i, RspMax - 3, unlocked) /\ DataAnswer("ROOR", <<>>)
          \/ \E v \in Readings(i, RspMax - 3, unlocked) : DataAnswer("NONE", v)
  /\ UNCHANGED ioVars

Clamped(v) == SubSeq(v, 1, Min({Len(v), ValueMax}))

\* shortTermAdjustment: the identifier's slot, or a free one.
Adjust(i, v, unlocked) ==
  LET did == did_registry[i].did
      slots == IF FindOverride(did) # {} THEN FindOverride(did) ELSE FreeOverrides IN
  IF Denied(did_registry[i], unlocked) THEN RefuseIo("SAD")
  ELSE IF v = <<>> THEN RefuseIo("IMLOIF")
  ELSE /\ io_done' = IoOp("put", did, Clamped(v), slots # {})
       /\ IF slots = {} THEN DataAnswer("ROOR", <<>>) /\ UNCHANGED overrides
          ELSE /\ overrides' = [overrides EXCEPT ![Min(slots)] =
                                  [did |-> did, value |-> Clamped(v), active |-> TRUE]]
               /\ DataAnswer("NONE", Clamped(v))

\* No context, a request of a wrong length, an unknown identifier or mode.
BadIoRequest == \E nrc \in {"CNC", "IMLOIF", "ROOR"} : RefuseIo(nrc)

\* uds_svc_io_control
IoControl(unlocked) ==
  \/ BadIoRequest
  \/ \E i \in DidIndices :
       \/ ReturnControl(i, unlocked) \/ Freeze(i, unlocked)
       \/ \E v \in Values \cup {<<>>} : Adjust(i, v, unlocked)

IoNext ==
  \/ DataNext /\ UNCHANGED ioVars
  \/ \E unlocked \in BOOLEAN : IoControl(unlocked) /\ UNCHANGED <<did_registry, did_data, periodic>>

IoSpec == DataInit /\ IoInit /\ [][IoNext]_<<dataVars, ioVars>>

-----------------------------------------------------------------------------
(* Types; an override is of a registered identifier, a free slot is blank. *)
IoTypeOK ==
  \A i \in IoSlots :
    \/ overrides[i] = NoOverride
    \/ /\ overrides[i].active /\ Found(overrides[i].did) # {}
       /\ Len(overrides[i].value) \in 1 .. ValueMax

\* The table is a map: an identifier is overridden with the value last accepted
\* for it until control is returned, and an adjustment is refused for want of
\* room only if OverrideMax other identifiers are overridden.
Overridden ==
  [did \in {overrides[i].did : i \in IoSlots \ FreeOverrides} |->
     overrides[CHOOSE i \in IoSlots :
                  overrides[i].active /\ overrides[i].did = did].value]

IoKeys == {e.did : e \in Dids} \cup {DefaultDids[i].did : i \in 1 .. Len(DefaultDids)}

OverrideMap == INSTANCE BoundedMap WITH
  Keys <- IoKeys, Values <- {Clamped(v) : v \in Values},
  Capacity <- OverrideMax, Overwrites <- TRUE, map <- Overridden, done <- io_done
OverridesAreMap == OverrideMap!Spec
=============================================================================
