----------------------------- MODULE UdsDynamic -----------------------------
(***************************************************************************)
(* DynamicallyDefineDataIdentifier (0x2C in uds_svc_data): a table of      *)
(* dynamic identifiers, each with the sources it is made of.  Definitions  *)
(* are deleted in any order, so free slots are found among used ones.      *)
(***************************************************************************)
EXTENDS Naturals, Sequences, FiniteSets, FiniteSetsExt

CONSTANTS
  Targets,      \* dynamic identifiers the tester asks for
  Definitions,  \* the sources it names: identifiers, or one piece of memory
  SourceMax,    \* DYNAMIC_DID_SOURCE_MAX
  DynamicMax    \* DYNAMIC_DID_MAX

ASSUME DynamicParameters ==
  /\ \A s \in Definitions : Len(s) \in Nat
  /\ SourceMax \in Nat /\ DynamicMax \in Nat

VARIABLES
  dynamic_dids,  \* g_dynamic_dids
  dynamic_nrc,   \* the last answer
  dynamic_done   \* history: the last operation the table itself was asked for

dynamicVars == <<dynamic_dids, dynamic_nrc, dynamic_done>>

DynamicSlots == 1 .. DynamicMax
FreeSlot == [did |-> 0, sources |-> <<>>, active |-> FALSE]

DynamicOp(op, did, sources, ok) == [op |-> op, key |-> did, value |-> sources, ok |-> ok]

\* uds_svc_data_init
DynamicInit ==
  /\ dynamic_dids = [i \in DynamicSlots |-> FreeSlot]
  /\ dynamic_nrc = "NONE"
  /\ dynamic_done = DynamicOp("init", 0, <<>>, TRUE)

\* Mutated form of Holders: the search ends at the first free slot.
HoldersPacked(did) ==
  {i \in DynamicSlots : /\ dynamic_dids[i].did = did
                        /\ \A j \in 1 .. i : dynamic_dids[j].active}

\* find_dynamic_did, as the set of slots the identifier has.
Holders(did) == {i \in DynamicSlots : dynamic_dids[i].active /\ dynamic_dids[i].did = did}

\* find_free_dynamic_slot
FreeSlots == {i \in DynamicSlots : ~dynamic_dids[i].active}

\* Definition modes 0x01 and 0x02.  The sources themselves are not looked at.
Define(did, sources) ==
  /\ Len(sources) \in 1 .. SourceMax
  /\ IF Holders(did) = {} /\ FreeSlots # {}
     THEN /\ dynamic_dids' = [dynamic_dids EXCEPT ![Min(FreeSlots)] =
                                [did |-> did, sources |-> sources, active |-> TRUE]]
          /\ dynamic_nrc' = "NONE"
          /\ dynamic_done' = DynamicOp("put", did, sources, TRUE)
     ELSE /\ UNCHANGED dynamic_dids
          /\ dynamic_nrc' = "ROOR"
          /\ dynamic_done' = DynamicOp("put", did, sources, FALSE)

\* Definition mode 0x03.
Delete(did) ==
  /\ IF Holders(did) # {}
     THEN /\ dynamic_dids' = LET i == Min(Holders(did)) IN
                             [dynamic_dids EXCEPT ![i] = FreeSlot]
          /\ dynamic_nrc' = "NONE"
          /\ dynamic_done' = DynamicOp("remove", did, <<>>, TRUE)
     ELSE /\ UNCHANGED dynamic_dids
          /\ dynamic_nrc' = "ROOR"
          /\ dynamic_done' = DynamicOp("remove", did, <<>>, FALSE)

\* Too many sources, a wrong length, an unknown mode.
BadDefinition ==
  /\ dynamic_nrc' \in {"IMLOIF", "ROOR"}
  /\ UNCHANGED <<dynamic_dids, dynamic_done>>

DynamicNext ==
  \/ \E did \in Targets :
       Delete(did) \/ \E sources \in Definitions : Define(did, sources)
  \/ BadDefinition

DynamicSpec == DynamicInit /\ [][DynamicNext]_dynamicVars

-----------------------------------------------------------------------------
(* Types; a slot that is not in use is blank. *)
DynamicTypeOK ==
  dynamic_dids \in [DynamicSlots ->
    {FreeSlot} \cup [did : Targets, sources : Definitions, active : {TRUE}]]

\* The table is a map: an identifier has one definition, the one accepted for
\* it, from then until it is deleted; a definition is refused only if the
\* identifier has one or DynamicMax others do.
Defined ==
  [did \in {dynamic_dids[i].did : i \in DynamicSlots \ FreeSlots} |->
     dynamic_dids[CHOOSE i \in DynamicSlots :
                     dynamic_dids[i].active /\ dynamic_dids[i].did = did].sources]

DynamicMap == INSTANCE BoundedMap WITH
  Keys <- Targets, Values <- Definitions, Capacity <- DynamicMax,
  Overwrites <- FALSE, map <- Defined, done <- dynamic_done
DynamicIsMap == DynamicMap!Spec
=============================================================================
