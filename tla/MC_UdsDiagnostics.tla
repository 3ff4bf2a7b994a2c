-------------------------- MODULE MC_UdsDiagnostics --------------------------
(* The services on stored data, and the table they are called from.  Trouble *)
(* codes, memory, dynamic identifiers and the table share no state, and I/O  *)
(* control sees of the identifiers only which are registered and what they   *)
(* hold, so each behaviour keeps to one family: more would only interleave   *)
(* them.                                                                     *)
EXTENDS UdsDtc, UdsMemory, UdsDynamic, UdsIo, UdsService

VARIABLE family

vars == <<dtcVars, memoryVars, dynamicVars, dataVars, ioVars, serviceVars, family>>

Init ==
  /\ DtcInit /\ MemoryInit /\ DynamicInit /\ DataInit /\ IoInit /\ ServiceInit
  /\ family \in {"stored", "memory", "dynamic", "identifiers", "control", "table"}

Next ==
  /\ \/ family = "stored" /\ DtcNext /\ UNCHANGED <<memoryVars, dynamicVars, dataVars, ioVars>>
     \/ family = "memory" /\ MemoryNext /\ UNCHANGED <<dtcVars, dynamicVars, dataVars, ioVars>>
     \/ family = "dynamic" /\ DynamicNext /\ UNCHANGED <<dtcVars, memoryVars, dataVars, ioVars>>
     \/ family = "identifiers" /\ DataNext /\ UNCHANGED <<dtcVars, memoryVars, dynamicVars, ioVars>>
     \/ /\ family = "control" /\ UNCHANGED <<dtcVars, memoryVars, dynamicVars, periodic>>
        /\ \/ \E e \in Dids : RegisterDid(e) /\ UNCHANGED ioVars
           \/ \E may \in BOOLEAN : IoControl(may) /\ UNCHANGED <<did_registry, did_data>>
     \/ /\ family = "table" /\ ServiceNext
        /\ UNCHANGED <<dtcVars, memoryVars, dynamicVars, dataVars, ioVars>>
  /\ family # "table" => UNCHANGED serviceVars
  /\ UNCHANGED family

Spec == Init /\ [][Next]_vars

\* The tables of all services keep their types: above all, a record or slot that
\* is not in use is blank, so that nothing of its last use shows through in the
\* next, and a data buffer always holds all the bytes of its identifier.
TypeOK == DtcTypeOK /\ OneRecordEach /\ DataTypeOK /\ MemoryTypeOK /\ DynamicTypeOK /\ IoTypeOK
          /\ ServiceTypeOK

MC_Contents == {<<1>>, <<1, 1>>}
MC_DefaultRegion == [start |-> 0, end |-> 1]
MC_Regions == {[start |-> 2, end |-> 3], [start |-> 3, end |-> 2]}
MC_Definitions == {<<"id">>, <<"memory">>, <<"id", "id">>, <<"id", "id", "id">>}

ro == [did |-> 1, len |-> 2, access |-> "READ_ONLY", callbacks |-> FALSE]
rw == [did |-> 2, len |-> 2, access |-> "READ_WRITE", callbacks |-> FALSE]
sw == [did |-> 3, len |-> 1, access |-> "SECURED_WRITE", callbacks |-> FALSE]
sr == [did |-> 3, len |-> 4, access |-> "SECURED_READ", callbacks |-> TRUE]
wo == [did |-> 2, len |-> 4, access |-> "WRITE_ONLY", callbacks |-> TRUE]

MC_DefaultDids == <<ro>>
MC_Dids == {rw, sw, sr, wo}
MC_Masks == {{"PROGRAMMING"}, {"PROGRAMMING", "DEFAULT"}}

MC_Values == {<<1>>, <<1, 0>>, <<0, 1, 1>>}
=============================================================================
