------------------------------ MODULE MC_UdsEcu ------------------------------
(* One tester of the whole ECU.  The services on data share no state with     *)
(* each other, nor with transfers and routines, so each behaviour keeps to a  *)
(* family of them besides sessions, security and time; in "programming" that  *)
(* is all of ServerNext.                                                      *)
EXTENDS UdsEcu, MC_UdsServer

VARIABLE family

vars == <<ecuVars, family>>

Init ==
  /\ EcuInit
  /\ family \in {"programming", "data", "memory", "dynamic", "stored", "events", "comm"}

CoreStep ==
  \/ \E s \in Sessions, suppress \in SuppressBits : SessionControl(s, suppress)
  \/ \E l \in Levels, suppress \in SuppressBits : SecurityAccess(l, suppress)
  \/ TimePasses

Next ==
  /\ \/ /\ IF family = "programming" THEN ServerNext ELSE CoreStep
        /\ UNCHANGED serviceVars
     \/ family = "data" /\ (DataServices \/ IoService)
     \/ family = "memory" /\ MemoryServices
     \/ family = "dynamic" /\ DynamicService
     \/ family = "stored" /\ StoredServices
     \/ family = "events" /\ EventService
     \/ family = "comm" /\ CommServices
  /\ UNCHANGED family

Spec == Init /\ [][Next]_vars

MC_Contents == {<<1>>}
MC_DefaultRegion == [start |-> 0, end |-> 1]
MC_Regions == {[start |-> 2, end |-> 2]}
MC_Definitions == {<<"id">>}

ro == [did |-> 1, len |-> 1, access |-> "READ_ONLY", callbacks |-> FALSE]
sw == [did |-> 3, len |-> 1, access |-> "SECURED_WRITE", callbacks |-> FALSE]
MC_DefaultDids == <<ro>>
MC_Dids == {sw}
MC_Values == {<<1>>}

MC_EventData == {<<1>>, <<1, 2, 3>>, <<1, 2, 3, 4, 5>>}
=============================================================================
