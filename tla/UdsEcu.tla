------------------------------- MODULE UdsEcu -------------------------------
(***************************************************************************)
(* The whole ECU of the simulator: the server, whose core services are in  *)
(* UdsServer, and the services on data, memory, trouble codes, outputs and *)
(* events, each given what get_dispatch_context gives it.  These read the  *)
(* session and the simulator's copy of the security state and change       *)
(* neither; each leaves its answer in a variable of its own, so `answer'   *)
(* stays that of the last core service.                                    *)
(***************************************************************************)
EXTENDS UdsServer, UdsDtc, UdsMemory, UdsDynamic, UdsIo, UdsEvents, UdsComm

VARIABLE comm_nrc   \* answer of the services that keep nothing

serviceVars == <<dtcVars, memoryVars, dynamicVars, dataVars, ioVars, eventVars, comm_nrc>>
ecuVars == <<serverVars, serviceVars>>

\* sim_init
EcuInit ==
  /\ ServerInit
  /\ DtcInit /\ MemoryInit /\ DynamicInit /\ DataInit /\ IoInit /\ EventsInit
  /\ comm_nrc = "NONE"

\* A request for a service that touches nothing of the server's is dispatched, if
\* the session offers it, and followed by sync_after_dispatch.
Serve(sid) ==
  /\ Available(sid)
  /\ UNCHANGED <<sessionVars, secVars, uploadVars, routineVars, answer>>
  /\ SyncFlag

\* 0x22, 0x24, 0x2E and 0x2A, and the registration of identifiers.
DataServices ==
  /\ \/ /\ Serve("READ_DATA_BY_IDENTIFIER")
        /\ \E i \in DidIndices :
             ReadDataById(i, unlocked_flag) \/ ReadScalingData(i, unlocked_flag)
     \/ /\ Serve("WRITE_DATA_BY_IDENTIFIER")
        /\ \E i \in DidIndices, v \in Values : WriteDataById(i, v, unlocked_flag)
     \/ /\ Serve("READ_DATA_BY_PERIODIC_ID")
        /\ \E mode \in 1 .. 3, id \in PeriodicIds, source \in Asked : Schedule(mode, id, source)
     \/ Serve("READ_DATA_BY_IDENTIFIER") /\ BadDataRequest
     \/ UNCHANGED serverVars /\ \E e \in Dids : RegisterDid(e)
  /\ UNCHANGED <<dtcVars, memoryVars, dynamicVars, ioVars, eventVars, comm_nrc>>

\* 0x2F
IoService ==
  /\ Serve("INPUT_OUTPUT_CONTROL_BY_ID")
  /\ IoControl(unlocked_flag)
  /\ UNCHANGED <<did_registry, did_data, periodic>>
  /\ UNCHANGED <<dtcVars, memoryVars, dynamicVars, eventVars, comm_nrc>>

\* 0x23 and 0x3D, and the registration of regions.
MemoryServices ==
  /\ \/ /\ Serve("READ_MEMORY_BY_ADDRESS")
        /\ \E a \in Starts, n \in Lengths : ReadMemory(a, n)
     \/ /\ Serve("WRITE_MEMORY_BY_ADDRESS")
        /\ \E a \in Starts, n \in Lengths, b \in MemBytes, complete \in BOOLEAN :
             WriteMemory(a, n, b, unlocked_flag, complete)
     \/ UNCHANGED serverVars /\ \E r \in Regions : RegisterMemory(r)
  /\ UNCHANGED <<dtcVars, dynamicVars, dataVars, ioVars, eventVars, comm_nrc>>

\* 0x2C
DynamicService ==
  /\ Serve("DYNAMICALLY_DEFINE_DATA_ID")
  /\ DynamicNext
  /\ UNCHANGED <<dtcVars, memoryVars, dataVars, ioVars, eventVars, comm_nrc>>

\* 0x14 and 0x19, and the application's calls.
StoredServices ==
  /\ \/ /\ Serve("CLEAR_DIAGNOSTIC_INFO")
        /\ \E g \in Groups, complete \in BOOLEAN :
             ClearDiagnosticInfo(g, current_session = "DEFAULT", unlocked_flag, complete)
     \/ Serve("READ_DTC_INFO") /\ ReadDtcInfo
     \/ UNCHANGED serverVars /\ ApplicationCall
  /\ UNCHANGED <<memoryVars, dynamicVars, dataVars, ioVars, eventVars, comm_nrc>>

\* 0x86
EventService ==
  /\ Serve("RESPONSE_ON_EVENT")
  /\ EventsNext
  /\ UNCHANGED <<dtcVars, memoryVars, dynamicVars, dataVars, ioVars, comm_nrc>>

\* 0x28, 0x3E, 0x84, and outside the default session 0x85, 0x87 and 0x29.
CommServices ==
  /\ \E sid \in CommSids :
       Serve(sid) /\ comm_nrc' \in CommAnswers(sid, current_session, unlocked_flag)
  /\ UNCHANGED <<dtcVars, memoryVars, dynamicVars, dataVars, ioVars, eventVars>>

EcuServices ==
  \/ DataServices \/ IoService \/ MemoryServices \/ DynamicService
  \/ StoredServices \/ EventService \/ CommServices

EcuNext == (ServerNext /\ UNCHANGED serviceVars) \/ EcuServices

EcuSpec == EcuInit /\ [][EcuNext]_ecuVars

-----------------------------------------------------------------------------
\* Types of the parts that only this composition puts together.
EcuTypeOK ==
  /\ ServerTypeOK /\ RoutineTypeOK /\ SessionConsistent /\ EventsTypeOK
  /\ comm_nrc \in {"NONE", "IMLOIF", "SFNS", "ROOR", "SAD", "CNC", "AR"}

\* "UDS_SESSION_NON_DEFAULT": in the default session a tester may look at the
\* ECU's data but not touch it.  Whatever it asks for there, no identifier,
\* memory, dynamic identifier, override or event setting changes, and no
\* trouble code is forgotten; only the integrator and the application add.
ReadsOnly ==
  /\ \A i \in DidIndices : did_data'[i] = did_data[i]
  /\ \A i \in 1 .. Len(memory) : memory'[i] = memory[i]
  /\ UNCHANGED <<dynamic_dids, overrides, g_event_store>>
  /\ \A i \in Indices : dtc_db[i].dtc # 0 => dtc_db'[i].dtc = dtc_db[i].dtc

DefaultSessionReadsOnly == [][current_session = "DEFAULT" => ReadsOnly]_ecuVars

SecuredDids == {did_registry[i].did : i \in {j \in DidIndices : Secured(did_registry[j])}}
OverridesOf(did) == {overrides[s].value : s \in FindOverride(did)}

\* What is secured only changes while the security module itself has a level
\* unlocked, although the services see a copy of that fact, which is brought up
\* to date after requests: the data of SECURED_WRITE identifiers, overrides of
\* secured ones, memory, and which trouble codes are stored.
SecuredChange ==
  \/ \E i \in DidIndices : did_registry[i].access = "SECURED_WRITE" /\ did_data'[i] # did_data[i]
  \/ \E did \in SecuredDids : OverridesOf(did)' # OverridesOf(did)
  \/ \E i \in 1 .. Len(memory) : memory'[i] # memory[i]
  \/ \E i \in Indices : dtc_db[i].dtc # 0 /\ dtc_db'[i].dtc # dtc_db[i].dtc

SecuredDataAuthorised == [][SecuredChange => IsUnlocked]_ecuVars

\* "Overrides are cleared on session end via uds_svc_io_reset()" (uds_svc_io.h):
\* with the return to the default session the tester's overrides end.
OverridesEndWithSession ==
  [][current_session # "DEFAULT" /\ current_session' = "DEFAULT" =>
       \A s \in IoSlots : overrides'[s] = NoOverride]_ecuVars
==============================================================================
