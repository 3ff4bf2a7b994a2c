------------------------------ MODULE UdsServer ------------------------------
(***************************************************************************)
(* The ECU as the simulator runs it (main_sim): one request is dispatched, *)
(* handled and synchronised before the next is looked at.  This module     *)
(* composes the session, SecurityAccess, RoutineControl and the transfer   *)
(* with the dispatch table's session masks and with sync_after_dispatch,   *)
(* which carries a session switch over to the security module.             *)
(***************************************************************************)
EXTENDS UdsSession, UdsSecurity, UdsTransfer, UdsRoutine

CONSTANT MaySuppress   \* whether the tester may set the suppress bit (SPRMIB)

VARIABLES unlocked_flag,  \* g_sim_ctx.unlocked
          answer          \* NRC of the answer, POSITIVE, or SUPPRESSED

serverVars == <<sessionVars, secVars, uploadVars, routineVars, unlocked_flag, answer>>

ServerInit ==
  /\ SessionInit /\ SecInit /\ TransferInit /\ RoutineInit
  /\ unlocked_flag = FALSE
  /\ answer = "POSITIVE"

\* Mutated form of SessionMask: transfers in every session.
SessionMaskAll(sid) == Sessions

\* Services registered for UDS_SESSION_NON_DEFAULT.
NonDefaultServices ==
  {"CONTROL_DTC_SETTING", "RESPONSE_ON_EVENT", "LINK_CONTROL", "AUTHENTICATION",
   "READ_MEMORY_BY_ADDRESS", "WRITE_MEMORY_BY_ADDRESS", "DYNAMICALLY_DEFINE_DATA_ID",
   "WRITE_DATA_BY_IDENTIFIER", "CLEAR_DIAGNOSTIC_INFO", "INPUT_OUTPUT_CONTROL_BY_ID"}

\* uds_service_init: the sessions each service is registered for.
SessionMask(sid) ==
  IF sid = "TRANSFER" THEN {"PROGRAMMING"}
  ELSE IF sid \in NonDefaultServices THEN Sessions \ {"DEFAULT"}
  ELSE Sessions

\* uds_service_dispatch_ex hands the request to its handler.
Available(sid) == current_session \in SessionMask(sid)

\* Mutated form of SyncFlag: the flag is read before the request is handled.
SyncFlagEarly == unlocked_flag' = \E l \in Levels : unlocked[l]

\* The last line of sync_after_dispatch, run after every request.
SyncFlag == unlocked_flag' = \E l \in Levels : unlocked'[l]

\* The suppress bit withholds a positive answer, never a negative one.
Answer(result, suppress) ==
  answer' = IF result = "POSITIVE" /\ suppress THEN "SUPPRESSED" ELSE result

SuppressBits == IF MaySuppress THEN BOOLEAN ELSE {FALSE}

-----------------------------------------------------------------------------
\* uds_service_dispatch_ex: the active session does not offer the service.
NotInThisSession(sid) ==
  /\ ~Available(sid)
  /\ answer' = "SNSIAS"
  /\ UNCHANGED <<sessionVars, secVars, uploadVars, routineVars>>
  /\ SyncFlag

\* A malformed 0x10, 0x11 or 0x27 request: unknown subfunction or bad length.
Malformed(sid) ==
  /\ Available(sid)
  /\ answer' \in {"SFNS", "IMLOIF"}
  /\ UNCHANGED <<sessionVars, secVars, uploadVars, routineVars>>
  /\ SyncFlag

\* uds_svc_diagnostic_session_control, then sync_after_dispatch: security is
\* locked only if a positive response was built.
SessionControl(s, suppress) ==
  /\ Switch(s)
  /\ Answer("POSITIVE", suppress)
  /\ IF ~suppress /\ security_locked' THEN Lock ELSE UNCHANGED secVars
  /\ UNCHANGED <<uploadVars, routineVars>>
  /\ SyncFlag

\* uds_svc_ecu_reset only answers.
EcuReset(suppress) ==
  /\ Answer("POSITIVE", suppress)
  /\ UNCHANGED <<sessionVars, secVars, uploadVars, routineVars>>
  /\ SyncFlag

\* uds_svc_security_access
SecurityAccess(l, suppress) ==
  /\ RequestSeed(l) \/ SendKey(l)
  /\ Answer(nrc', suppress)
  /\ UNCHANGED <<sessionVars, uploadVars, routineVars>>
  /\ SyncFlag

\* The transfer services read the session context and the security module.
Transfer(step) ==
  /\ Available("TRANSFER")
  /\ step
  /\ answer' = IF rsp'.nrc = "NONE" THEN "POSITIVE" ELSE rsp'.nrc
  /\ UNCHANGED <<sessionVars, secVars, routineVars>>
  /\ SyncFlag

\* uds_svc_request_download and uds_svc_request_upload
UpOrDownload(dir, complete, a, n) ==
  Transfer(RequestTransfer(dir, current_session, IsUnlocked, complete, a, n))

FileTransfer(subfn, complete) ==
  Transfer(RequestFileTransfer(current_session, IsUnlocked, subfn, complete))

\* uds_svc_routine_control, given the flag: it is the one service here that
\* trusts the simulator's copy.
Routine(control, n, suppress) ==
  /\ control
  /\ Answer(IF n = "NONE" THEN "POSITIVE" ELSE n, suppress)
  /\ UNCHANGED <<sessionVars, secVars, uploadVars>>
  /\ SyncFlag

\* The integrator registers regions and routines before requests are served; time passes
\* between requests.
Configure(r) ==
  RegisterRegion(r) /\ UNCHANGED <<sessionVars, secVars, routineVars, unlocked_flag, answer>>

ConfigureRoutine(e) ==
  RegisterRoutine(e) /\ UNCHANGED <<sessionVars, secVars, uploadVars, unlocked_flag, answer>>

TimePasses ==
  Expire /\ UNCHANGED <<sessionVars, uploadVars, routineVars, unlocked_flag, answer>>

ServerNext ==
  \/ NotInThisSession("TRANSFER")
  \/ Malformed("SESSION_CONTROL")
  \/ \E s \in Sessions, suppress \in SuppressBits : SessionControl(s, suppress)
  \/ \E suppress \in SuppressBits : EcuReset(suppress)
  \/ \E l \in Levels, suppress \in SuppressBits : SecurityAccess(l, suppress)
  \/ \E dir \in Directions, complete \in BOOLEAN, a \in Addresses, n \in Sizes :
       UpOrDownload(dir, complete, a, n)
  \/ \E subfn \in {0, 1}, complete \in BOOLEAN : FileTransfer(subfn, complete)
  \/ \E bsc \in 0 .. ByteSize - 1, d \in Blocks : Transfer(TransferData(bsc, d))
  \/ Transfer(TransferExit)
  \/ \E i \in Slots, n \in RoutineNRCs, suppress \in SuppressBits :
       Routine(RoutineControl(i, unlocked_flag, n), n, suppress)
  \/ \E n \in RoutineNRCs : Routine(BadRequest(n), n, FALSE)
  \/ \E r \in Ranges : Configure(r)
  \/ \E e \in Routines : ConfigureRoutine(e)
  \/ TimePasses

ServerSpec == ServerInit /\ [][ServerNext]_serverVars

-----------------------------------------------------------------------------
(* Types of the session context and of the simulator's own state; those of
   the other parts are in their modules. *)
ServerTypeOK ==
  /\ current_session \in Sessions
  /\ params \in {50, 5000}
  /\ events_paused \in BOOLEAN /\ security_locked \in BOOLEAN
  /\ unlocked_flag \in BOOLEAN
  /\ answer \in NRCs \cup {"SUPPRESSED", "SNSIAS", "IMLOIF", "CNC", "SAD", "UDNA",
                           "ROOR", "WBSC", "TDS", "GPF"}

\* The context always describes the active session, whatever switches led to
\* it: its timing, and events paused exactly outside the default session.
SessionConsistent ==
  /\ params = Params(current_session)
  /\ events_paused <=> current_session # "DEFAULT"

\* The flag the data services are given never outlives an unlocked level, nor
\* misses one.
FlagAgrees == unlocked_flag <=> IsUnlocked

\* A transfer is only opened by an unlocked tester in the programming session,
\* and nothing is stored unless one was.
TransferAuthorised ==
  [][/\ ~active /\ active' => current_session = "PROGRAMMING" /\ IsUnlocked
     /\ buffer_length' > buffer_length => current_session = "PROGRAMMING" /\ active]_serverVars

\* "non-default -> defaultSession: allow, resume events, re-lock security;
\* non-default -> non-default: allow, stop events, re-lock security": after a
\* switch no level is unlocked and no seed of the old session can be answered.
SwitchRelocks ==
  [][current_session' # current_session /\ current_session # "DEFAULT" =>
       \A l \in Levels : ~unlocked'[l] /\ ~seed_sent'[l]]_serverVars

\* A secured routine is only started while the security module itself has a
\* level unlocked, although its handler sees a copy of that fact.
SecuredRoutineAuthorised ==
  [][\A i \in Slots :
       registry[i].secured /\ ~is_running[i] /\ is_running'[i] => IsUnlocked]_serverVars

==============================================================================
