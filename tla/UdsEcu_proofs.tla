---------------------------- MODULE UdsEcu_proofs ----------------------------
(***************************************************************************)
(* Theorems about the composed server and the whole ECU, for any levels,   *)
(* regions, blocks, routines, identifiers and trouble codes.               *)
(*                                                                         *)
(* Each component behaves in the server as its own module says, so what    *)
(* UdsServices_proofs shows of it holds there; the facts that cross        *)
(* components follow from the flag agreeing with the security module.  The *)
(* services on data, memory, codes and outputs leave the core of the       *)
(* server as it is, and the core leaves their tables, so all this, and     *)
(* what UdsTables_proofs shows, holds of the whole; and nothing secured    *)
(* changes while every level is locked.                                    *)
(***************************************************************************)
EXTENDS UdsEcu, UdsServices_proofs, UdsTables_proofs

-----------------------------------------------------------------------------
(* The server. *)

\* Only SecurityAccess, a session switch and the passing of time touch the
\* security module, each by a step of its own.
LEMMA ServerStepSecures == [ServerNext]_serverVars => [SecNext]_secVars
<1> SUFFICES ASSUME [ServerNext]_serverVars PROVE [SecNext]_secVars
  OBVIOUS
<1>1. ASSUME NEW sid, NotInThisSession(sid) \/ Malformed(sid) PROVE UNCHANGED secVars
  BY <1>1 DEF NotInThisSession, Malformed
<1>2. ASSUME NEW s, NEW suppress, SessionControl(s, suppress) PROVE [SecNext]_secVars
  BY <1>2 DEF SessionControl, SecNext
<1>3. ASSUME NEW l \in Levels, NEW suppress, SecurityAccess(l, suppress)
      PROVE  [SecNext]_secVars
  BY <1>3 DEF SecurityAccess, SecNext
<1>4. ASSUME NEW suppress, EcuReset(suppress) PROVE UNCHANGED secVars
  BY <1>4 DEF EcuReset
<1>5. ASSUME NEW step, Transfer(step) PROVE UNCHANGED secVars
  BY <1>5 DEF Transfer
<1>6. ASSUME NEW dir, NEW complete, NEW a, NEW n, UpOrDownload(dir, complete, a, n)
      PROVE  UNCHANGED secVars
  BY <1>5, <1>6 DEF UpOrDownload
<1>7. ASSUME NEW subfn, NEW complete, FileTransfer(subfn, complete) PROVE UNCHANGED secVars
  BY <1>5, <1>7 DEF FileTransfer
<1>8. ASSUME NEW i, NEW n, NEW suppress, Routine(RoutineControl(i, unlocked_flag, n), n, suppress)
      PROVE  UNCHANGED secVars
  BY <1>8 DEF Routine
<1>9. ASSUME NEW n, Routine(BadRequest(n), n, FALSE) PROVE UNCHANGED secVars
  BY <1>9 DEF Routine
<1>10. ASSUME NEW r, Configure(r) PROVE UNCHANGED secVars
  BY <1>10 DEF Configure
<1>11. ASSUME NEW e, ConfigureRoutine(e) PROVE UNCHANGED secVars
  BY <1>11 DEF ConfigureRoutine
<1>12. CASE TimePasses
  BY <1>12 DEF TimePasses, SecNext
<1>13. CASE UNCHANGED serverVars
  BY <1>13 DEF serverVars
<1>14. QED
  BY <1>1, <1>2, <1>3, <1>4, <1>5, <1>6, <1>7, <1>8, <1>9, <1>10, <1>11, <1>12, <1>13
  DEF ServerNext

\* In the server, security behaves as UdsSecurity says: what is proved of it
\* there holds here.
THEOREM ServerSecures == ServerSpec => SecSpec
<1>1. ServerInit => SecInit
  BY DEF ServerInit
<1>2. QED
  BY <1>1, ServerStepSecures, PTL DEF ServerSpec, SecSpec

-----------------------------------------------------------------------------
\* The facts that cross components: the flag the data services are given is
\* the security module's own answer, and the session context describes the
\* active session.
ServerInv ==
  /\ FlagAgrees
  /\ SessionConsistent
  /\ unlocked_flag \in BOOLEAN
  /\ current_session \in Sessions

\* sim_init starts in the default session with every level locked.
LEMMA ServerInvInit == ServerInit => ServerInv
  BY DEF ServerInit, ServerInv, FlagAgrees, SessionConsistent, SessionInit, SecInit, IsUnlocked,
         Sessions

\* Every request ends with sync_after_dispatch's last line; what is not a
\* request leaves both the flag and the levels alone.
LEMMA FlagAgreesNext ==
  ASSUME ServerInv, [ServerNext]_serverVars
  PROVE  FlagAgrees' /\ unlocked_flag' \in BOOLEAN
<1>1. ASSUME SyncFlag PROVE FlagAgrees' /\ unlocked_flag' \in BOOLEAN
  BY <1>1 DEF SyncFlag, FlagAgrees, IsUnlocked
<1>2. ASSUME UNCHANGED <<unlocked, unlocked_flag>>
      PROVE  FlagAgrees' /\ unlocked_flag' \in BOOLEAN
  BY <1>2 DEF ServerInv, FlagAgrees, IsUnlocked
<1>3. ASSUME NEW sid, NotInThisSession(sid) \/ Malformed(sid) PROVE SyncFlag
  BY <1>3 DEF NotInThisSession, Malformed
<1>4. ASSUME NEW s, NEW suppress, SessionControl(s, suppress) PROVE SyncFlag
  BY <1>4 DEF SessionControl
<1>5. ASSUME NEW suppress, EcuReset(suppress) PROVE SyncFlag
  BY <1>5 DEF EcuReset
<1>6. ASSUME NEW l, NEW suppress, SecurityAccess(l, suppress) PROVE SyncFlag
  BY <1>6 DEF SecurityAccess
<1>7. ASSUME NEW step, Transfer(step) PROVE SyncFlag
  BY <1>7 DEF Transfer
<1>8. ASSUME NEW p, NEW complete, NEW a, NEW n,
             UpOrDownload(p, complete, a, n) \/ FileTransfer(p, complete)
      PROVE  SyncFlag
  BY <1>7, <1>8 DEF UpOrDownload, FileTransfer
<1>9. ASSUME NEW control, NEW n, NEW suppress, Routine(control, n, suppress) PROVE SyncFlag
  BY <1>9 DEF Routine
<1>10. ASSUME NEW r, Configure(r) \/ ConfigureRoutine(r)
       PROVE  UNCHANGED <<unlocked, unlocked_flag>>
  BY <1>10 DEF Configure, ConfigureRoutine, secVars, levelVars
<1>11. CASE TimePasses
  BY <1>2, <1>11 DEF TimePasses, Expire, levelVars
<1>12. CASE UNCHANGED serverVars
  BY <1>2, <1>12 DEF serverVars, secVars, levelVars
<1>13. QED
  BY <1>1, <1>2, <1>3, <1>4, <1>5, <1>6, <1>7, <1>8, <1>9, <1>10, <1>11, <1>12
  DEF ServerNext

\* Only a switch touches the session context.
LEMMA OnlySwitches ==
  ASSUME [ServerNext]_serverVars
  PROVE  \/ UNCHANGED sessionVars
         \/ \E s \in Sessions, suppress \in SuppressBits : SessionControl(s, suppress)
<1>1. ASSUME NEW sid, NotInThisSession(sid) \/ Malformed(sid) PROVE UNCHANGED sessionVars
  BY <1>1 DEF NotInThisSession, Malformed
<1>2. ASSUME NEW suppress, EcuReset(suppress) PROVE UNCHANGED sessionVars
  BY <1>2 DEF EcuReset
<1>3. ASSUME NEW l, NEW suppress, SecurityAccess(l, suppress) PROVE UNCHANGED sessionVars
  BY <1>3 DEF SecurityAccess
<1>4. ASSUME NEW step, Transfer(step) PROVE UNCHANGED sessionVars
  BY <1>4 DEF Transfer
<1>5. ASSUME NEW p, NEW complete, NEW a, NEW n,
             UpOrDownload(p, complete, a, n) \/ FileTransfer(p, complete)
      PROVE  UNCHANGED sessionVars
  BY <1>4, <1>5 DEF UpOrDownload, FileTransfer
<1>6. ASSUME NEW control, NEW n, NEW suppress, Routine(control, n, suppress)
      PROVE  UNCHANGED sessionVars
  BY <1>6 DEF Routine
<1>7. ASSUME NEW r, Configure(r) \/ ConfigureRoutine(r) PROVE UNCHANGED sessionVars
  BY <1>7 DEF Configure, ConfigureRoutine
<1>8. TimePasses \/ UNCHANGED serverVars => UNCHANGED sessionVars
  BY DEF TimePasses, serverVars
<1>9. QED
  BY <1>1, <1>2, <1>3, <1>4, <1>5, <1>6, <1>7, <1>8 DEF ServerNext

\* The session context: only a switch changes it, and every switch sets the
\* timing and the events of the session it enters.
LEMMA SessionConsistentNext ==
  ASSUME ServerInv, [ServerNext]_serverVars
  PROVE  SessionConsistent' /\ current_session' \in Sessions
<1> USE DEF ServerInv, SessionConsistent
<1>1. ASSUME UNCHANGED sessionVars PROVE SessionConsistent' /\ current_session' \in Sessions
  BY <1>1 DEF sessionVars
<1>2. ASSUME NEW s \in Sessions, NEW suppress, SessionControl(s, suppress)
      PROVE  SessionConsistent' /\ current_session' \in Sessions
  <2>1. CASE Resume(s)
    BY <2>1 DEF Resume
  <2>2. CASE Change(s)
    <3>1. /\ current_session' = s /\ params' = Params(s)
          /\ events_paused' = (s # "DEFAULT")
      BY <2>2 DEF Change
    <3>2. params' = Params(current_session')
      BY <3>1, Zenon
    <3>3. events_paused' <=> current_session' # "DEFAULT"
      BY <3>1, Zenon
    <3>4. current_session' \in Sessions
      BY <3>1
    <3>5. QED
      BY <3>2, <3>3, <3>4
  <2>3. QED
    BY <1>2, <2>1, <2>2 DEF SessionControl, Switch
<1>3. QED
  BY <1>1, <1>2, OnlySwitches

\* Every step preserves the invariant.
LEMMA ServerInvNext == ServerInv /\ [ServerNext]_serverVars => ServerInv'
  BY FlagAgreesNext, SessionConsistentNext DEF ServerInv

\* The invariant holds in every reachable state.
LEMMA ServerInvAlways == ServerSpec => []ServerInv
  BY ServerInvInit, ServerInvNext, PTL DEF ServerSpec

\* The flag never outlives an unlocked level and never misses one, whatever is
\* suppressed (sync_after_dispatch's last line, for every request).
THEOREM FlagAlwaysAgrees == ServerSpec => []FlagAgrees
<1>1. ServerInv => FlagAgrees
  BY DEF ServerInv
<1>2. QED
  BY <1>1, ServerInvAlways, PTL

\* The session context always describes the active session.
THEOREM SessionAlwaysConsistent == ServerSpec => []SessionConsistent
<1>1. ServerInv => SessionConsistent
  BY DEF ServerInv
<1>2. QED
  BY <1>1, ServerInvAlways, PTL

-----------------------------------------------------------------------------
\* Only RoutineControl and the integrator's registrations touch the table.
LEMMA ServerStepRoutines ==
  ASSUME ServerInv, [ServerNext]_serverVars
  PROVE  [RoutineNext]_routineVars
<1>0. unlocked_flag \in BOOLEAN
  BY DEF ServerInv
<1>1. ASSUME NEW sid, NotInThisSession(sid) \/ Malformed(sid) PROVE UNCHANGED routineVars
  BY <1>1 DEF NotInThisSession, Malformed
<1>2. ASSUME NEW s, NEW suppress, SessionControl(s, suppress) PROVE UNCHANGED routineVars
  BY <1>2 DEF SessionControl
<1>3. ASSUME NEW l, NEW suppress, SecurityAccess(l, suppress) PROVE UNCHANGED routineVars
  BY <1>3 DEF SecurityAccess
<1>4. ASSUME NEW suppress, EcuReset(suppress) PROVE UNCHANGED routineVars
  BY <1>4 DEF EcuReset
<1>5. ASSUME NEW step, Transfer(step) PROVE UNCHANGED routineVars
  BY <1>5 DEF Transfer
<1>6. ASSUME NEW p, NEW complete, NEW a, NEW n,
             UpOrDownload(p, complete, a, n) \/ FileTransfer(p, complete)
      PROVE  UNCHANGED routineVars
  BY <1>6, <1>5 DEF UpOrDownload, FileTransfer
<1>7. ASSUME NEW i \in Slots, NEW n \in RoutineNRCs, NEW suppress,
             Routine(RoutineControl(i, unlocked_flag, n), n, suppress)
      PROVE  [RoutineNext]_routineVars
  BY <1>0, <1>7 DEF Routine, RoutineNext
<1>8. ASSUME NEW n \in RoutineNRCs, Routine(BadRequest(n), n, FALSE)
      PROVE  [RoutineNext]_routineVars
  BY <1>8 DEF Routine, RoutineNext
<1>9. ASSUME NEW r, Configure(r) PROVE UNCHANGED routineVars
  BY <1>9 DEF Configure
<1>10. ASSUME NEW e \in Routines, ConfigureRoutine(e) PROVE [RoutineNext]_routineVars
  BY <1>10 DEF ConfigureRoutine, RoutineNext
<1>11. CASE TimePasses
  BY <1>11 DEF TimePasses
<1>12. CASE UNCHANGED serverVars
  BY <1>12 DEF serverVars
<1>13. QED
  BY <1>1, <1>2, <1>3, <1>4, <1>5, <1>6, <1>7, <1>8, <1>9, <1>10, <1>11, <1>12
  DEF ServerNext


\* In the server, the routine table behaves as UdsRoutine says.
THEOREM ServerRoutines == ServerSpec => RoutineSpec
<1>1. ServerInit => RoutineInit
  BY DEF ServerInit
<1>2. ServerInv /\ [ServerNext]_serverVars => [RoutineNext]_routineVars
  BY ServerStepRoutines
<1>3. QED
  BY <1>1, <1>2, ServerInvAlways, PTL DEF ServerSpec, RoutineSpec

-----------------------------------------------------------------------------
\* What a single step may do to a secured routine.
SecuredStart ==
  \A i \in Slots :
    registry[i].secured /\ ~is_running[i] /\ is_running'[i] => IsUnlocked

\* A registration leaves the slots in use as they are.
LEMMA RegisterStartsNothing ==
  ASSUME RoutineTypeOK, NEW e, RegisterRoutine(e), NEW i \in Slots
  PROVE  is_running'[i] = is_running[i]
<1>1. is_running \in Seq(BOOLEAN) /\ Len(is_running) = Len(registry)
  BY DEF RoutineTypeOK, Slots
<1>2. \A q \in Seq(BOOLEAN), b \in BOOLEAN :
        \A k \in 1 .. Len(q) : Append(q, b)[k] = q[k]
  BY AppendProperties
<1>3. is_running' = Append(is_running, FALSE) /\ FALSE \in BOOLEAN
  BY DEF RegisterRoutine, NewSlot
<1>4. QED
  BY <1>1, <1>2, <1>3, Zenon DEF Slots

\* The handler's check of the flag is a check of the security module.
LEMMA SecuredStartStep ==
  ASSUME ServerInv, RoutineTypeOK, [ServerNext]_serverVars
  PROVE  SecuredStart
<1> SUFFICES ASSUME NEW i \in Slots,
                    registry[i].secured, ~is_running[i], is_running'[i]
             PROVE  IsUnlocked
  BY DEF SecuredStart
<1>1. ~UNCHANGED routineVars
  BY DEF routineVars
<1>2. ASSUME NEW j \in Slots, NEW n, RoutineControl(j, unlocked_flag, n) PROVE IsUnlocked
  <2>1. PICK ok \in BOOLEAN :
          \/ StartRoutine(j, unlocked_flag, ok, n)
          \/ StopRoutine(j, unlocked_flag, ok, n)
          \/ RequestResults(j, unlocked_flag, ok, n)
    BY <1>2 DEF RoutineControl
  <2>2. CASE StartRoutine(j, unlocked_flag, ok, n)
    <3>1. i = j /\ n = "NONE"
      BY <2>2 DEF StartRoutine, RoutineTypeOK
    <3>2. ~NotPermitted(i, unlocked_flag)
      BY <2>2, <3>1 DEF StartRoutine, StartRefusal
    <3>3. QED
      BY <3>2 DEF NotPermitted, ServerInv, FlagAgrees
  <2>3. CASE StopRoutine(j, unlocked_flag, ok, n)
    BY <2>3 DEF StopRoutine, RoutineTypeOK
  <2>4. CASE RequestResults(j, unlocked_flag, ok, n)
    BY <1>1, <2>4 DEF RequestResults
  <2>5. QED
    BY <2>1, <2>2, <2>3, <2>4
<1>3. ASSUME NEW e, ConfigureRoutine(e) PROVE FALSE
  BY <1>3, RegisterStartsNothing DEF ConfigureRoutine
<1>4. ASSUME NEW n, Routine(BadRequest(n), n, FALSE) PROVE FALSE
  BY <1>1, <1>4 DEF Routine, BadRequest
<1>5. ASSUME NEW sid, NotInThisSession(sid) \/ Malformed(sid) PROVE FALSE
  BY <1>1, <1>5 DEF NotInThisSession, Malformed
<1>6. ASSUME NEW s, NEW suppress, SessionControl(s, suppress) \/ EcuReset(suppress)
      PROVE  FALSE
  BY <1>1, <1>6 DEF SessionControl, EcuReset
<1>7. ASSUME NEW l, NEW suppress, SecurityAccess(l, suppress) PROVE FALSE
  BY <1>1, <1>7 DEF SecurityAccess
<1>8. ASSUME NEW step, Transfer(step) PROVE FALSE
  BY <1>1, <1>8 DEF Transfer
<1>9. ASSUME NEW p, NEW complete, NEW a, NEW n,
             UpOrDownload(p, complete, a, n) \/ FileTransfer(p, complete)
      PROVE  FALSE
  BY <1>8, <1>9 DEF UpOrDownload, FileTransfer
<1>10. ASSUME NEW r, Configure(r) PROVE FALSE
  BY <1>1, <1>10 DEF Configure
<1>11. ~TimePasses
  BY <1>1 DEF TimePasses
<1>12. ~UNCHANGED serverVars
  BY <1>1 DEF serverVars
<1>13. PICK j \in Slots, n \in RoutineNRCs, suppress \in SuppressBits :
         Routine(RoutineControl(j, unlocked_flag, n), n, suppress)
  BY <1>3, <1>4, <1>5, <1>6, <1>7, <1>8, <1>9, <1>10, <1>11, <1>12 DEF ServerNext
<1>14. QED
  BY <1>2, <1>13 DEF Routine

\* No secured routine is started while every level is locked, although the
\* handler only sees the simulator's copy of the fact.
THEOREM SecuredAlwaysAuthorised == ServerSpec => SecuredRoutineAuthorised
<1>1. ServerSpec => []RoutineTypeOK
  BY ServerRoutines, RoutineTypeCorrect
<1>2. ServerInv /\ RoutineTypeOK /\ [ServerNext]_serverVars => [SecuredStart]_serverVars
  BY SecuredStartStep
<1>3. ServerSpec => [][SecuredStart]_serverVars
  BY <1>1, <1>2, ServerInvAlways, PTL DEF ServerSpec
<1>4. QED
  BY <1>3 DEF SecuredRoutineAuthorised, SecuredStart

-----------------------------------------------------------------------------
\* Only the transfer services and the integrator's registrations touch the
\* transfer, and they act for a session the transfer module knows.
LEMMA ServerStepTransfers ==
  ASSUME ServerInv, [ServerNext]_serverVars
  PROVE  [TransferNext]_uploadVars
<1>1. ASSUME NEW dir \in Directions, NEW complete \in BOOLEAN, NEW a \in Addresses,
             NEW n \in Sizes, UpOrDownload(dir, complete, a, n)
      PROVE  TransferNext
  BY <1>1 DEF UpOrDownload, Transfer, TransferNext, IsUnlocked, ServerInv, Sessions, AnySession
<1>2. ASSUME NEW subfn \in {0, 1}, NEW complete \in BOOLEAN, FileTransfer(subfn, complete)
      PROVE  TransferNext
  BY <1>2 DEF FileTransfer, Transfer, TransferNext, IsUnlocked, ServerInv, Sessions, AnySession
<1>3. ASSUME NEW bsc \in 0 .. ByteSize - 1, NEW d \in Blocks, Transfer(TransferData(bsc, d))
      PROVE  TransferNext
  BY <1>3 DEF Transfer, TransferNext
<1>4. ASSUME Transfer(TransferExit) PROVE TransferNext
  BY <1>4 DEF Transfer, TransferNext
<1>5. ASSUME NEW r \in Ranges, Configure(r) PROVE TransferNext
  BY <1>5 DEF Configure, TransferNext
<1>6. ASSUME NEW sid, NotInThisSession(sid) \/ Malformed(sid) PROVE UNCHANGED uploadVars
  BY <1>6 DEF NotInThisSession, Malformed
<1>7. ASSUME NEW s, NEW suppress, SessionControl(s, suppress) \/ EcuReset(suppress)
      PROVE  UNCHANGED uploadVars
  BY <1>7 DEF SessionControl, EcuReset
<1>8. ASSUME NEW l, NEW suppress, SecurityAccess(l, suppress) PROVE UNCHANGED uploadVars
  BY <1>8 DEF SecurityAccess
<1>9. ASSUME NEW control, NEW n, NEW suppress, Routine(control, n, suppress)
      PROVE  UNCHANGED uploadVars
  BY <1>9 DEF Routine
<1>10. ASSUME NEW e, ConfigureRoutine(e) PROVE UNCHANGED uploadVars
  BY <1>10 DEF ConfigureRoutine
<1>11. TimePasses \/ UNCHANGED serverVars => UNCHANGED uploadVars
  BY DEF TimePasses, serverVars
<1>12. QED
  BY <1>1, <1>2, <1>3, <1>4, <1>5, <1>6, <1>7, <1>8, <1>9, <1>10, <1>11 DEF ServerNext

\* In the server, a transfer behaves as UdsTransfer says: BytesConserved,
\* NeverSuspended and TransferInRegion hold in it.
THEOREM ServerTransfers == ServerSpec => TransferSpec
<1>1. ServerInit => TransferInit
  BY DEF ServerInit
<1>2. ServerInv /\ [ServerNext]_serverVars => [TransferNext]_uploadVars
  BY ServerStepTransfers
<1>3. QED
  BY <1>1, <1>2, ServerInvAlways, PTL DEF ServerSpec, TransferSpec

\* What a single step may do to a transfer.
AuthorisedStep ==
  /\ ~active /\ active' => current_session = "PROGRAMMING" /\ IsUnlocked
  /\ buffer_length' > buffer_length => current_session = "PROGRAMMING" /\ active

\* Both checks, of the dispatch table and of the handler, stand before a
\* transfer's opening; a block needs the first and an open transfer.
LEMMA AuthorisedStepHolds ==
  ASSUME CountInv, [ServerNext]_serverVars
  PROVE  AuthorisedStep
<1>1. ASSUME UNCHANGED <<active, buffer_length>> PROVE AuthorisedStep
  BY <1>1 DEF AuthorisedStep, CountInv
<1>2. ASSUME NEW step, Transfer(step) PROVE current_session = "PROGRAMMING"
  BY <1>2 DEF Transfer, Available, SessionMask
<1>3. ASSUME NEW dir, NEW complete, NEW a, NEW n, UpOrDownload(dir, complete, a, n)
      PROVE  AuthorisedStep
  <2>1. current_session = "PROGRAMMING"
    BY <1>2, <1>3 DEF UpOrDownload
  <2>2. CASE RefuseTransfer(current_session, IsUnlocked, complete, a, n)
    BY <1>1, <2>2 DEF RefuseTransfer, transferVars, bufferVars
  <2>3. CASE OpenTransfer(dir, current_session, IsUnlocked, a, n)
    <3>1. IsUnlocked
      BY <2>3 DEF OpenTransfer, RequestRefusal
    <3>2. ~(buffer_length' > buffer_length)
      BY <2>3 DEF OpenTransfer, CountInv
    <3>3. QED
      BY <2>1, <3>1, <3>2 DEF AuthorisedStep
  <2>4. QED
    BY <1>3, <2>2, <2>3 DEF UpOrDownload, Transfer, RequestTransfer
<1>4. ASSUME NEW subfn, NEW complete, FileTransfer(subfn, complete) PROVE AuthorisedStep
  BY <1>1, <1>4 DEF FileTransfer, Transfer, RequestFileTransfer, transferVars, bufferVars
<1>5. ASSUME NEW bsc, NEW d, Transfer(TransferData(bsc, d)) PROVE AuthorisedStep
  <2>1. current_session = "PROGRAMMING"
    BY <1>2, <1>5
  <2>2. CASE NoTransfer \/ WrongBlock(bsc)
    BY <1>1, <2>2 DEF NoTransfer, WrongBlock, transferVars, bufferVars
  <2>3. CASE RefuseBlock(bsc, d) \/ StoreBlock(bsc, d) \/ SendBlock(bsc, d)
    <3>1. active /\ active' = active
      BY <2>3 DEF RefuseBlock, StoreBlock, SendBlock, AcceptCounter
    <3>2. QED
      BY <2>1, <3>1 DEF AuthorisedStep
  <2>4. QED
    BY <1>5, <2>2, <2>3 DEF Transfer, TransferData
<1>6. ASSUME Transfer(TransferExit) PROVE AuthorisedStep
  <2>1. CASE NoTransfer \/ ExitWithData
    BY <1>1, <2>1 DEF NoTransfer, ExitWithData, transferVars, bufferVars
  <2>2. CASE CloseTransfer
    BY <2>2 DEF CloseTransfer, ClearCounts, AuthorisedStep, CountInv
  <2>3. QED
    BY <1>6, <2>1, <2>2 DEF Transfer, TransferExit
<1>7. ASSUME NEW r, Configure(r) PROVE AuthorisedStep
  BY <1>1, <1>7 DEF Configure, RegisterRegion, transferVars, bufferVars
<1>8. ASSUME UNCHANGED uploadVars PROVE AuthorisedStep
  BY <1>1, <1>8 DEF uploadVars, transferVars, bufferVars
<1>9. ASSUME NEW sid, NotInThisSession(sid) \/ Malformed(sid) PROVE UNCHANGED uploadVars
  BY <1>9 DEF NotInThisSession, Malformed
<1>10. ASSUME NEW s, NEW suppress, SessionControl(s, suppress) \/ EcuReset(suppress)
       PROVE  UNCHANGED uploadVars
  BY <1>10 DEF SessionControl, EcuReset
<1>11. ASSUME NEW l, NEW suppress, SecurityAccess(l, suppress) PROVE UNCHANGED uploadVars
  BY <1>11 DEF SecurityAccess
<1>12. ASSUME NEW control, NEW n, NEW suppress, Routine(control, n, suppress)
       PROVE  UNCHANGED uploadVars
  BY <1>12 DEF Routine
<1>13. ASSUME NEW e, ConfigureRoutine(e) PROVE UNCHANGED uploadVars
  BY <1>13 DEF ConfigureRoutine
<1>14. TimePasses \/ UNCHANGED serverVars => UNCHANGED uploadVars
  BY DEF TimePasses, serverVars
<1>15. QED
  BY <1>3, <1>4, <1>5, <1>6, <1>7, <1>8, <1>9, <1>10, <1>11, <1>12, <1>13, <1>14
  DEF ServerNext

\* A transfer is only opened by an unlocked tester in the programming session,
\* and only an open transfer, in that session, stores anything.
THEOREM TransfersAlwaysAuthorised == ServerSpec => TransferAuthorised
<1>1. ServerSpec => []CountInv
  BY ServerTransfers, CountInvAlways
<1>2. CountInv /\ [ServerNext]_serverVars => [AuthorisedStep]_serverVars
  BY AuthorisedStepHolds
<1>3. ServerSpec => [][AuthorisedStep]_serverVars
  BY <1>1, <1>2, PTL DEF ServerSpec
<1>4. QED
  BY <1>3 DEF TransferAuthorised, AuthorisedStep

-----------------------------------------------------------------------------
\* What a single step may do to the session and security together.
RelockStep ==
  current_session' # current_session /\ current_session # "DEFAULT" =>
    \A l \in Levels : ~unlocked'[l] /\ ~seed_sent'[l]

\* A switch out of a non-default session marks security locked, and its positive
\* answer makes sync_after_dispatch lock it.
LEMMA RelockStepHolds ==
  ASSUME ~MaySuppress, [ServerNext]_serverVars
  PROVE  RelockStep
<1>1. ASSUME UNCHANGED sessionVars PROVE RelockStep
  BY <1>1 DEF sessionVars, RelockStep
<1>2. ASSUME NEW s, NEW suppress \in SuppressBits, SessionControl(s, suppress)
      PROVE  RelockStep
  <2>1. ~suppress
    BY DEF SuppressBits
  <2>2. CASE Resume(s)
    BY <2>2 DEF Resume, RelockStep
  <2>3. CASE Change(s)
    <3>1. CASE current_session = "DEFAULT"
      BY <3>1 DEF RelockStep
    <3>2. CASE current_session # "DEFAULT"
      <4>1. security_locked' = TRUE
        BY <2>3, <3>2 DEF Change
      <4>2. Lock
        BY <1>2, <2>1, <4>1 DEF SessionControl
      <4>3. QED
        BY <4>2 DEF Lock, RelockStep
    <3>3. QED
      BY <3>1, <3>2
  <2>4. QED
    BY <1>2, <2>2, <2>3 DEF SessionControl, Switch
<1>3. QED
  BY <1>1, <1>2, OnlySwitches

\* As long as the tester wants its answers, every switch out of a non-default
\* session leaves no level unlocked and no seed to answer.
THEOREM AnsweredSwitchRelocks ==
  ASSUME ~MaySuppress
  PROVE  ServerSpec => SwitchRelocks
<1>1. [ServerNext]_serverVars => [RelockStep]_serverVars
  BY RelockStepHolds
<1>2. ServerSpec => [][RelockStep]_serverVars
  BY <1>1, PTL DEF ServerSpec
<1>3. QED
  BY <1>2 DEF SwitchRelocks, RelockStep

-----------------------------------------------------------------------------
\* Every answer is one of those listed: a handler's own, or that of the dispatch.
LEMMA AnswerNext ==
  ASSUME ServerTypeOK, SecTypeOK', TransferTypeOK', [ServerNext]_serverVars
  PROVE  answer' \in NRCs \cup {"SUPPRESSED", "SNSIAS", "IMLOIF", "CNC", "SAD", "UDNA",
                                "ROOR", "WBSC", "TDS", "GPF"}
<1>. DEFINE All == NRCs \cup {"SUPPRESSED", "SNSIAS", "IMLOIF", "CNC", "SAD", "UDNA",
                              "ROOR", "WBSC", "TDS", "GPF"}
<1>1. \A result \in All : \A suppress : Answer(result, suppress) => answer' \in All
  BY DEF Answer
<1>2. ASSUME NEW sid, NotInThisSession(sid) \/ Malformed(sid) PROVE answer' \in All
  BY <1>2 DEF NotInThisSession, Malformed, NRCs
<1>3. ASSUME NEW s, NEW suppress, SessionControl(s, suppress) PROVE answer' \in All
  BY <1>1, <1>3 DEF SessionControl, NRCs
<1>4. ASSUME NEW suppress, EcuReset(suppress) PROVE answer' \in All
  BY <1>1, <1>4 DEF EcuReset, NRCs
<1>5. ASSUME NEW l, NEW suppress, SecurityAccess(l, suppress) PROVE answer' \in All
  BY <1>1, <1>5 DEF SecurityAccess, SecTypeOK
<1>6. ASSUME NEW step, Transfer(step) PROVE answer' \in All
  <2>1. rsp'.nrc \in {"NONE", "CNC", "SAD", "IMLOIF", "UDNA", "ROOR", "SFNS", "WBSC", "TDS"}
    BY DEF TransferTypeOK
  <2>2. answer' = IF rsp'.nrc = "NONE" THEN "POSITIVE" ELSE rsp'.nrc
    BY <1>6 DEF Transfer
  <2>3. QED
    BY <2>1, <2>2 DEF NRCs
<1>7. ASSUME NEW p, NEW complete, NEW a, NEW n,
             UpOrDownload(p, complete, a, n) \/ FileTransfer(p, complete)
      PROVE  answer' \in All
  BY <1>6, <1>7 DEF UpOrDownload, FileTransfer
<1>8. ASSUME NEW control, NEW n \in RoutineNRCs, NEW suppress, Routine(control, n, suppress)
      PROVE  answer' \in All
  <2>1. (IF n = "NONE" THEN "POSITIVE" ELSE n) \in All
    BY DEF RoutineNRCs, NRCs
  <2>2. QED
    BY <1>1, <1>8, <2>1 DEF Routine
<1>9. ASSUME NEW r, Configure(r) \/ ConfigureRoutine(r) PROVE answer' \in All
  BY <1>9 DEF Configure, ConfigureRoutine, ServerTypeOK
<1>10. TimePasses \/ UNCHANGED serverVars => answer' \in All
  BY DEF TimePasses, serverVars, ServerTypeOK
<1>. HIDE DEF All
<1>11. answer' \in All
  BY <1>2, <1>3, <1>4, <1>5, <1>6, <1>7, <1>8, <1>9, <1>10 DEF ServerNext
<1>12. QED
  BY <1>11 DEF All

\* A switch leaves two flags in the session context, and they stay flags.
LEMMA ServerTypeNext ==
  ASSUME ServerInv, ServerTypeOK, SecTypeOK', TransferTypeOK', [ServerNext]_serverVars
  PROVE  ServerTypeOK'
<1>1. ServerInv'
  BY ServerInvNext
<1>2. current_session' \in Sessions /\ unlocked_flag' \in BOOLEAN /\ params' \in {50, 5000}
  BY <1>1 DEF ServerInv, SessionConsistent, Params
<1>3. events_paused' \in BOOLEAN /\ security_locked' \in BOOLEAN
  <2>1. CASE UNCHANGED sessionVars
    BY <2>1 DEF sessionVars, ServerTypeOK
  <2>2. ASSUME NEW s \in Sessions, NEW suppress, SessionControl(s, suppress)
        PROVE  events_paused' \in BOOLEAN /\ security_locked' \in BOOLEAN
    <3>1. CASE Resume(s)
      BY <3>1 DEF Resume, ServerTypeOK
    <3>2. CASE Change(s)
      <4>1. /\ events_paused' = (s # "DEFAULT")
            /\ security_locked' = IF current_session = "DEFAULT" THEN security_locked ELSE TRUE
        BY <3>2 DEF Change
      <4>2. (s # "DEFAULT") \in BOOLEAN
        OBVIOUS
      <4>3. events_paused' \in BOOLEAN
        BY <4>1, <4>2, Zenon
      <4>4. security_locked' = security_locked \/ security_locked' = TRUE
        BY <4>1, Zenon
      <4>5. security_locked \in BOOLEAN
        BY DEF ServerTypeOK
      <4>6. security_locked' \in BOOLEAN
        BY <4>4, <4>5, Zenon
      <4>7. QED
        BY <4>3, <4>6
    <3>3. QED
      BY <2>2, <3>1, <3>2 DEF SessionControl, Switch
  <2>3. QED
    BY <2>1, <2>2, OnlySwitches
<1>4. QED
  BY <1>2, <1>3, AnswerNext DEF ServerTypeOK

\* The server keeps its types whatever is asked of it.
THEOREM ServerTypeCorrect == ServerSpec => []ServerTypeOK
<1>1. ServerInit => ServerTypeOK
  <2> SUFFICES ASSUME ServerInit PROVE ServerTypeOK
    OBVIOUS
  <2>1. current_session \in Sessions /\ params \in {50, 5000} /\ answer = "POSITIVE"
    <3>1. current_session = "DEFAULT" /\ params = Params("DEFAULT") /\ answer = "POSITIVE"
      BY Zenon DEF ServerInit, SessionInit
    <3>2. QED
      BY <3>1 DEF Sessions, Params
  <2>2. events_paused = FALSE /\ security_locked = TRUE /\ unlocked_flag = FALSE
    BY DEF ServerInit, SessionInit
  <2>3. "POSITIVE" \in NRCs
    BY DEF NRCs
  <2>4. events_paused \in BOOLEAN /\ security_locked \in BOOLEAN /\ unlocked_flag \in BOOLEAN
    BY <2>2, Zenon
  <2>5. QED
    BY <2>1, <2>3, <2>4 DEF ServerTypeOK
<1>2. ServerSpec => []SecTypeOK /\ []TransferTypeOK
  BY ServerSecures, ServerTransfers, SecTypeCorrect, TransferTypeCorrect, PTL
<1>3. QED
  BY <1>1, <1>2, ServerTypeNext, ServerInvAlways, PTL DEF ServerSpec

-----------------------------------------------------------------------------
(* The whole ECU. *)

\* A request for one of the data services changes nothing of the core: the flag
\* it brings up to date was up to date already.
LEMMA ServeKeepsCore ==
  ASSUME ServerInv, NEW sid, Serve(sid)
  PROVE  UNCHANGED serverVars
<1>1. UNCHANGED <<sessionVars, secVars, uploadVars, routineVars, answer>>
  BY DEF Serve
<1>2. unlocked_flag' = unlocked_flag
  <2>1. unlocked_flag' = \E l \in Levels : unlocked[l]
    BY <1>1 DEF Serve, SyncFlag, secVars, levelVars
  <2>2. unlocked_flag \in BOOLEAN /\ (unlocked_flag <=> \E l \in Levels : unlocked[l])
    BY DEF ServerInv, FlagAgrees, IsUnlocked
  <2>3. QED
    BY <2>1, <2>2, Zenon
<1>3. QED
  BY <1>1, <1>2 DEF serverVars

\* So does any of them; what the integrator and the application call is outside it.
LEMMA ServicesKeepCore ==
  ASSUME ServerInv, EcuServices
  PROVE  UNCHANGED serverVars
<1>1. CASE DataServices
  BY <1>1, ServeKeepsCore DEF DataServices
<1>2. CASE IoService
  BY <1>2, ServeKeepsCore DEF IoService
<1>3. CASE MemoryServices
  BY <1>3, ServeKeepsCore DEF MemoryServices
<1>4. CASE DynamicService
  BY <1>4, ServeKeepsCore DEF DynamicService
<1>5. CASE StoredServices
  BY <1>5, ServeKeepsCore DEF StoredServices
<1>6. CASE EventService
  BY <1>6, ServeKeepsCore DEF EventService
<1>7. CASE CommServices
  BY <1>7, ServeKeepsCore DEF CommServices
<1>8. QED
  BY <1>1, <1>2, <1>3, <1>4, <1>5, <1>6, <1>7 DEF EcuServices

\* Every step of the ECU is one of the core's, or leaves the core alone.
LEMMA EcuStepServes ==
  ASSUME ServerInv, [EcuNext]_ecuVars
  PROVE  [ServerNext]_serverVars
<1>1. CASE EcuServices
  BY <1>1, ServicesKeepCore
<1>2. CASE ServerNext
  BY <1>2
<1>3. CASE UNCHANGED ecuVars
  BY <1>3 DEF ecuVars
<1>4. QED
  BY <1>1, <1>2, <1>3 DEF EcuNext

\* The facts about the core stay true in the ECU.
LEMMA ServerInvKept == ServerInv /\ [EcuNext]_ecuVars => ServerInv'
  BY EcuStepServes, ServerInvNext

\* They hold from the start.
LEMMA EcuServerInv == EcuSpec => []ServerInv
<1>1. EcuInit => ServerInv
  BY ServerInvInit DEF EcuInit
<1>2. QED
  BY <1>1, ServerInvKept, PTL DEF EcuSpec

\* The services around the core do not disturb it: every behaviour of the ECU
\* is one of UdsServer, whose theorems therefore hold of the ECU.
THEOREM EcuServes == EcuSpec => ServerSpec
<1>1. EcuInit => ServerInit
  BY DEF EcuInit
<1>2. ServerInv /\ [EcuNext]_ecuVars => [ServerNext]_serverVars
  BY EcuStepServes
<1>3. QED
  BY <1>1, <1>2, EcuServerInv, PTL DEF EcuSpec, ServerSpec

-----------------------------------------------------------------------------
\* Only the services on stored data and the application touch the database.
LEMMA EcuStepStores ==
  ASSUME ServerInv, [EcuNext]_ecuVars
  PROVE  [DtcNext]_dtcVars
<1>1. CASE StoredServices
  <2>1. ASSUME NEW g \in Groups, NEW complete \in BOOLEAN,
               ClearDiagnosticInfo(g, current_session = "DEFAULT", unlocked_flag, complete)
        PROVE  DtcNext
    <3>1. unlocked_flag \in BOOLEAN /\ (current_session = "DEFAULT") \in BOOLEAN
      BY DEF ServerInv
    <3>2. QED
      BY <2>1, <3>1 DEF DtcNext
  <2>2. QED
    BY <1>1, <2>1 DEF StoredServices, DtcNext
<1>2. CASE UNCHANGED dtcVars
  BY <1>2
<1>3. EcuServices /\ ~StoredServices => UNCHANGED dtcVars
  BY DEF EcuServices, DataServices, IoService, MemoryServices, DynamicService, EventService,
         CommServices
<1>4. UNCHANGED serviceVars => UNCHANGED dtcVars
  BY DEF serviceVars
<1>5. UNCHANGED ecuVars => UNCHANGED serviceVars
  BY DEF ecuVars
<1>6. QED
  BY <1>1, <1>2, <1>3, <1>4, <1>5 DEF EcuNext

\* In the ECU, the database behaves as UdsDtc says: it implements DtcStore.
THEOREM EcuStores == EcuSpec => DtcSpec
<1>1. EcuInit => DtcInit
  BY DEF EcuInit
<1>2. ServerInv /\ [EcuNext]_ecuVars => [DtcNext]_dtcVars
  BY EcuStepStores
<1>3. QED
  BY <1>1, <1>2, EcuServerInv, PTL DEF EcuSpec, DtcSpec

-----------------------------------------------------------------------------
(* The tables the services keep. *)

\* A request for one of the data services is a step of UdsData: the flag it is
\* given is a flag.
LEMMA DataServicesStep ==
  ASSUME ServerInv, DataServices
  PROVE  DataNext
<1>1. unlocked_flag \in BOOLEAN
  BY DEF ServerInv
<1>2. QED
  BY <1>1 DEF DataServices, DataNext

\* Only the data services and 0x2F touch the identifiers and their overrides;
\* 0x2F reads the identifiers only.
LEMMA EcuStepIo ==
  ASSUME ServerInv, [EcuNext]_ecuVars
  PROVE  [IoNext]_<<dataVars, ioVars>>
<1>1. CASE DataServices
  BY <1>1, DataServicesStep DEF DataServices, IoNext
<1>2. CASE IoService
  <2>1. unlocked_flag \in BOOLEAN
    BY DEF ServerInv
  <2>2. QED
    BY <1>2, <2>1 DEF IoService, IoNext
<1>3. EcuServices /\ ~DataServices /\ ~IoService => UNCHANGED <<dataVars, ioVars>>
  BY DEF EcuServices, MemoryServices, DynamicService, StoredServices, EventService, CommServices
<1>4. UNCHANGED serviceVars \/ UNCHANGED ecuVars => UNCHANGED <<dataVars, ioVars>>
  BY DEF serviceVars, ecuVars
<1>5. QED
  BY <1>1, <1>2, <1>3, <1>4 DEF EcuNext

\* Only 0x23, 0x3D and a registration touch the memory.
LEMMA EcuStepMemory ==
  ASSUME ServerInv, [EcuNext]_ecuVars
  PROVE  [MemoryNext]_memoryVars
<1>1. CASE MemoryServices
  <2>1. unlocked_flag \in BOOLEAN
    BY DEF ServerInv
  <2>2. QED
    BY <1>1, <2>1 DEF MemoryServices, MemoryNext
<1>2. EcuServices /\ ~MemoryServices => UNCHANGED memoryVars
  BY DEF EcuServices, DataServices, IoService, DynamicService, StoredServices, EventService,
         CommServices
<1>3. UNCHANGED serviceVars \/ UNCHANGED ecuVars => UNCHANGED memoryVars
  BY DEF serviceVars, ecuVars
<1>4. QED
  BY <1>1, <1>2, <1>3 DEF EcuNext

\* Only 0x2C touches the dynamic identifiers.
LEMMA EcuStepDynamic == [EcuNext]_ecuVars => [DynamicNext]_dynamicVars
<1> SUFFICES ASSUME [EcuNext]_ecuVars PROVE [DynamicNext]_dynamicVars
  OBVIOUS
<1>1. CASE DynamicService
  BY <1>1 DEF DynamicService
<1>2. EcuServices /\ ~DynamicService => UNCHANGED dynamicVars
  BY DEF EcuServices, DataServices, IoService, MemoryServices, StoredServices, EventService,
         CommServices
<1>3. UNCHANGED serviceVars \/ UNCHANGED ecuVars => UNCHANGED dynamicVars
  BY DEF serviceVars, ecuVars
<1>4. QED
  BY <1>1, <1>2, <1>3 DEF EcuNext

\* In the ECU each table behaves as its own module says, given the simulator's
\* copy of the security state: what is proved of the maps of overrides and of
\* dynamic identifiers and of the memory holds there.
THEOREM EcuKeepsTables == EcuSpec => IoSpec /\ DynamicSpec /\ MemorySpec
<1>1. EcuInit => DataInit /\ IoInit /\ DynamicInit /\ MemoryInit
  BY DEF EcuInit
<1>2. ServerInv /\ [EcuNext]_ecuVars =>
        [IoNext]_<<dataVars, ioVars>> /\ [DynamicNext]_dynamicVars /\ [MemoryNext]_memoryVars
  BY EcuStepIo, EcuStepDynamic, EcuStepMemory
<1>3. QED
  BY <1>1, <1>2, EcuServerInv, PTL DEF EcuSpec, IoSpec, DynamicSpec, MemorySpec

\* An identifier has one entry for ever, and what is scheduled stays readable:
\* uds_did_register is the one place that keeps it so.
THEOREM DidsAlwaysConsistent == EcuSpec => []DidsConsistent
<1>1. DataInv => DidsConsistent
  BY DEF DataInv
<1>2. QED
  BY <1>1, EcuKeepsTables, IoAlwaysInv, PTL

-----------------------------------------------------------------------------
(* What a tester in the default session, or without an unlocked level, may do. *)

Restricted == current_session = "DEFAULT" \/ ~unlocked_flag

\* The dispatch table keeps these services out of the default session.
LEMMA NotInDefault ==
  ASSUME NEW sid \in NonDefaultServices, Serve(sid)
  PROVE  current_session # "DEFAULT"
BY DEF Serve, Available, SessionMask, NonDefaultServices, Sessions

\* A write in the default session is not dispatched; one of a secured
\* identifier is refused while the flag is down.
LEMMA DataKept ==
  ASSUME DataInv, ServerInv, DataServices, NEW i \in DidIndices,
         \/ current_session = "DEFAULT"
         \/ did_registry[i].access = "SECURED_WRITE" /\ ~unlocked_flag
  PROVE  did_data'[i] = did_data[i]
<1>1. ASSUME NEW e \in Dids, RegisterDid(e) PROVE did_data'[i] = did_data[i]
  BY <1>1, RegisterDidAppends
<1>2. ASSUME NEW j \in DidIndices, NEW v \in Values, Serve("WRITE_DATA_BY_IDENTIFIER"),
             WriteDataById(j, v, unlocked_flag)
      PROVE  did_data'[i] = did_data[i]
  <2>1. current_session # "DEFAULT"
    BY <1>2, NotInDefault DEF NonDefaultServices
  <2>2. ~Writable(did_registry[i], unlocked_flag)
    BY <2>1 DEF Writable
  <2>3. CASE did_data' = did_data
    BY <2>3
  <2>4. CASE WriteFits(did_registry[j], v, unlocked_flag)
    <3>1. i # j
      BY <2>2, <2>4 DEF WriteFits
    <3>2. did_data' = did_data \/ did_data' = [did_data EXCEPT ![j] = Overlay(@, v)]
      BY <1>2, <2>4 DEF WriteDataById
    <3>3. i \in DOMAIN did_data
      BY DEF DataInv, DidIndices
    <3>4. QED
      BY <3>1, <3>2, <3>3
  <2>5. QED
    BY <1>2, <2>3, <2>4 DEF WriteDataById
<1>3. ASSUME NEW j, ReadDataById(j, unlocked_flag) \/ ReadScalingData(j, unlocked_flag)
      PROVE  UNCHANGED did_data
  BY <1>3 DEF ReadDataById, ReadScalingData
<1>4. ASSUME NEW mode, NEW id, NEW source, Schedule(mode, id, source)
      PROVE  UNCHANGED did_data
  BY <1>4 DEF Schedule
<1>5. BadDataRequest => UNCHANGED did_data
  BY DEF BadDataRequest
<1>6. QED
  BY <1>1, <1>2, <1>3, <1>4, <1>5 DEF DataServices

\* The same of memory: both checks stand before 0x3D.
LEMMA MemoryKept ==
  ASSUME MemoryInv, MemoryServices, Restricted, NEW i \in 1 .. Len(memory)
  PROVE  memory'[i] = memory[i]
<1>1. ASSUME NEW r \in Regions, RegisterMemory(r) PROVE memory'[i] = memory[i]
  BY <1>1, RegisterMemoryAppends
<1>2. ASSUME NEW a, NEW n, ReadMemory(a, n) PROVE memory'[i] = memory[i]
  BY <1>2 DEF ReadMemory
<1>3. ASSUME NEW a, NEW n, NEW b, NEW complete, Serve("WRITE_MEMORY_BY_ADDRESS"),
             WriteMemory(a, n, b, unlocked_flag, complete)
      PROVE  memory'[i] = memory[i]
  <2>1. ~unlocked_flag
    BY <1>3, NotInDefault DEF Restricted, NonDefaultServices
  <2>2. WriteMemoryRefusal(a, n, unlocked_flag, complete) = "SAD"
    BY <2>1 DEF WriteMemoryRefusal
  <2>3. QED
    BY <1>3, <2>2 DEF WriteMemory
<1>4. QED
  BY <1>1, <1>2, <1>3 DEF MemoryServices

\* The application stores under a code's own record or in an empty one.
LEMMA ApplicationKeepsCodes ==
  ASSUME DtcInv, ApplicationCall, NEW i \in Indices, dtc_db[i].dtc # 0
  PROVE  dtc_db'[i].dtc = dtc_db[i].dtc
<1>1. ASSUME NEW d \in Dtcs \cup {0}, NEW index \in {FindIndex(d), FindOrCreate(d)}, NEW r,
             d # 0 => r.dtc = d, Store(index, d, r)
      PROVE  dtc_db'[i].dtc = dtc_db[i].dtc
  <2>1. CASE ~Stores(index, d) \/ index # i
    BY <1>1, <2>1 DEF Store, DtcInv, DtcTypeOK
  <2>2. CASE Stores(index, d) /\ index = i
    <3>1. dtc_db[i].dtc = d
      BY <2>2, FindIndexFact DEF Stores, FindOrCreate
    <3>2. QED
      BY <1>1, <2>2, <3>1 DEF Store, Stores, DtcInv, DtcTypeOK
  <2>3. QED
    BY <2>1, <2>2
<1>2. ASSUME NEW d \in Dtcs PROVE Record(d) \in DtcRecord /\ Record(d).dtc = d
  BY <1>2, RecordType
<1>3. ASSUME NEW d \in Dtcs \cup {0}, NEW b \in SUBSET Bits, SetStatus(d, b) \/ ClearStatus(d, b)
      PROVE  dtc_db'[i].dtc = dtc_db[i].dtc
  <2>1. d # 0 => /\ [Record(d) EXCEPT !.status = @ \cup b].dtc = d
                 /\ [Record(d) EXCEPT !.status = @ \ b].dtc = d
    BY <1>2 DEF DtcRecord
  <2>2. QED
    BY <1>1, <1>3, <2>1 DEF SetStatus, ClearStatus
<1>4. ASSUME NEW d \in Dtcs \cup {0}, NEW c \in Contents, SetSnapshot(d, c) \/ SetExtended(d, c)
      PROVE  dtc_db'[i].dtc = dtc_db[i].dtc
  <2>1. d # 0 => /\ [Record(d) EXCEPT !.snapshot = c].dtc = d
                 /\ [Record(d) EXCEPT !.extended = c].dtc = d
    BY <1>2 DEF DtcRecord
  <2>2. QED
    BY <1>1, <1>4, <2>1 DEF SetSnapshot, SetExtended
<1>5. ASSUME NEW d, NEW c, RejectRecord(d, c) PROVE UNCHANGED dtc_db
  BY <1>5 DEF RejectRecord
<1>6. QED
  BY <1>3, <1>4, <1>5 DEF ApplicationCall

\* The codes stored stay stored.
LEMMA CodesKept ==
  ASSUME DtcInv, StoredServices, Restricted, NEW i \in Indices, dtc_db[i].dtc # 0
  PROVE  dtc_db'[i].dtc = dtc_db[i].dtc
<1>1. ASSUME NEW g, NEW complete,
             ClearDiagnosticInfo(g, current_session = "DEFAULT", unlocked_flag, complete)
      PROVE  dtc_db'[i].dtc = dtc_db[i].dtc
  <2>1. ClearRefusal(current_session = "DEFAULT", unlocked_flag, complete) # "NONE"
    BY DEF Restricted, ClearRefusal
  <2>2. QED
    BY <1>1, <2>1 DEF ClearDiagnosticInfo
<1>2. ReadDtcInfo => UNCHANGED dtc_db
  BY DEF ReadDtcInfo, Report, ReportSupported, ReadRecord, Suppressed, BadRead
<1>3. QED
  BY <1>1, <1>2, ApplicationKeepsCodes DEF StoredServices

\* The services outside a family leave its variables alone.
LEMMA EcuStepOf ==
  ASSUME [EcuNext]_ecuVars
  PROVE  /\ DataServices \/ UNCHANGED did_data
         /\ MemoryServices \/ UNCHANGED memory
         /\ StoredServices \/ UNCHANGED dtc_db
         /\ IoService \/ UNCHANGED overrides
         /\ DynamicService \/ UNCHANGED dynamic_dids
         /\ EventService \/ UNCHANGED g_event_store
<1>. DEFINE AllKept == UNCHANGED <<did_data, memory, dtc_db, overrides, dynamic_dids, g_event_store>>
<1> USE DEF dtcVars, memoryVars, dynamicVars, dataVars, ioVars, eventVars
<1>1. UNCHANGED serviceVars \/ UNCHANGED ecuVars => AllKept
  BY DEF serviceVars, ecuVars
<1>2. DataServices => UNCHANGED <<memory, dtc_db, overrides, dynamic_dids, g_event_store>>
  BY DEF DataServices
<1>3. IoService => UNCHANGED <<did_data, memory, dtc_db, dynamic_dids, g_event_store>>
  BY DEF IoService
<1>4. MemoryServices => UNCHANGED <<did_data, dtc_db, overrides, dynamic_dids, g_event_store>>
  BY DEF MemoryServices
<1>5. DynamicService => UNCHANGED <<did_data, memory, dtc_db, overrides, g_event_store>>
  BY DEF DynamicService
<1>6. StoredServices => UNCHANGED <<did_data, memory, overrides, dynamic_dids, g_event_store>>
  BY DEF StoredServices
<1>7. EventService => UNCHANGED <<did_data, memory, dtc_db, overrides, dynamic_dids>>
  BY DEF EventService
<1>8. CommServices => AllKept
  BY DEF CommServices
<1>9. QED
  BY <1>1, <1>2, <1>3, <1>4, <1>5, <1>6, <1>7, <1>8 DEF EcuNext, EcuServices

\* One step in the default session.
LEMMA ReadsOnlyStep ==
  ASSUME ServerInv, DataInv, MemoryInv, DtcInv, [EcuNext]_ecuVars,
         current_session = "DEFAULT"
  PROVE  ReadsOnly
<1>1. \A i \in DidIndices : did_data'[i] = did_data[i]
  BY EcuStepOf, DataKept
<1>2. \A i \in 1 .. Len(memory) : memory'[i] = memory[i]
  BY EcuStepOf, MemoryKept DEF Restricted
<1>3. UNCHANGED <<dynamic_dids, overrides, g_event_store>>
  BY EcuStepOf, NotInDefault DEF DynamicService, IoService, EventService, NonDefaultServices
<1>4. \A i \in Indices : dtc_db[i].dtc # 0 => dtc_db'[i].dtc = dtc_db[i].dtc
  BY EcuStepOf, CodesKept DEF Restricted
<1>5. QED
  BY <1>1, <1>2, <1>3, <1>4 DEF ReadsOnly

-----------------------------------------------------------------------------
\* Writing or blanking a slot that is not another identifier's leaves the
\* overrides of the other as they are.
LEMMA OverridesOfOther ==
  ASSUME IoInv, NEW d, NEW s \in IoSlots, NEW x, overrides' = [overrides EXCEPT ![s] = x],
         ~(overrides[s].active /\ overrides[s].did = d), ~(x.active /\ x.did = d)
  PROVE  OverridesOf(d)' = OverridesOf(d)
<1>1. overrides'[s] = x /\ \A t \in IoSlots \ {s} : overrides'[t] = overrides[t]
  BY DEF IoInv
<1>2. {t \in IoSlots : overrides'[t].active /\ overrides'[t].did = d}
      = {t \in IoSlots : overrides[t].active /\ overrides[t].did = d}
  BY <1>1
<1>3. \A t \in IoSlots : overrides[t].active /\ overrides[t].did = d => overrides'[t] = overrides[t]
  BY <1>1
<1>4. QED
  BY <1>2, <1>3 DEF OverridesOf, FindOverride

\* While the flag is down, a secured identifier's overrides stay.
LEMMA OverridesKept ==
  ASSUME DataInv, IoInv, IoService, ~unlocked_flag, NEW d \in SecuredDids
  PROVE  OverridesOf(d)' = OverridesOf(d)
<1>1. UNCHANGED overrides => OverridesOf(d)' = OverridesOf(d)
  BY DEF OverridesOf, FindOverride
<1>2. ASSUME NEW i \in DidIndices, ~Denied(did_registry[i], unlocked_flag)
      PROVE  did_registry[i].did # d
  <2>1. PICK j \in DidIndices : Secured(did_registry[j]) /\ did_registry[j].did = d
    BY DEF SecuredDids
  <2>2. i # j
    BY <1>2, <2>1 DEF Denied
  <2>3. QED
    BY <2>1, <2>2 DEF DataInv, DidsConsistent
<1>3. ASSUME NEW S \in SUBSET IoSlots, S # {} PROVE Min(S) \in S
  <2>1. S \subseteq Nat
    BY DEF IoSlots
  <2>2. QED
    BY <1>3, <2>1, MinFact
<1>4. ASSUME NEW i \in DidIndices, ReturnControl(i, unlocked_flag)
      PROVE  OverridesOf(d)' = OverridesOf(d)
  <2>. DEFINE found == FindOverride(did_registry[i].did)
  <2>1. CASE Denied(did_registry[i], unlocked_flag) \/ found = {}
    BY <1>1, <1>4, <2>1 DEF ReturnControl, RefuseIo, ioVars
  <2>2. CASE ~Denied(did_registry[i], unlocked_flag) /\ found # {}
    <3>1. Min(found) \in found /\ found \subseteq IoSlots
      BY <1>3, <2>2 DEF FindOverride
    <3>2. overrides' = [overrides EXCEPT ![Min(found)] = NoOverride]
      BY <1>4, <2>2 DEF ReturnControl, Removed
    <3>3. overrides[Min(found)].did # d /\ ~NoOverride.active
      BY <1>2, <2>2, <3>1 DEF FindOverride, NoOverride
    <3>4. QED
      <4>. HIDE DEF found
      <4>. QED BY <3>1, <3>2, <3>3, OverridesOfOther
  <2>3. QED
    BY <2>1, <2>2
<1>5. ASSUME NEW i \in DidIndices, NEW v, Adjust(i, v, unlocked_flag)
      PROVE  OverridesOf(d)' = OverridesOf(d)
  <2>. DEFINE did == did_registry[i].did
              slots == IF FindOverride(did) # {} THEN FindOverride(did) ELSE FreeOverrides
              x == [did |-> did, value |-> Clamped(v), active |-> TRUE]
  <2>1. CASE Denied(did_registry[i], unlocked_flag) \/ v = <<>> \/ slots = {}
    BY <1>1, <1>5, <2>1 DEF Adjust, RefuseIo, ioVars
  <2>2. CASE ~Denied(did_registry[i], unlocked_flag) /\ v # <<>> /\ slots # {}
    <3>1. Min(slots) \in slots /\ slots \subseteq IoSlots
      BY <1>3, <2>2 DEF FindOverride, FreeOverrides
    <3>2. overrides' = [overrides EXCEPT ![Min(slots)] = x]
      BY <1>5, <2>2 DEF Adjust
    <3>3. did # d
      BY <1>2, <2>2
    <3>4. ~(overrides[Min(slots)].active /\ overrides[Min(slots)].did = d)
      BY <3>1, <3>3 DEF FindOverride, FreeOverrides
    <3>5. ~(x.active /\ x.did = d)
      BY <3>3
    <3>6. QED
      <4>. HIDE DEF slots, x
      <4>. QED BY <3>1, <3>2, <3>4, <3>5, OverridesOfOther
  <2>3. QED
    BY <2>1, <2>2
<1>6. ASSUME NEW i \in DidIndices, Freeze(i, unlocked_flag) PROVE UNCHANGED overrides
  BY <1>6 DEF Freeze, ioVars
<1>7. BadIoRequest => UNCHANGED overrides
  BY DEF BadIoRequest, RefuseIo, ioVars
<1>8. QED
  BY <1>1, <1>4, <1>5, <1>6, <1>7 DEF IoService, IoControl

\* One step while every level is locked.
LEMMA SecuredChangeStep ==
  ASSUME ServerInv, DataInv, MemoryInv, DtcInv, IoInv, [EcuNext]_ecuVars
  PROVE  SecuredChange => IsUnlocked
<1> SUFFICES ASSUME ~IsUnlocked PROVE ~SecuredChange
  OBVIOUS
<1>1. ~unlocked_flag
  BY DEF ServerInv, FlagAgrees
<1>2. \A i \in DidIndices :
        did_registry[i].access = "SECURED_WRITE" => did_data'[i] = did_data[i]
  BY <1>1, EcuStepOf, DataKept
<1>3. \A d \in SecuredDids : OverridesOf(d)' = OverridesOf(d)
  <2>1. UNCHANGED overrides => \A d \in SecuredDids : OverridesOf(d)' = OverridesOf(d)
    BY DEF OverridesOf, FindOverride
  <2>2. QED
    BY <1>1, <2>1, EcuStepOf, OverridesKept
<1>4. \A i \in 1 .. Len(memory) : memory'[i] = memory[i]
  BY <1>1, EcuStepOf, MemoryKept DEF Restricted
<1>5. \A i \in Indices : dtc_db[i].dtc # 0 => dtc_db'[i].dtc = dtc_db[i].dtc
  BY <1>1, EcuStepOf, CodesKept DEF Restricted
<1>6. QED
  BY <1>2, <1>3, <1>4, <1>5 DEF SecuredChange

-----------------------------------------------------------------------------
\* The facts the two results rest on hold together in every state.
EcuInv == ServerInv /\ DataInv /\ MemoryInv /\ DtcInv /\ IoInv

\* Each holds of the specification that the ECU implements.
LEMMA EcuInvAlways == EcuSpec => []EcuInv
<1>1. MemorySpec => []MemoryInv
  BY MemoryInvInit, MemoryStep, PTL DEF MemorySpec
<1>2. ServerInv /\ (IoInv /\ DataInv) /\ MemoryInv /\ DtcInv => EcuInv
  BY DEF EcuInv
<1>3. QED
  BY <1>1, <1>2, EcuServerInv, EcuKeepsTables, IoAlwaysInv, EcuStores, DtcAlwaysInv, PTL

\* In the default session no request changes what the ECU keeps; the dispatch
\* table's masks are what sees to it (uds_service_init).
THEOREM DefaultAlwaysReadsOnly == EcuSpec => DefaultSessionReadsOnly
<1>1. EcuInv /\ [EcuNext]_ecuVars => [current_session = "DEFAULT" => ReadsOnly]_ecuVars
  BY ReadsOnlyStep DEF EcuInv
<1>2. EcuSpec => [][current_session = "DEFAULT" => ReadsOnly]_ecuVars
  BY <1>1, EcuInvAlways, PTL DEF EcuSpec
<1>3. QED
  BY <1>2 DEF DefaultSessionReadsOnly

\* While every level is locked, no secured data, memory, override or trouble
\* code changes, although the services are shown a copy of that fact.
THEOREM SecuredDataAlwaysAuthorised == EcuSpec => SecuredDataAuthorised
<1>1. EcuInv /\ [EcuNext]_ecuVars => [SecuredChange => IsUnlocked]_ecuVars
  BY SecuredChangeStep DEF EcuInv
<1>2. EcuSpec => [][SecuredChange => IsUnlocked]_ecuVars
  BY <1>1, EcuInvAlways, PTL DEF EcuSpec
<1>3. QED
  BY <1>2 DEF SecuredDataAuthorised

-----------------------------------------------------------------------------
(* The event store. *)

Events == [type : EventTypes, data : EventData]

\* A store holds these events: no more than there is room for, in order, each
\* with the beginning of its data.
Holds(store, events) ==
  /\ events \in Seq(Events) /\ Len(events) <= EventMax
  /\ store = [i \in EventSlots |-> store[i]]
  /\ \A i \in EventSlots : store[i].active <=> i <= Len(events)
  /\ \A i \in EventSlots : i <= Len(events) \/ store[i] = NoEvent
  /\ \A i \in 1 .. Len(events) :
       /\ store[i].type = events[i].type
       /\ store[i].data = SubSeq(events[i].data, 1, Len(store[i].data))
       /\ Len(store[i].data) <= EventDataMax
       /\ Len(events[i].data) < LengthSize =>
            Len(store[i].data) = Min({Len(events[i].data), EventDataMax})

\* What is stored of an event's data.
LEMMA StoredDataFact ==
  ASSUME NEW d \in EventData
  PROVE  /\ StoredData(d) = SubSeq(d, 1, Len(StoredData(d)))
         /\ Len(StoredData(d)) <= EventDataMax
         /\ Len(d) < LengthSize => Len(StoredData(d)) = Min({Len(d), EventDataMax})
<1>. DEFINE k == Min({Len(d) % LengthSize, EventDataMax})
<1>1. d \in Seq(Nat) /\ LengthSize \in Nat /\ LengthSize > 0 /\ EventDataMax \in Nat
  BY EventParameters
<1>2. Len(d) % LengthSize \in Nat /\ Len(d) % LengthSize <= Len(d)
      /\ (Len(d) < LengthSize => Len(d) % LengthSize = Len(d))
  <2>1. Len(d) \in Nat
    BY <1>1
  <2>2. QED
    BY <1>1, <2>1, SMT
<1>3. \A a, b \in Nat : Min({a, b}) = IF a <= b THEN a ELSE b
  BY DEF Min
<1>4. k \in 0 .. Len(d) /\ k <= EventDataMax
  BY <1>1, <1>2, <1>3
<1>5. StoredData(d) = SubSeq(d, 1, k)
  BY DEF StoredData
<1>6. Len(d) < LengthSize => k = Min({Len(d), EventDataMax})
  BY <1>2
<1>. HIDE DEF k
<1>7. Len(StoredData(d)) = k
  BY <1>1, <1>4, <1>5
<1>8. QED
  BY <1>4, <1>5, <1>6, <1>7

\* The next event goes into the slot behind those asked for.
LEMMA AddEventFact ==
  ASSUME NEW n \in 0 .. EventMax, NEW store, store = [i \in EventSlots |-> store[i]],
         \A i \in EventSlots : store[i].active <=> i <= n,
         NEW t \in EventTypes, NEW d \in EventData
  PROVE  AddEvent(store, t, d) =
           IF n = EventMax THEN store
           ELSE [store EXCEPT ![n + 1] = [type |-> t, data |-> StoredData(d), active |-> TRUE]]
<1>. DEFINE free == {i \in EventSlots : ~store[i].active}
<1>1. EventMax \in Nat
  BY EventParameters
<1>2. free = n + 1 .. EventMax
  BY <1>1 DEF EventSlots
<1>3. n < EventMax => Min(n + 1 .. EventMax) = n + 1
  BY <1>1 DEF Min
<1>4. n + 1 .. EventMax = {} <=> n = EventMax
  BY <1>1
<1>5. AddEvent(store, t, d) =
        IF free = {} THEN store
        ELSE [store EXCEPT ![Min(free)] = [type |-> t, data |-> StoredData(d), active |-> TRUE]]
  BY DEF AddEvent
<1>. HIDE DEF free
<1>6. CASE n = EventMax
  BY <1>2, <1>4, <1>5, <1>6
<1>7. CASE n # EventMax
  <2>1. free # {} /\ Min(free) = n + 1
    BY <1>1, <1>2, <1>3, <1>4, <1>7
  <2>2. QED
    BY <1>5, <1>7, <2>1
<1>8. QED
  BY <1>6, <1>7

\* One more event goes behind those held, or is dropped.
LEMMA EventAdded ==
  ASSUME NEW store, NEW events, Holds(store, events), NEW t \in EventTypes, NEW d \in EventData
  PROVE  Holds(AddEvent(store, t, d),
               IF Len(events) < EventMax THEN Append(events, [type |-> t, data |-> d]) ELSE events)
<1>. DEFINE n == Len(events)
            e == [type |-> t, data |-> d]
            x == [type |-> t, data |-> StoredData(d), active |-> TRUE]
            more == Append(events, e)
            added == [store EXCEPT ![n + 1] = x]
<1>1. EventMax \in Nat /\ n \in 0 .. EventMax
  BY EventParameters DEF Holds
<1>2. AddEvent(store, t, d) = IF n = EventMax THEN store ELSE added
  BY <1>1, AddEventFact DEF Holds
<1>3. CASE n = EventMax
  BY <1>1, <1>2, <1>3
<1>4. CASE n < EventMax
  <2>1. /\ more \in Seq(Events)
        /\ Len(more) = n + 1 /\ more[n + 1] = e
        /\ \A i \in 1 .. n : more[i] = events[i]
    BY DEF Holds, Events
  <2>2. n + 1 \in EventSlots
    BY <1>1, <1>4 DEF EventSlots
  <2>3. /\ added = [i \in EventSlots |-> added[i]]
        /\ added[n + 1] = x
        /\ \A i \in EventSlots \ {n + 1} : added[i] = store[i]
    BY <2>2 DEF Holds
  <2>. HIDE DEF more, added
  <2>4. \A i \in EventSlots : added[i].active <=> i <= n + 1
    <3>1. \A i \in EventSlots : store[i].active <=> i <= n
      BY DEF Holds
    <3>2. x.active
      OBVIOUS
    <3>. HIDE DEF n, x
    <3>3. QED
      BY <1>1, <2>3, <3>1, <3>2 DEF EventSlots
  <2>5. ASSUME NEW i \in 1 .. n + 1
        PROVE  /\ added[i].type = more[i].type
               /\ added[i].data = SubSeq(more[i].data, 1, Len(added[i].data))
               /\ Len(added[i].data) <= EventDataMax
               /\ Len(more[i].data) < LengthSize =>
                    Len(added[i].data) = Min({Len(more[i].data), EventDataMax})
    <3>1. CASE i = n + 1
      <4>1. added[i].type = t /\ added[i].data = StoredData(d)
            /\ more[i].type = t /\ more[i].data = d
        BY <2>1, <2>3, <3>1
      <4>2. QED
        BY <4>1, StoredDataFact
    <3>2. CASE i \in 1 .. n
      <4>1. more[i] = events[i] /\ added[i] = store[i]
        BY <1>1, <1>4, <2>1, <2>3, <3>2 DEF EventSlots
      <4>2. QED
        BY <3>2, <4>1 DEF Holds
    <3>3. QED
      BY <1>1, <3>1, <3>2
  <2>. HIDE DEF n
  <2>6. Holds(added, more)
    <3>1. Len(more) <= EventMax
      BY <1>1, <1>4, <2>1
    <3>2. \A i \in EventSlots : added[i].active <=> i <= Len(more)
      BY <2>1, <2>4
    <3>3. \A i \in 1 .. Len(more) :
            /\ added[i].type = more[i].type
            /\ added[i].data = SubSeq(more[i].data, 1, Len(added[i].data))
            /\ Len(added[i].data) <= EventDataMax
            /\ Len(more[i].data) < LengthSize =>
                 Len(added[i].data) = Min({Len(more[i].data), EventDataMax})
      BY <2>1, <2>5
    <3>4. \A i \in EventSlots : i <= Len(more) \/ added[i] = NoEvent
      BY <1>1, <1>4, <2>1, <2>3 DEF EventSlots, Holds, n
    <3>5. QED
      BY <2>1, <2>3, <3>1, <3>2, <3>3, <3>4, Zenon DEF Holds
  <2>7. AddEvent(store, t, d) = added /\ n < EventMax
    BY <1>1, <1>2, <1>4
  <2>8. QED
    BY <2>6, <2>7 DEF n, more, e
<1>5. QED
  BY <1>1, <1>3, <1>4

\* A cleared store holds no events.
LEMMA ClearedHolds == Holds(ClearedStore, <<>>)
<1>1. \A i \in EventSlots : ~ClearedStore[i].active
  BY DEF ClearedStore, NoEvent
<1>2. ClearedStore = [i \in EventSlots |-> ClearedStore[i]]
  BY DEF ClearedStore
<1>3. \A i \in EventSlots : ClearedStore[i] = NoEvent
  BY DEF ClearedStore
<1>4. /\ <<>> \in Seq(Events) /\ Len(<<>>) = 0 /\ 0 <= EventMax
      /\ \A i \in EventSlots : ~(i <= 0)
      /\ 1 .. 0 = {}
  BY EventParameters DEF EventSlots
<1>5. QED
  BY <1>1, <1>2, <1>3, <1>4 DEF Holds

\* The inductive invariant: what is asked for is something the tester may send.
EventsInv == Holds(g_event_store, requested)

\* Every request of ResponseOnEvent keeps it.
LEMMA EventsStepKeeps ==
  ASSUME EventsInv, [EcuNext]_ecuVars
  PROVE  EventsInv'
<1>1. CASE UNCHANGED <<g_event_store, requested>>
  BY <1>1 DEF EventsInv
<1>2. ASSUME NEW subfn \in 0 .. 5, StopEvents(subfn) PROVE EventsInv'
  BY <1>2, ClearedHolds DEF StopEvents, EventsInv
<1>3. ASSUME NEW subfn \in 0 .. 5, NEW t \in EventTypes, NEW d \in EventData,
             StartEvent(subfn, t, d)
      PROVE  EventsInv'
  <2>. DEFINE store == IF subfn = 4 THEN ClearedStore ELSE g_event_store
              before == IF subfn = 4 THEN <<>> ELSE requested
  <2>1. Holds(store, before)
    BY ClearedHolds DEF EventsInv
  <2>2. /\ g_event_store' = AddEvent(store, t, d)
        /\ requested' = IF Len(before) < EventMax
                        THEN Append(before, [type |-> t, data |-> d]) ELSE before
    BY <1>3 DEF StartEvent
  <2>. HIDE DEF store, before
  <2>3. QED
    BY <2>1, <2>2, EventAdded DEF EventsInv
<1>4. ASSUME NEW subfn, NEW complete, RefuseEvent(subfn, complete) PROVE EventsInv'
  BY <1>1, <1>4 DEF RefuseEvent
<1>5. EventService => EventsInv'
  BY <1>2, <1>3, <1>4 DEF EventService, EventsNext, ResponseOnEvent
<1>6. EcuServices /\ ~EventService => UNCHANGED eventVars
  BY DEF EcuServices, DataServices, IoService, MemoryServices, DynamicService, StoredServices,
         CommServices
<1>7. UNCHANGED serviceVars => UNCHANGED eventVars
  BY DEF serviceVars
<1>8. UNCHANGED ecuVars => UNCHANGED serviceVars
  BY DEF ecuVars
<1>9. QED
  BY <1>1, <1>5, <1>6, <1>7, <1>8 DEF EcuNext, eventVars

\* The event store holds the first events asked for, in order and each with its
\* own data, whatever is asked for once it is full.
THEOREM EventsAlwaysFirst == EcuSpec => []EventsAreFirst
<1>1. EcuInit => EventsInv
  BY ClearedHolds DEF EcuInit, EventsInit, EventsInv
<1>2. EventsInv /\ [EcuNext]_ecuVars => EventsInv'
  BY EventsStepKeeps
<1>3. EventsInv => EventsAreFirst
  BY DEF EventsInv, Holds, EventsAreFirst
<1>4. QED
  BY <1>1, <1>2, <1>3, PTL DEF EcuSpec

-----------------------------------------------------------------------------
(* The types of the whole. *)

\* The answers of ResponseOnEvent.
EventNrcOK == event_nrc \in {"NONE", "SFNS", "IMLOIF", "SNSIAS"}

\* No step leaves ResponseOnEvent with another answer.
LEMMA EventNrcNext ==
  ASSUME EventNrcOK, [EcuNext]_ecuVars
  PROVE  EventNrcOK'
<1>1. UNCHANGED eventVars => EventNrcOK'
  BY DEF eventVars, EventNrcOK
<1>2. CASE EventService
  BY <1>2 DEF EventService, EventsNext, ResponseOnEvent, RefuseEvent, EventRefusal, StopEvents,
              StartEvent, EventNrcOK
<1>3. EcuServices /\ ~EventService => UNCHANGED eventVars
  BY DEF EcuServices, DataServices, IoService, MemoryServices, DynamicService, StoredServices,
         CommServices
<1>4. UNCHANGED serviceVars \/ UNCHANGED ecuVars => UNCHANGED eventVars
  BY DEF serviceVars, ecuVars
<1>5. QED
  BY <1>1, <1>2, <1>3, <1>4 DEF EcuNext

\* A slot of a store that holds events is blank, or carries one of them.
LEMMA HeldTypes ==
  ASSUME EventsInv, EventNrcOK
  PROVE  EventsTypeOK
<1>1. ASSUME NEW i \in EventSlots
      PROVE  \/ g_event_store[i] = NoEvent
             \/ /\ g_event_store[i].active /\ g_event_store[i].type \in EventTypes
                /\ Len(g_event_store[i].data) <= EventDataMax
  <2>1. CASE ~(i <= Len(requested))
    BY <2>1 DEF EventsInv, Holds
  <2>2. CASE i <= Len(requested)
    <3>1. g_event_store[i].active
      BY <2>2, Zenon DEF EventsInv, Holds
    <3>2. i \in 1 .. Len(requested) /\ requested \in Seq(Events)
      BY <2>2, EventParameters DEF EventsInv, Holds, EventSlots
    <3>3. requested[i].type \in EventTypes
      <4>1. requested[i] \in Events
        BY <3>2
      <4>2. QED
        BY <4>1 DEF Events
    <3>4. /\ g_event_store[i].type = requested[i].type
          /\ Len(g_event_store[i].data) <= EventDataMax
      BY <3>2 DEF EventsInv, Holds
    <3>5. QED
      BY <3>1, <3>3, <3>4
  <2>3. QED
    BY <2>1, <2>2
<1>2. QED
  BY <1>1 DEF EventsTypeOK, EventNrcOK

\* The services that keep nothing answer with one of these.
CommNrcOK == comm_nrc \in {"NONE", "IMLOIF", "SFNS", "ROOR", "SAD", "CNC", "AR"}

\* No step leaves them with another answer.
LEMMA CommNrcNext ==
  ASSUME CommNrcOK, [EcuNext]_ecuVars
  PROVE  CommNrcOK'
<1>1. ASSUME NEW sid \in CommSids, NEW session, NEW may, NEW n \in CommAnswers(sid, session, may)
      PROVE  n \in {"NONE", "IMLOIF", "SFNS", "ROOR", "SAD", "CNC", "AR"}
  <2>1. CASE sid = "COMMUNICATION_CONTROL"
    BY <2>1 DEF CommAnswers, CommunicationControlRefusal
  <2>2. CASE sid = "TESTER_PRESENT"
    BY <2>2 DEF CommAnswers, TesterPresentRefusal
  <2>3. CASE sid = "SECURED_DATA_TRANSMISSION"
    BY <2>3 DEF CommAnswers, SecuredDataRefusal
  <2>4. CASE sid = "CONTROL_DTC_SETTING"
    BY <2>4 DEF CommAnswers, ControlDtcSettingRefusal
  <2>5. CASE sid = "LINK_CONTROL"
    BY <2>5 DEF CommAnswers, LinkControlRefusal
  <2>6. CASE sid = "AUTHENTICATION"
    BY <2>6 DEF CommAnswers, AuthenticationRefusal
  <2>7. QED
    BY <2>1, <2>2, <2>3, <2>4, <2>5, <2>6 DEF CommSids
<1>2. CASE CommServices
  BY <1>1, <1>2 DEF CommServices, CommNrcOK
<1>3. EcuServices /\ ~CommServices => UNCHANGED comm_nrc
  BY DEF EcuServices, DataServices, IoService, MemoryServices, DynamicService, StoredServices,
         EventService
<1>4. UNCHANGED serviceVars \/ UNCHANGED ecuVars => UNCHANGED comm_nrc
  BY DEF serviceVars, ecuVars
<1>5. UNCHANGED comm_nrc => CommNrcOK'
  BY DEF CommNrcOK
<1>6. QED
  BY <1>2, <1>3, <1>4, <1>5 DEF EcuNext

\* The whole ECU keeps its types: those of the core, whose session context goes
\* on describing the active session, and those of the services around it.
THEOREM EcuTypeCorrect == EcuSpec => []EcuTypeOK
<1>1. EcuSpec => []ServerTypeOK /\ []RoutineTypeOK /\ []SessionConsistent
  BY EcuServes, ServerTypeCorrect, ServerRoutines, RoutineTypeCorrect, SessionAlwaysConsistent,
     PTL
<1>2. EcuInit => EventsInv /\ EventNrcOK /\ CommNrcOK
  BY ClearedHolds DEF EcuInit, EventsInit, EventsInv, EventNrcOK, CommNrcOK
<1>3. EventsInv /\ EventNrcOK /\ CommNrcOK /\ [EcuNext]_ecuVars
        => EventsInv' /\ EventNrcOK' /\ CommNrcOK'
  BY EventsStepKeeps, EventNrcNext, CommNrcNext
<1>4. EcuSpec => [](EventsInv /\ EventNrcOK /\ CommNrcOK)
  BY <1>2, <1>3, PTL DEF EcuSpec
<1>5. /\ ServerTypeOK /\ RoutineTypeOK /\ SessionConsistent
      /\ (EventsInv /\ EventNrcOK /\ CommNrcOK)
      => EcuTypeOK
  BY HeldTypes DEF EcuTypeOK, CommNrcOK
<1>6. QED
  BY <1>1, <1>4, <1>5, PTL
=============================================================================
