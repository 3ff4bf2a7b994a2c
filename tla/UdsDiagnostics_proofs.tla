------------------------ MODULE UdsDiagnostics_proofs ------------------------
(***************************************************************************)
(* Theorems about the table of services and its dispatcher (UdsService),   *)
(* for any services, sessions, limits and clocks; and that all the tables  *)
(* MC_UdsDiagnostics puts side by side keep their types.                   *)
(***************************************************************************)
EXTENDS MC_UdsDiagnostics, UdsTables_proofs, LinRx_proofs

(* The table of services and the dispatcher. *)

\* No identifier has two active entries.
EntriesUnique ==
  \A i, j \in TableSlots :
    service_table[i].active /\ service_table[j].active
      /\ service_table[i].sid = service_table[j].sid => i = j

\* A handler that is timed was called when the clock showed the time that is now
\* as long ago as it has run; and what the last dispatch returned.
TimedInv ==
  /\ ms \in Nat /\ took \in 0 .. ms
  /\ running # 0 /\ service_table[running].delay > 0 =>
       rcrrp_start_ms = (ms - took) % MsSize

AnswerInv ==
  response.send /\ response.ta = "FUNCTIONAL" => response.nrc \notin SilentNrcs

\* The types of the table, without the number of entries.
TableTypeOK ==
  /\ service_table \in [TableSlots ->
       [sid : Sids \cup {0}, mask : SUBSET UNION Masks, delay : Delays \cup {0},
        rcrrp : {"NONE", "SENT", "PENDING_HANDLER"}, active : BOOLEAN]]
  /\ running \in 0 .. TableMax
  /\ response \in [send : BOOLEAN, nrc : {"NONE", "SNS", "SNSIAS", "CNC", "SFNS"},
                   ta : {"PHYSICAL", "FUNCTIONAL"}]

ServiceInv == TableTypeOK /\ EntriesUnique /\ TimedInv /\ AnswerInv

\* An entry found for an identifier is a slot of the table.
LEMMA EntryFound ==
  ASSUME NEW sid, Entries(sid) # {}
  PROVE  Min(Entries(sid)) \in TableSlots /\ Min(Entries(sid)) \in Entries(sid)
<1>1. Entries(sid) \subseteq Nat
  BY ServiceParameters DEF Entries, TableSlots
<1>2. Min(Entries(sid)) \in Entries(sid)
  BY <1>1, MinFact
<1>. QED BY <1>2 DEF Entries

\* Registering takes a free slot and an identifier that has none.
LEMMA RegisterKeepsService ==
  ASSUME ServiceInv, NEW sid \in Sids, NEW mask \in Masks, NEW delay \in Delays,
         RegisterService(sid, mask, delay)
  PROVE  ServiceInv'
<1> DEFINE f == Min(FreeEntries)
           e == [sid |-> sid, mask |-> mask, delay |-> delay, rcrrp |-> "NONE", active |-> TRUE]
<1>1. f \in TableSlots
  <2>1. FreeEntries \subseteq Nat /\ FreeEntries # {}
    BY ServiceParameters DEF RegisterService, MayRegisterService, FreeEntries, TableSlots
  <2>2. Min(FreeEntries) \in FreeEntries
    BY <2>1, MinFact
  <2>. QED BY <2>2 DEF FreeEntries
<1>2. /\ service_table' = [service_table EXCEPT ![f] = e]
      /\ UNCHANGED <<running, rcrrp_start_ms, response, ms, took>> /\ running = 0
      /\ \A i \in TableSlots : ~(service_table[i].active /\ service_table[i].sid = sid)
  BY DEF RegisterService, MayRegisterService, Entries
<1>. HIDE DEF f
<1>3. e \in [sid : Sids \cup {0}, mask : SUBSET UNION Masks, delay : Delays \cup {0},
             rcrrp : {"NONE", "SENT", "PENDING_HANDLER"}, active : BOOLEAN]
  OBVIOUS
<1>4. e.active /\ e.sid = sid
  OBVIOUS
<1>. HIDE DEF e
<1>5. TableTypeOK'
  BY <1>1, <1>2, <1>3 DEF ServiceInv, TableTypeOK
<1>6. \A i \in TableSlots : service_table'[i] = IF i = f THEN e ELSE service_table[i]
  BY <1>1, <1>2 DEF ServiceInv, TableTypeOK
<1>7. EntriesUnique'
  BY <1>2, <1>4, <1>6 DEF ServiceInv, EntriesUnique
<1>8. TimedInv' /\ AnswerInv'
  BY <1>2 DEF ServiceInv, TimedInv, AnswerInv
<1>. QED BY <1>5, <1>7, <1>8 DEF ServiceInv

\* Calling a handler and its return change one entry, and not whose it is.
LEMMA EntryKeepsTable ==
  ASSUME ServiceInv, NEW i \in TableSlots, NEW s \in {"NONE", "SENT", "PENDING_HANDLER"},
         service_table' = [service_table EXCEPT ![i].rcrrp = s]
  PROVE  /\ service_table' \in [TableSlots ->
              [sid : Sids \cup {0}, mask : SUBSET UNION Masks, delay : Delays \cup {0},
               rcrrp : {"NONE", "SENT", "PENDING_HANDLER"}, active : BOOLEAN]]
         /\ EntriesUnique'
         /\ service_table'[i].delay = service_table[i].delay
         /\ service_table'[i].rcrrp = s
<1>. USE DEF ServiceInv, TableTypeOK
<1>1. \A j \in TableSlots : /\ service_table'[j].sid = service_table[j].sid
                            /\ service_table'[j].active = service_table[j].active
                            /\ service_table'[j].delay = service_table[j].delay
  OBVIOUS
<1>2. EntriesUnique'
  BY <1>1 DEF EntriesUnique
<1>. QED BY <1>1, <1>2

\* Every step keeps the table sound.
LEMMA ServiceInvNext == ServiceInv /\ [ServiceNext]_serviceVars => ServiceInv'
<1>. SUFFICES ASSUME ServiceInv, [ServiceNext]_serviceVars PROVE ServiceInv'
  OBVIOUS
<1>1. CASE ClearServices
  <2>1. /\ service_table' = [i \in TableSlots |->
             [service_table[i] EXCEPT !.active = FALSE, !.delay = 0, !.rcrrp = "NONE"]]
        /\ UNCHANGED <<running, rcrrp_start_ms, response, ms, took>> /\ running = 0
    BY <1>1 DEF ClearServices
  <2>2. TableTypeOK'
    BY <2>1 DEF ServiceInv, TableTypeOK
  <2>3. \A i \in TableSlots : ~service_table'[i].active
    BY <2>1 DEF ServiceInv, TableTypeOK
  <2>. QED BY <2>1, <2>2, <2>3 DEF ServiceInv, EntriesUnique, TimedInv, AnswerInv
<1>2. ASSUME NEW sid \in Sids, NEW session \in UNION Masks,
             NEW ta \in {"PHYSICAL", "FUNCTIONAL"},
             NotSupported(sid, ta) \/ NotInSession(sid, session, ta)
      PROVE  ServiceInv'
  <2>1. UNCHANGED <<service_table, running, rcrrp_start_ms, ms, took>>
    BY <1>2 DEF NotSupported, NotInSession
  <2>2. PICK send \in BOOLEAN, n \in {"SNS", "SNSIAS"} :
          response' = Response(send, n, ta) /\ (send /\ ta = "FUNCTIONAL" => n = "SNSIAS")
    <3>1. CASE NotSupported(sid, ta)
      <4>1. response' = Response(ta = "PHYSICAL", "SNS", ta)
        BY <3>1 DEF NotSupported
      <4>2. (ta = "PHYSICAL") \in BOOLEAN /\ ((ta = "PHYSICAL") /\ ta = "FUNCTIONAL" => FALSE)
        OBVIOUS
      <4>. QED BY <4>1, <4>2, Zenon
    <3>2. CASE NotInSession(sid, session, ta)
      <4>1. response' = Response(TRUE, "SNSIAS", ta)
        BY <3>2 DEF NotInSession
      <4>. QED BY <4>1
    <3>. QED BY <1>2, <3>1, <3>2
  <2>3. /\ response' \in [send : BOOLEAN, nrc : {"NONE", "SNS", "SNSIAS", "CNC", "SFNS"},
                         ta : {"PHYSICAL", "FUNCTIONAL"}]
        /\ AnswerInv'
    BY <2>2 DEF Response, AnswerInv, SilentNrcs
  <2>. QED
    BY <2>1, <2>3 DEF ServiceInv, TableTypeOK, EntriesUnique, TimedInv
<1>3. ASSUME NEW sid \in Sids, NEW session \in UNION Masks,
             NEW ta \in {"PHYSICAL", "FUNCTIONAL"}, CallHandler(sid, session, ta)
      PROVE  ServiceInv'
  <2> DEFINE i == Min(Entries(sid))
             s == IF service_table[i].delay > 0 THEN "PENDING_HANDLER" ELSE service_table[i].rcrrp
  <2>1. i \in TableSlots
    BY <1>3, EntryFound DEF CallHandler
  <2>2. /\ running' = i /\ took' = 0 /\ ms' = ms
        /\ service_table' = [service_table EXCEPT ![i].rcrrp = s]
        /\ rcrrp_start_ms' = IF service_table[i].delay > 0 THEN MsClock ELSE 0
        /\ response' = Response(FALSE, "NONE", ta)
    BY <1>3 DEF CallHandler
  <2>. HIDE DEF i
  <2>3. s \in {"NONE", "SENT", "PENDING_HANDLER"}
    BY <2>1 DEF ServiceInv, TableTypeOK
  <2>. HIDE DEF s
  <2>4. /\ service_table' \in [TableSlots ->
              [sid : Sids \cup {0}, mask : SUBSET UNION Masks, delay : Delays \cup {0},
               rcrrp : {"NONE", "SENT", "PENDING_HANDLER"}, active : BOOLEAN]]
        /\ EntriesUnique'
        /\ service_table'[i].delay = service_table[i].delay
    BY <2>1, <2>2, <2>3, EntryKeepsTable
  <2>5. TableTypeOK'
    BY <2>1, <2>2, <2>4, ServiceParameters DEF TableTypeOK, TableSlots, Response
  <2>6. TimedInv' /\ AnswerInv'
    BY <2>2, <2>4 DEF ServiceInv, TimedInv, AnswerInv, MsClock, Response
  <2>. QED BY <2>4, <2>5, <2>6 DEF ServiceInv
<1>4. ASSUME NEW send \in BOOLEAN, NEW n \in {"NONE", "CNC", "SFNS"}, HandlerReturns(send, n)
      PROVE  ServiceInv'
  <2> DEFINE e == service_table[running]
             s == IF e.delay = 0 THEN e.rcrrp ELSE IF TooLate(e) THEN "SENT" ELSE "NONE"
  <2>1. running \in TableSlots
    BY <1>4, ServiceParameters DEF HandlerReturns, ServiceInv, TableTypeOK, TableSlots
  <2>2. /\ running' = 0 /\ UNCHANGED <<rcrrp_start_ms, ms, took>>
        /\ service_table' = [service_table EXCEPT ![running].rcrrp = s]
        /\ response' = Response(send /\ (response.ta = "FUNCTIONAL" => n \notin SilentNrcs),
                                n, response.ta)
    BY <1>4 DEF HandlerReturns
  <2>3. s \in {"NONE", "SENT", "PENDING_HANDLER"}
    BY <2>1 DEF ServiceInv, TableTypeOK
  <2>. HIDE DEF s
  <2>4. /\ service_table' \in [TableSlots ->
              [sid : Sids \cup {0}, mask : SUBSET UNION Masks, delay : Delays \cup {0},
               rcrrp : {"NONE", "SENT", "PENDING_HANDLER"}, active : BOOLEAN]]
        /\ EntriesUnique'
    BY <2>1, <2>2, <2>3, EntryKeepsTable
  <2>5. response'.ta = response.ta /\ response'.nrc = n
        /\ response'.send = (send /\ (response.ta = "FUNCTIONAL" => n \notin SilentNrcs))
    BY <2>2, Zenon DEF Response
  <2>6. response' \in [send : BOOLEAN, nrc : {"NONE", "SNS", "SNSIAS", "CNC", "SFNS"},
                       ta : {"PHYSICAL", "FUNCTIONAL"}]
    <3>1. response.ta \in {"PHYSICAL", "FUNCTIONAL"}
      BY DEF ServiceInv, TableTypeOK
    <3>. QED BY <2>2, <3>1 DEF Response
  <2>7. TableTypeOK'
    BY <2>2, <2>4, <2>6, ServiceParameters DEF TableTypeOK
  <2>8. TimedInv' /\ AnswerInv'
    BY <2>2, <2>5 DEF ServiceInv, TimedInv, AnswerInv
  <2>. QED BY <2>4, <2>7, <2>8 DEF ServiceInv
<1>5. CASE MsPasses
  <2>1. /\ ms' = ms + 1 /\ took' = IF running = 0 THEN took ELSE took + 1
        /\ UNCHANGED <<service_table, running, rcrrp_start_ms, response>>
    BY <1>5 DEF MsPasses
  <2>2. TimedInv'
    BY <2>1 DEF ServiceInv, TimedInv
  <2>. QED BY <2>1, <2>2 DEF ServiceInv, TableTypeOK, EntriesUnique, AnswerInv
<1>6. CASE UNCHANGED serviceVars
  BY <1>6 DEF serviceVars, ServiceInv, TableTypeOK, EntriesUnique, TimedInv, AnswerInv
<1>. QED
  BY <1>1, <1>2, <1>3, <1>4, <1>5, <1>6, RegisterKeepsService DEF ServiceNext

\* The invariant holds in every reachable state.
LEMMA ServiceInvAlways == ServiceSpec => []ServiceInv
<1>1. ServiceInit => ServiceInv
  BY ServiceParameters
  DEF ServiceInit, ServiceInv, TableTypeOK, EntriesUnique, TimedInv, AnswerInv, FreeEntry,
      Response, TableSlots
<1>. QED BY <1>1, ServiceInvNext, PTL DEF ServiceSpec

\* The table keeps its types, and a service never has two entries, whatever is
\* cleared and registered anew.
THEOREM ServiceTypeCorrect == ServiceSpec => []ServiceTypeOK
<1>1. ServiceInv => ServiceTypeOK
  <2>. SUFFICES ASSUME ServiceInv, NEW sid \in Sids PROVE Cardinality(Entries(sid)) <= 1
    BY DEF ServiceInv, TableTypeOK, ServiceTypeOK
  <2>1. \A i, j \in Entries(sid) : i = j
    BY DEF ServiceInv, EntriesUnique, Entries
  <2>2. CASE Entries(sid) = {}
    BY <2>2, FS_EmptySet
  <2>3. CASE Entries(sid) # {}
    <3>1. PICK i : i \in Entries(sid)
      BY <2>3
    <3>2. Entries(sid) = {i}
      BY <2>1, <3>1
    <3>3. Cardinality({i}) = 1
      BY FS_Singleton
    <3>. QED BY <3>2, <3>3
  <2>. QED BY <2>2, <2>3
<1>. QED BY <1>1, ServiceInvAlways, PTL

\* An entry says that a response-pending message is due exactly if its handler
\* ran for its delay or longer, across a wrap of the clock too; and no
\* functionally addressed request is ever answered with what such a request must
\* not hear.
THEOREM DispatchAlwaysSound == ServiceSpec => DispatchOutcome
<1> DEFINE e == service_table[running]
<1>1. ASSUME ServiceInv, [ServiceNext]_serviceVars
      PROVE  [running # 0 /\ running' = 0 /\ took < MsSize /\ service_table[running].delay > 0 =>
                (service_table'[running].rcrrp = "SENT" <=> took >= service_table[running].delay)
             ]_serviceVars
  <2>. SUFFICES ASSUME running # 0, running' = 0, took < MsSize, e.delay > 0
                PROVE  service_table'[running].rcrrp = "SENT" <=> took >= e.delay
    OBVIOUS
  <2>1. PICK send \in BOOLEAN, n \in {"NONE", "CNC", "SFNS"} : HandlerReturns(send, n)
    <3>1. CASE UNCHANGED serviceVars
      BY <3>1 DEF serviceVars
    <3>2. CASE ServiceNext
      BY <3>2 DEF ServiceNext, RegisterService, ClearServices, NotSupported, NotInSession,
         CallHandler, MsPasses
    <3>. QED BY <1>1, <3>1, <3>2
  <2>2. running \in TableSlots
    BY ServiceParameters, <1>1 DEF ServiceInv, TableTypeOK, TableSlots
  <2>3. service_table'[running].rcrrp = IF TooLate(e) THEN "SENT" ELSE "NONE"
    BY <1>1, <2>1, <2>2 DEF HandlerReturns, ServiceInv, TableTypeOK
  <2>4. ms \in Nat /\ took \in Nat /\ took <= ms /\ rcrrp_start_ms = (ms - took) % MsSize
    BY <1>1 DEF ServiceInv, TimedInv
  <2>5. MsSize \in Nat \ {0}
    BY <2>4, ServiceParameters
  <2>6. ((ms % MsSize) - ((ms - took) % MsSize)) % MsSize = took
    <3>1. ms - took \in Nat /\ ms - took <= ms /\ ms - (ms - took) = took
      BY <2>4
    <3>. QED BY <2>4, <2>5, <3>1, WrappedDifference
  <2>7. TooLate(e) <=> took >= e.delay
    BY <2>4, <2>6 DEF TooLate, MsClock
  <2>. QED BY <2>3, <2>7
<1>2. ServiceInv => (response.send /\ response.ta = "FUNCTIONAL" => response.nrc \notin SilentNrcs)
  BY DEF ServiceInv, AnswerInv
<1>. QED BY <1>1, <1>2, ServiceInvAlways, PTL DEF ServiceSpec, DispatchOutcome

-----------------------------------------------------------------------------
(* All the tables side by side. *)

\* Each family of steps belongs to one part, and leaves the others as they are.
LEMMA FamiliesApart ==
  ASSUME [Next]_vars
  PROVE  /\ [DtcNext]_dtcVars /\ [MemoryNext]_memoryVars /\ [DynamicNext]_dynamicVars
         /\ [IoNext]_<<dataVars, ioVars>> /\ [ServiceNext]_serviceVars
<1>1. CASE UNCHANGED vars
  BY <1>1 DEF vars
<1>2. CASE Next
  <2>1. [DtcNext]_dtcVars
    BY <1>2 DEF Next
  <2>2. [MemoryNext]_memoryVars
    BY <1>2 DEF Next
  <2>3. [DynamicNext]_dynamicVars
    BY <1>2 DEF Next
  <2>4. [IoNext]_<<dataVars, ioVars>>
    BY <1>2 DEF Next, IoNext, DataNext
  <2>5. [ServiceNext]_serviceVars
    BY <1>2 DEF Next
  <2>. QED BY <2>1, <2>2, <2>3, <2>4, <2>5
<1>. QED BY <1>1, <1>2

\* Every table of the services keeps its types, whatever is registered, stored,
\* defined, read, overridden and dispatched: a code has one record, a slot that
\* is not in use is blank, and a buffer holds all the bytes of its identifier.
THEOREM DiagnosticsTypeCorrect == Spec => []TypeOK
<1>1. Spec => DtcSpec /\ MemorySpec /\ DynamicSpec /\ IoSpec /\ ServiceSpec
  <2>1. Init => DtcInit /\ MemoryInit /\ DynamicInit /\ DataInit /\ IoInit /\ ServiceInit
    BY DEF Init
  <2>. QED BY <2>1, FamiliesApart, PTL
       DEF Spec, DtcSpec, MemorySpec, DynamicSpec, IoSpec, ServiceSpec
<1>2. IoInv /\ DataInv => IoTypeOK /\ DataTypeOK
  BY DEF IoInv, DataInv, DataTypeOK
<1>3. DtcTypeOK /\ OneRecordEach /\ DataTypeOK /\ MemoryTypeOK /\ DynamicTypeOK /\ IoTypeOK
      /\ ServiceTypeOK => TypeOK
  BY DEF TypeOK
<1>. QED BY <1>1, <1>2, <1>3, DtcTypeCorrect, AlwaysOneRecordEach, MemoryTypeCorrect,
            DynamicTypeCorrect, IoAlwaysInv, ServiceTypeCorrect, PTL
=============================================================================
