----------------------------- MODULE UdsService -----------------------------
(***************************************************************************)
(* The dispatch engine (uds_service): the table of services and            *)
(* uds_service_dispatch_ex, which calls a handler and then decides, by the *)
(* millisecond clock, whether the handler took so long that the tester     *)
(* should first be told to wait, and, by the addressing, whether the       *)
(* answer may be sent at all.  What a handler answers is its own affair.   *)
(*                                                                         *)
(* ms and took are history variables: the time that does not wrap, and how *)
(* long the last handler ran.                                              *)
(***************************************************************************)
EXTENDS Naturals, FiniteSets, FiniteSetsExt

CONSTANTS
  Sids,        \* service identifiers
  Masks,       \* session masks, as sets of sessions
  Delays,      \* rcrrp_delay_ms
  TableMax,    \* UDS_SERVICE_TABLE_MAX
  MsSize,      \* values of the uint32_t clock
  LastMs       \* bound on ms

ASSUME ServiceParameters ==
  /\ TableMax \in Nat \ {0} /\ LastMs \in Nat
  /\ MsSize \in Nat /\ Delays \subseteq 0 .. MsSize - 1

VARIABLES
  service_table,  \* g_service_table
  running,        \* the slot whose handler runs, 0 for none
  rcrrp_start_ms, \* clock when it was called
  response,       \* what the last dispatch returned: whether to send, and the NRC
  ms, took        \* history

serviceVars == <<service_table, running, rcrrp_start_ms, response, ms, took>>

TableSlots == 1 .. TableMax
FreeEntry == [sid |-> 0, mask |-> {}, delay |-> 0, rcrrp |-> "NONE", active |-> FALSE]
Response(send, n, ta) == [send |-> send, nrc |-> n, ta |-> ta]

\* The table before uds_service_init fills it.
ServiceInit ==
  /\ service_table = [i \in TableSlots |-> FreeEntry]
  /\ running = 0 /\ rcrrp_start_ms = 0 /\ took = 0
  /\ response = Response(FALSE, "NONE", "PHYSICAL")
  /\ ms = 0

Entries(sid) == {i \in TableSlots : service_table[i].active /\ service_table[i].sid = sid}
FreeEntries == {i \in TableSlots : ~service_table[i].active}

MayRegisterService(sid) == Entries(sid) = {} /\ FreeEntries # {}

\* uds_service_register_ex; otherwise it only returns false.
RegisterService(sid, mask, delay) ==
  /\ running = 0
  /\ MayRegisterService(sid)
  /\ service_table' = [service_table EXCEPT ![Min(FreeEntries)] =
       [sid |-> sid, mask |-> mask, delay |-> delay, rcrrp |-> "NONE", active |-> TRUE]]
  /\ UNCHANGED <<running, rcrrp_start_ms, response, ms, took>>

\* uds_service_clear leaves the identifiers and masks of the entries behind.
ClearServices ==
  /\ running = 0
  /\ service_table' = [i \in TableSlots |->
       [service_table[i] EXCEPT !.active = FALSE, !.delay = 0, !.rcrrp = "NONE"]]
  /\ UNCHANGED <<running, rcrrp_start_ms, response, ms, took>>

-----------------------------------------------------------------------------
(* uds_service_dispatch_ex *)

MsClock == ms % MsSize

NotSupported(sid, ta) ==
  /\ running = 0 /\ Entries(sid) = {}
  /\ response' = Response(ta = "PHYSICAL", "SNS", ta)
  /\ UNCHANGED <<service_table, running, rcrrp_start_ms, ms, took>>

NotInSession(sid, session, ta) ==
  /\ running = 0 /\ Entries(sid) # {}
  /\ session \notin service_table[Min(Entries(sid))].mask
  /\ response' = Response(TRUE, "SNSIAS", ta)
  /\ UNCHANGED <<service_table, running, rcrrp_start_ms, ms, took>>

\* The handler is called; the clock is only read if the entry has a delay.
CallHandler(sid, session, ta) ==
  LET i == Min(Entries(sid))
      e == service_table[i] IN
  /\ running = 0 /\ Entries(sid) # {} /\ session \in e.mask
  /\ running' = i
  /\ service_table' = [service_table EXCEPT ![i].rcrrp =
                         IF e.delay > 0 THEN "PENDING_HANDLER" ELSE @]
  /\ rcrrp_start_ms' = IF e.delay > 0 THEN MsClock ELSE 0
  /\ response' = Response(FALSE, "NONE", ta)
  /\ took' = 0
  /\ UNCHANGED ms

\* Mutated form of TooLate: the clock is compared with a deadline that wraps.
TooLateDeadline(e) == MsClock >= (rcrrp_start_ms + e.delay) % MsSize

\* The subtraction is one of uint32_t.
TooLate(e) == (MsClock - rcrrp_start_ms) % MsSize >= e.delay

\* NRCs a functionally addressed tester is not sent.
SilentNrcs == {"SNS", "SFNS", "ROOR"}

\* The handler returns whether to answer, and with what.
HandlerReturns(send, n) ==
  LET e == service_table[running] IN
  /\ running # 0
  /\ service_table' = [service_table EXCEPT ![running].rcrrp =
       IF e.delay = 0 THEN @ ELSE IF TooLate(e) THEN "SENT" ELSE "NONE"]
  /\ response' = Response(send /\ (response.ta = "FUNCTIONAL" => n \notin SilentNrcs),
                          n, response.ta)
  /\ running' = 0
  /\ UNCHANGED <<rcrrp_start_ms, ms, took>>

MsPasses ==
  /\ ms < LastMs
  /\ ms' = ms + 1
  /\ took' = IF running = 0 THEN took ELSE took + 1
  /\ UNCHANGED <<service_table, running, rcrrp_start_ms, response>>

ServiceNext ==
  \/ \E sid \in Sids, mask \in Masks, delay \in Delays : RegisterService(sid, mask, delay)
  \/ ClearServices
  \/ \E sid \in Sids, session \in UNION Masks, ta \in {"PHYSICAL", "FUNCTIONAL"} :
       NotSupported(sid, ta) \/ NotInSession(sid, session, ta) \/ CallHandler(sid, session, ta)
  \/ \E send \in BOOLEAN, n \in {"NONE", "CNC", "SFNS"} : HandlerReturns(send, n)
  \/ MsPasses

ServiceSpec == ServiceInit /\ [][ServiceNext]_serviceVars

-----------------------------------------------------------------------------
(* Types; a service has one entry, through any clearing and registering anew. *)
ServiceTypeOK ==
  /\ service_table \in [TableSlots ->
       [sid : Sids \cup {0}, mask : SUBSET UNION Masks, delay : Delays \cup {0},
        rcrrp : {"NONE", "SENT", "PENDING_HANDLER"}, active : BOOLEAN]]
  /\ running \in 0 .. TableMax
  /\ \A sid \in Sids : Cardinality(Entries(sid)) <= 1

\* A functionally addressed tester never hears of a service, subfunction or
\* identifier the ECU lacks; and an entry's state tells that a response-pending
\* message is due exactly if its handler's last run took its delay or longer,
\* whenever the clock wraps during that run.
DispatchOutcome ==
  /\ [](response.send /\ response.ta = "FUNCTIONAL" => response.nrc \notin SilentNrcs)
  /\ [][running # 0 /\ running' = 0 /\ took < MsSize /\ service_table[running].delay > 0 =>
          (service_table'[running].rcrrp = "SENT" <=> took >= service_table[running].delay)
       ]_serviceVars
=============================================================================
