------------------------------ MODULE UdsEvents ------------------------------
(***************************************************************************)
(* ResponseOnEvent (0x86 in uds_svc_diagcomm): a store of event settings.  *)
(* When it is full, a further event is answered positively and dropped;    *)
(* the length of an event's data is counted in a uint8_t and then cut.     *)
(*                                                                         *)
(* requested is a history variable: the events asked for since the store   *)
(* was last cleared, up to as many as it has slots.                        *)
(***************************************************************************)
EXTENDS Integers, Sequences, FiniteSets, FiniteSetsExt

CONSTANTS
  EventMax,       \* UDS_EVENT_STORE_MAX
  EventDataMax,   \* bytes of an event record's data
  LengthSize,     \* values of a uint8_t
  EventTypes, EventData   \* what the tester sends

ASSUME EventParameters ==
  /\ EventMax \in Nat \ {0} /\ EventDataMax \in Nat
  /\ LengthSize \in Nat /\ EventDataMax < LengthSize
  /\ \A d \in EventData : d \in Seq(Nat)

VARIABLES
  g_event_store,
  event_nrc,      \* the last answer
  requested       \* history

eventVars == <<g_event_store, event_nrc, requested>>

EventSlots == 1 .. EventMax
NoEvent == [type |-> 0, data |-> <<>>, active |-> FALSE]
ClearedStore == [i \in EventSlots |-> NoEvent]

\* uds_svc_event_store_init
EventsInit == g_event_store = ClearedStore /\ event_nrc = "NONE" /\ requested = <<>>

\* The bytes of an event's data that are stored.
StoredData(d) == SubSeq(d, 1, Min({Len(d) % LengthSize, EventDataMax}))

\* Mutated form of AddEvent: the first slot is taken where none is free, as slot
\* is set to 0 before the search.
AddEventAnyway(store, t, d) ==
  LET free == {i \in EventSlots : ~store[i].active} IN
  [store EXCEPT ![IF free = {} THEN 1 ELSE Min(free)] =
     [type |-> t, data |-> StoredData(d), active |-> TRUE]]

\* The store with an event in its first free slot, if there is one.
AddEvent(store, t, d) ==
  LET free == {i \in EventSlots : ~store[i].active} IN
  IF free = {} THEN store
  ELSE [store EXCEPT ![Min(free)] = [type |-> t, data |-> StoredData(d), active |-> TRUE]]

EventRefusal(subfn, complete) ==
  IF subfn \notin 0 .. 4 THEN "SFNS" ELSE IF ~complete THEN "IMLOIF" ELSE "NONE"

RefuseEvent(subfn, complete) ==
  /\ EventRefusal(subfn, complete) # "NONE"
  /\ event_nrc' = EventRefusal(subfn, complete)
  /\ UNCHANGED <<g_event_store, requested>>

\* stopResponseOnEvent and clearResponseOnEvent
StopEvents(subfn) ==
  /\ subfn \in {0, 2}
  /\ g_event_store' = ClearedStore
  /\ requested' = <<>>
  /\ event_nrc' = "NONE"

\* startResponseOnEvent, with storage or not; subfunction 4 clears the store first.
StartEvent(subfn, t, d) ==
  LET anew == subfn = 4
      before == IF anew THEN <<>> ELSE requested IN
  /\ subfn \in {1, 3, 4}
  /\ g_event_store' = AddEvent(IF anew THEN ClearedStore ELSE g_event_store, t, d)
  /\ requested' = IF Len(before) < EventMax THEN Append(before, [type |-> t, data |-> d])
                  ELSE before
  /\ event_nrc' = "NONE"

\* uds_svc_response_on_event; complete: the request has an event type.
ResponseOnEvent(subfn, complete, t, d) ==
  \/ RefuseEvent(subfn, complete)
  \/ complete /\ (StopEvents(subfn) \/ StartEvent(subfn, t, d))

EventsNext ==
  \E subfn \in 0 .. 5, complete \in BOOLEAN, t \in EventTypes, d \in EventData :
    ResponseOnEvent(subfn, complete, t, d)

-----------------------------------------------------------------------------
\* Types; a free slot of the store is blank.
EventsTypeOK ==
  /\ \A i \in EventSlots :
       \/ g_event_store[i] = NoEvent
       \/ /\ g_event_store[i].active /\ g_event_store[i].type \in EventTypes
          /\ Len(g_event_store[i].data) <= EventDataMax
  /\ event_nrc \in {"NONE", "SFNS", "IMLOIF", "SNSIAS"}

\* The store holds, in order, the first events asked for since it was cleared:
\* none that was answered positively displaces another, each with the beginning
\* of its own data, and all of that which fits if the request was short enough
\* for its length to be counted.
EventsAreFirst ==
  /\ \A i \in EventSlots : g_event_store[i].active <=> i <= Len(requested)
  /\ \A i \in 1 .. Len(requested) :
       LET want == requested[i] IN
       /\ g_event_store[i].type = want.type
       /\ g_event_store[i].data = SubSeq(want.data, 1, Len(g_event_store[i].data))
       /\ Len(want.data) < LengthSize =>
            Len(g_event_store[i].data) = Min({Len(want.data), EventDataMax})
=============================================================================
