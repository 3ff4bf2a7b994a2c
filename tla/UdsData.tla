------------------------------ MODULE UdsData -------------------------------
(***************************************************************************)
(* The registry of data identifiers (uds_data) and the services that read  *)
(* and write them (0x22, 0x24, 0x2E) or schedule their periodic sending    *)
(* (0x2A) in uds_svc_data.  Identifiers are never removed, and nothing ever *)
(* ends a schedule, so both tables are sequences.                          *)
(***************************************************************************)
EXTENDS Naturals, Sequences, FiniteSets

CONSTANTS
  DefaultDids,   \* the entries uds_did_init registers
  Dids,          \* the entries the integrator registers
  UnknownDids,   \* identifiers the tester asks for that no entry has
  DidMax,        \* DID_MAX_ENTRIES
  Values,        \* what the tester writes, and what read callbacks return
  BlankByte,     \* byte a data buffer holds at first
  RspMax,        \* bytes of the response buffer
  Scaling,       \* bytes of scaling data 0x24 appends
  PeriodicIds,   \* periodic identifiers the tester asks for
  PeriodicMax    \* PERIODIC_DID_MAX

Access == {"READ_ONLY", "WRITE_ONLY", "READ_WRITE", "SECURED_READ", "SECURED_WRITE"}

\* uds_did_entry_t; callbacks: on_read and on_write are set.
DidEntry == [did : Nat, len : Nat, access : Access, callbacks : BOOLEAN]

DidBytes == {BlankByte} \cup UNION {{v[i] : i \in DOMAIN v} : v \in Values}

ASSUME DataParameters ==
  /\ Values \subseteq Seq(DidBytes)
  /\ Dids \subseteq DidEntry
  /\ DefaultDids \in Seq(DidEntry)
  /\ \A i, j \in 1 .. Len(DefaultDids) : DefaultDids[i].did = DefaultDids[j].did => i = j
  /\ DidMax \in Nat /\ Len(DefaultDids) <= DidMax
  /\ RspMax \in Nat /\ Scaling \in Nat /\ PeriodicMax \in Nat

VARIABLES
  did_registry,  \* the entries registered
  did_data,      \* the data buffers of these
  periodic,      \* the active entries of g_periodic_dids
  data_rsp       \* the last answer: an NRC or "NONE", and the data it carries

dataVars == <<did_registry, did_data, periodic, data_rsp>>

Blanks(n) == [i \in 1 .. n |-> BlankByte]

\* uds_did_init, and the schedule in uds_svc_data_init
DataInit ==
  /\ did_registry = DefaultDids
  /\ did_data = [i \in 1 .. Len(DefaultDids) |-> Blanks(DefaultDids[i].len)]
  /\ periodic = <<>>
  /\ data_rsp = [nrc |-> "NONE", data |-> <<>>]

DataAnswer(nrc, data) == data_rsp' = [nrc |-> nrc, data |-> data]

\* Mutated form of MayRegisterDid: an identifier may be registered twice.
MayRegisterDidTwice(e) == Len(did_registry) < DidMax

DidIndices == 1 .. Len(did_registry)

\* find_did_index, as the indices it may return: an identifier has one entry.
Found(did) == {i \in DidIndices : did_registry[i].did = did}

MayRegisterDid(e) == Found(e.did) = {} /\ Len(did_registry) < DidMax

\* uds_did_register; otherwise it only returns false.
RegisterDid(e) ==
  /\ MayRegisterDid(e)
  /\ did_registry' = Append(did_registry, e)
  /\ did_data' = Append(did_data, Blanks(e.len))
  /\ UNCHANGED <<periodic, data_rsp>>

-----------------------------------------------------------------------------
(* uds_did_read and uds_did_write. *)

Readable(e, unlocked) ==
  \/ e.access \in {"READ_ONLY", "READ_WRITE"}
  \/ e.access = "SECURED_READ" /\ unlocked

Writable(e, unlocked) ==
  \/ e.access \in {"WRITE_ONLY", "READ_WRITE"}
  \/ e.access = "SECURED_WRITE" /\ unlocked

\* What uds_did_read may copy out of entry i; nothing if it returns false.
Readings(i, capacity, unlocked) ==
  LET e == did_registry[i] IN
  IF ~Readable(e, unlocked) \/ capacity < e.len THEN {}
  ELSE IF e.callbacks THEN {v \in Values : Len(v) <= e.len}
  ELSE {did_data[i]}

\* A read callback may fail.
ReadFails(i, capacity, unlocked) ==
  Readings(i, capacity, unlocked) = {} \/ did_registry[i].callbacks

\* memcpy over the entry's buffer: the rest keeps its bytes.
Overlay(old, new) ==
  [k \in 1 .. Len(old) |-> IF k <= Len(new) THEN new[k] ELSE old[k]]

WriteFits(e, v, unlocked) == Writable(e, unlocked) /\ Len(v) \in 1 .. e.len

-----------------------------------------------------------------------------
(* The services. *)

\* No context, a request too short, an unknown identifier or mode.
BadDataRequest ==
  /\ \E nrc \in {"CNC", "IMLOIF", "ROOR"} : DataAnswer(nrc, <<>>)
  /\ UNCHANGED <<did_registry, did_data, periodic>>

ReadRefusal(e, unlocked) ==
  IF e.access = "SECURED_READ" /\ ~unlocked THEN "SAD" ELSE "ROOR"

\* 0x22 ReadDataByIdentifier
ReadDataById(i, unlocked) ==
  /\ \/ /\ ReadFails(i, RspMax, unlocked)
        /\ DataAnswer(ReadRefusal(did_registry[i], unlocked), <<>>)
     \/ \E v \in Readings(i, RspMax, unlocked) :
          IF Len(v) + 2 > RspMax THEN DataAnswer("RTL", <<>>) ELSE DataAnswer("NONE", v)
  /\ UNCHANGED <<did_registry, did_data, periodic>>

\* 0x24 ReadScalingDataByIdentifier
ReadScalingData(i, unlocked) ==
  /\ \/ ReadFails(i, RspMax, unlocked) /\ DataAnswer("ROOR", <<>>)
     \/ \E v \in Readings(i, RspMax, unlocked) :
          IF Len(v) + 2 + Scaling > RspMax THEN DataAnswer("RTL", <<>>) ELSE DataAnswer("NONE", v)
  /\ UNCHANGED <<did_registry, did_data, periodic>>

WriteRefusal(e, v, unlocked) ==
  IF v = <<>> THEN "IMLOIF"
  ELSE IF e.access = "SECURED_WRITE" /\ ~unlocked THEN "SAD"
  ELSE "ROOR"

\* 0x2E WriteDataByIdentifier; a write callback keeps the data elsewhere and
\* may fail.
WriteDataById(i, v, unlocked) ==
  LET e == did_registry[i] IN
  /\ \/ /\ ~WriteFits(e, v, unlocked) \/ e.callbacks
        /\ DataAnswer(WriteRefusal(e, v, unlocked), <<>>)
        /\ UNCHANGED did_data
     \/ /\ WriteFits(e, v, unlocked)
        /\ DataAnswer("NONE", <<>>)
        /\ did_data' = IF e.callbacks THEN did_data
                       ELSE [did_data EXCEPT ![i] = Overlay(@, v)]
  /\ UNCHANGED <<did_registry, periodic>>

Schedulable(source) == Found(source) # {} /\ Len(periodic) < PeriodicMax

\* 0x2A ReadDataByPeriodicIdentifier: every request takes a free slot.
Schedule(mode, id, source) ==
  /\ IF Schedulable(source)
     THEN /\ periodic' = Append(periodic, [mode |-> mode, id |-> id, source |-> source])
          /\ DataAnswer("NONE", <<>>)
     ELSE UNCHANGED periodic /\ DataAnswer("ROOR", <<>>)
  /\ UNCHANGED <<did_registry, did_data>>

Asked == {did_registry[i].did : i \in DidIndices} \cup UnknownDids

DataNext ==
  \/ \E e \in Dids : RegisterDid(e)
  \/ BadDataRequest
  \/ \E i \in DidIndices, unlocked \in BOOLEAN :
       \/ ReadDataById(i, unlocked)
       \/ ReadScalingData(i, unlocked)
       \/ \E v \in Values : WriteDataById(i, v, unlocked)
  \/ \E mode \in 1 .. 3, id \in PeriodicIds, source \in Asked : Schedule(mode, id, source)

DataSpec == DataInit /\ [][DataNext]_dataVars

-----------------------------------------------------------------------------
(* Types; a buffer always holds all the bytes of its identifier. *)
DataTypeOK ==
  /\ did_registry \in Seq(DidEntry) /\ Len(did_registry) <= DidMax
  /\ Len(did_data) = Len(did_registry)
  /\ \A i \in DidIndices : Len(did_data[i]) = did_registry[i].len
  /\ Len(periodic) <= PeriodicMax

\* No identifier is registered twice, so every service means the same entry by
\* it, and what is scheduled stays readable: its source is registered.
DidsConsistent ==
  /\ \A i, j \in DidIndices : did_registry[i].did = did_registry[j].did => i = j
  /\ \A k \in 1 .. Len(periodic) : Found(periodic[k].source) # {}
=============================================================================
