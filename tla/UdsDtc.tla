------------------------------- MODULE UdsDtc -------------------------------
(***************************************************************************)
(* The DTC database (uds_dtc) and the two services on it (uds_svc_stored). *)
(* The database is a table; the code 0 marks an empty record.  Clearing    *)
(* leaves holes, so a code is looked for in the whole table, and a new one *)
(* takes the first hole.                                                   *)
(***************************************************************************)
EXTENDS Naturals, Sequences, FiniteSets, FiniteSetsExt

CONSTANTS
  Dtcs,       \* trouble codes the application reports: 24 bits, never 0
  Bits,       \* bits of a status byte
  Contents,   \* snapshots and extended records the application hands over
  RecordMax,  \* longest of these that is stored
  DbSize,     \* UDS_DTC_MAX
  Groups      \* groupOfDTC values the tester sends

ASSUME DtcParameters ==
  /\ Dtcs \subseteq Nat \ {0}
  /\ Groups \subseteq Nat
  /\ \A c \in Contents : Len(c) \in Nat
  /\ DbSize \in Nat /\ RecordMax \in Nat

VARIABLES
  dtc_db,  \* the table of records
  event    \* history: the last call and what it answered

dtcVars == <<dtc_db, event>>

AllGroups == 16777215
Indices == 1 .. DbSize
Empty == [dtc |-> 0, status |-> {}, snapshot |-> <<>>, extended |-> <<>>]

Call(op, d) ==
  [op |-> op, dtc |-> d, bits |-> {}, data |-> <<>>, nrc |-> "NONE",
   list |-> {}, count |-> 0]

\* uds_dtc_init
DtcInit ==
  /\ dtc_db = [i \in Indices |-> Empty]
  /\ event = Call("init", 0)

\* Mutated form of FindIndex: the search stops at a hole.
FindIndexPacked(d) ==
  LET found == {i \in Indices : /\ dtc_db[i].dtc = d
                                /\ \A j \in 1 .. i - 1 : dtc_db[j].dtc # 0} IN
  IF found = {} THEN 0 ELSE Min(found)

\* find_dtc_index; 0 stands for -1.
FindIndex(d) ==
  LET found == {i \in Indices : dtc_db[i].dtc = d} IN
  IF found = {} THEN 0 ELSE Min(found)

\* find_or_create_dtc: the index, and the record that is there or is created.
FindOrCreate(d) == IF FindIndex(d) # 0 THEN FindIndex(d) ELSE FindIndex(0)
Record(d) == IF FindIndex(d) # 0 THEN dtc_db[FindIndex(d)] ELSE [Empty EXCEPT !.dtc = d]

Stores(index, d) == d # 0 /\ index # 0

Store(index, d, r) ==
  dtc_db' = IF Stores(index, d) THEN [dtc_db EXCEPT ![index] = r] ELSE dtc_db

-----------------------------------------------------------------------------
(* The application's calls. *)

\* uds_dtc_set_status(d, b, true); a full database drops it silently.
SetStatus(d, b) ==
  /\ Store(FindOrCreate(d), d, [Record(d) EXCEPT !.status = @ \cup b])
  /\ event' = [Call(IF d = 0 THEN "refused" ELSE "set", d) EXCEPT !.bits = b]

\* uds_dtc_set_status(d, b, false)
ClearStatus(d, b) ==
  /\ Store(FindIndex(d), d, [Record(d) EXCEPT !.status = @ \ b])
  /\ event' = [Call(IF d = 0 THEN "refused" ELSE "unset", d) EXCEPT !.bits = b]

Legal(d, c) == d # 0 /\ Len(c) \in 1 .. RecordMax

Outcome(d) == IF FindOrCreate(d) = 0 THEN "FULL" ELSE "NONE"

RejectRecord(d, c) ==
  /\ ~Legal(d, c)
  /\ event' = [Call("refused", d) EXCEPT !.data = c]
  /\ UNCHANGED dtc_db

\* uds_dtc_set_snapshot and uds_dtc_set_extended
SetSnapshot(d, c) ==
  /\ Legal(d, c)
  /\ Store(FindOrCreate(d), d, [Record(d) EXCEPT !.snapshot = c])
  /\ event' = [Call("snapshot", d) EXCEPT !.data = c, !.nrc = Outcome(d)]

SetExtended(d, c) ==
  /\ Legal(d, c)
  /\ Store(FindOrCreate(d), d, [Record(d) EXCEPT !.extended = c])
  /\ event' = [Call("extended", d) EXCEPT !.data = c, !.nrc = Outcome(d)]

-----------------------------------------------------------------------------
(* 0x19 ReadDTCInformation. *)

\* uds_dtc_get_status: 0 for a code that is not known.
GetStatus(d) == IF FindIndex(d) # 0 THEN dtc_db[FindIndex(d)].status ELSE {}

\* uds_dtc_get_by_status_mask
ByStatusMask(mask) ==
  {i \in Indices : dtc_db[i].dtc # 0 /\ dtc_db[i].status \cap mask # {}}

\* Subfunctions 0x01, 0x02 and 0x0A: the codes are taken from the table, then
\* the status of each is looked up by its code.
Report(mask) ==
  LET found == ByStatusMask(mask) IN
  /\ event' = [Call("report", 0) EXCEPT
                 !.bits = UNION {GetStatus(dtc_db[i].dtc) : i \in found},
                 !.list = {<<dtc_db[i].dtc, GetStatus(dtc_db[i].dtc)>> : i \in found},
                 !.count = Cardinality(found)]
  /\ UNCHANGED dtc_db

\* reportSupportedDTC asks for any status bit.
ReportSupported == Report(Bits)

\* Subfunction 0x06: record 1 is the snapshot, 2 the extended data.
RecordOf(d, field) ==
  IF FindIndex(d) = 0 THEN <<>>
  ELSE IF field = 1 THEN dtc_db[FindIndex(d)].snapshot
  ELSE dtc_db[FindIndex(d)].extended

ReadRecord(d, field) ==
  /\ event' = [Call("read", d) EXCEPT
                 !.data = RecordOf(d, field),
                 !.nrc = IF RecordOf(d, field) = <<>> THEN "ROOR" ELSE "NONE"]
  /\ UNCHANGED dtc_db

\* A positive answer the tester asked not to send.
Suppressed ==
  /\ event' = Call("suppressed", 0)
  /\ UNCHANGED dtc_db

\* Unknown subfunction, wrong length, unknown record number.
BadRead ==
  /\ \E nrc \in {"SFNS", "IMLOIF", "ROOR"} : event' = [Call("refused", 0) EXCEPT !.nrc = nrc]
  /\ UNCHANGED dtc_db

-----------------------------------------------------------------------------
(* 0x14 ClearDiagnosticInformation. *)

\* Bits 23 to 20 of a code.
Group(d) == (d \div 1048576) % 16

\* Mutated form of Clears: a code that has a snapshot is spared.
ClearsSome(d, g) == (g = AllGroups \/ Group(d) = g % 16) /\ RecordOf(d, 1) = <<>>

\* uds_dtc_clear compares a code's group with the low nibble of its argument.
Clears(d, g) == g = AllGroups \/ Group(d) = g % 16

ClearRefusal(default, unlocked, complete) ==
  IF default THEN "CNC"
  ELSE IF ~unlocked THEN "SAD"
  ELSE IF ~complete THEN "IMLOIF"
  ELSE "NONE"

ClearDiagnosticInfo(g, default, unlocked, complete) ==
  LET nrc == ClearRefusal(default, unlocked, complete) IN
  /\ dtc_db' = [i \in Indices |->
                  IF nrc = "NONE" /\ dtc_db[i].dtc # 0 /\ Clears(dtc_db[i].dtc, g)
                  THEN Empty ELSE dtc_db[i]]
  /\ event' = [Call(IF nrc = "NONE" THEN "clear" ELSE "refused", g) EXCEPT !.nrc = nrc]

\* What the application calls, and what uds_svc_read_dtc_info answers.
ApplicationCall ==
  \/ \E d \in Dtcs \cup {0}, b \in SUBSET Bits : SetStatus(d, b) \/ ClearStatus(d, b)
  \/ \E d \in Dtcs \cup {0}, c \in Contents :
       RejectRecord(d, c) \/ SetSnapshot(d, c) \/ SetExtended(d, c)

ReadDtcInfo ==
  \/ \E mask \in SUBSET Bits : Report(mask)
  \/ ReportSupported
  \/ \E d \in Dtcs \cup {0}, field \in {1, 2} : ReadRecord(d, field)
  \/ Suppressed \/ BadRead

DtcNext ==
  \/ ApplicationCall
  \/ ReadDtcInfo
  \/ \E g \in Groups, default, unlocked, complete \in BOOLEAN :
       ClearDiagnosticInfo(g, default, unlocked, complete)

DtcSpec == DtcInit /\ [][DtcNext]_dtcVars

-----------------------------------------------------------------------------
DtcRecord == [dtc : Dtcs, status : SUBSET Bits,
              snapshot : Contents \cup {<<>>}, extended : Contents \cup {<<>>}]

\* Types; a record without a code is blank, so that nothing of a forgotten
\* trouble code is left for the next one that takes its place.
DtcTypeOK == dtc_db \in [Indices -> DtcRecord \cup {Empty}]

\* A code has one record, whatever holes were left when its record was made.
OneRecordEach ==
  \A i, j \in Indices : dtc_db[i].dtc = dtc_db[j].dtc /\ dtc_db[i].dtc # 0 => i = j

\* The table is a store of at most DbSize codes: a call changes the record of
\* its own code only, clearing forgets whole groups, and every report shows
\* what is stored, each code once, with its own status.
StoreOf ==
  [d \in {dtc_db[i].dtc : i \in Indices} \ {0} |->
     LET r == dtc_db[CHOOSE i \in Indices : dtc_db[i].dtc = d] IN
     [status |-> r.status, snapshot |-> r.snapshot, extended |-> r.extended]]

Abstract == INSTANCE DtcStore WITH store <- StoreOf, Capacity <- DbSize
ImplementsStore == Abstract!Spec
=============================================================================
