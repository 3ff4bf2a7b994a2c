-------------------------- MODULE UdsTables_proofs --------------------------
(***************************************************************************)
(* The tables the services keep: trouble codes, identifiers, dynamic       *)
(* identifiers, overrides and memory regions, for any contents and sizes.  *)
(* Each keeps its types; the table of codes implements the store of        *)
(* DtcStore, the dynamic identifiers and the overrides the map of          *)
(* BoundedMap, and memory reads back what was written to it.               *)
(***************************************************************************)
EXTENDS UdsDtc, UdsDynamic, UdsIo, UdsMemory,
        FiniteSetTheorems, SequenceTheorems, WellFoundedInduction, TLAPS

\* The least of a set of indices is one of them, and none is less.
LEMMA MinFact ==
  ASSUME NEW S, S \subseteq Nat, S # {}
  PROVE  Min(S) \in S /\ \A k \in S : Min(S) <= k
<1>. DEFINE Less == {p \in Nat \X Nat : p[1] < p[2]}
<1>1. IsWellFoundedOn(Less, Nat)
  BY NatLessThanWellFounded DEF OpToRel
<1>2. PICK m \in S : \A k \in S : ~ (<<k, m>> \in Less)
  <2>. HIDE DEF Less
  <2>. QED BY <1>1, WFMin
<1>3. ASSUME NEW k \in S PROVE m <= k
  <2>1. <<k, m>> \in Nat \X Nat /\ ~ (<<k, m>> \in Less)
    BY <1>2
  <2>. QED BY <2>1
<1>. QED
  BY <1>3 DEF Min

\* A code is found exactly where it is: the index is 0 if no record has it.
LEMMA FindIndexFact ==
  ASSUME NEW d
  PROVE  \/ FindIndex(d) = 0 /\ \A i \in Indices : dtc_db[i].dtc # d
         \/ FindIndex(d) \in Indices /\ FindIndex(d) # 0 /\ dtc_db[FindIndex(d)].dtc = d
<1>. DEFINE found == {i \in Indices : dtc_db[i].dtc = d}
<1>1. CASE found = {}
  BY <1>1 DEF FindIndex
<1>2. CASE found # {}
  <2>1. found \subseteq Nat
    BY DEF Indices
  <2>2. Min(found) \in found
    <3>. HIDE DEF found
    <3>. QED BY <1>2, <2>1, MinFact
  <2>3. FindIndex(d) = Min(found)
    BY <1>2 DEF FindIndex
  <2>. QED BY <2>2, <2>3 DEF Indices
<1>. QED BY <1>1, <1>2

\* The two invariants hold each other up: that a code has one record says that
\* the record changed is the code's own.
DtcInv == DtcTypeOK /\ OneRecordEach

\* The code 0 marks an unused record; no trouble code is 0.
LEMMA NoCodeZero == 0 \notin Dtcs
  BY DtcParameters

\* What one record of the table may become while the table stays sound.
LEMMA StoreKeepsInv ==
  ASSUME DtcInv, NEW d \in Dtcs \cup {0}, NEW index, NEW r,
         index \in {FindIndex(d), FindOrCreate(d)},
         d # 0 => r \in DtcRecord /\ r.dtc = d,
         Store(index, d, r)
  PROVE  DtcInv'
<1>1. CASE ~Stores(index, d)
  BY <1>1 DEF Store, DtcInv, DtcTypeOK, OneRecordEach, DtcRecord, Empty, Indices
<1>2. CASE Stores(index, d)
  <2>1. d # 0 /\ index # 0 /\ d \in Dtcs
    BY <1>2 DEF Stores
  <2>2. index \in Indices /\ dtc_db[index].dtc \in {d, 0}
    BY <2>1, FindIndexFact DEF FindOrCreate
  <2>3. dtc_db[index].dtc = 0 => \A i \in Indices : dtc_db[i].dtc # d
    BY <2>1, FindIndexFact DEF FindOrCreate
  <2>4. dtc_db' = [dtc_db EXCEPT ![index] = r]
    BY <1>2 DEF Store
  <2>5. \A i \in Indices : dtc_db'[i] = IF i = index THEN r ELSE dtc_db[i]
    BY <2>2, <2>4 DEF DtcInv, DtcTypeOK
  <2>6. DtcTypeOK'
    BY <2>1, <2>2, <2>4 DEF DtcInv, DtcTypeOK, DtcRecord, Empty, Indices
  <2>7. ASSUME NEW i \in Indices, NEW j \in Indices,
               dtc_db'[i].dtc = dtc_db'[j].dtc, dtc_db'[i].dtc # 0
        PROVE  i = j
    <3>1. CASE i = index /\ j # index
      BY <2>1, <2>2, <2>3, <2>5, <2>7, <3>1 DEF DtcInv, OneRecordEach
    <3>2. CASE i # index /\ j = index
      BY <2>1, <2>2, <2>3, <2>5, <2>7, <3>2 DEF DtcInv, OneRecordEach
    <3>3. CASE i # index /\ j # index
      BY <2>5, <2>7, <3>3 DEF DtcInv, OneRecordEach
    <3>. QED BY <3>1, <3>2, <3>3
  <2>. QED BY <2>6, <2>7 DEF DtcInv, OneRecordEach, Indices
<1>. QED BY <1>1, <1>2

\* The record a call on a code starts from is the code's own, or a fresh one.
LEMMA RecordType ==
  ASSUME DtcInv, NEW d \in Dtcs
  PROVE  Record(d) \in DtcRecord /\ Record(d).dtc = d
<1>1. CASE FindIndex(d) = 0
  BY <1>1 DEF Record, Empty, DtcRecord
<1>2. CASE FindIndex(d) # 0
  <2>1. FindIndex(d) \in Indices /\ dtc_db[FindIndex(d)].dtc = d
    BY <1>2, FindIndexFact
  <2>2. dtc_db[FindIndex(d)] \in DtcRecord \cup {Empty} /\ d # 0
    BY <2>1, NoCodeZero DEF DtcInv, DtcTypeOK
  <2>. QED BY <1>2, <2>1, <2>2 DEF Record, Empty
<1>. QED BY <1>1, <1>2

\* An empty table is sound.
LEMMA DtcInitInv == DtcInit => DtcInv
  BY DEF DtcInit, DtcInv, DtcTypeOK, OneRecordEach, Empty, Indices

\* Every call and every request keeps the table sound.
LEMMA DtcNextInv == DtcInv /\ [DtcNext]_dtcVars => DtcInv'
<1>. SUFFICES ASSUME DtcInv, [DtcNext]_dtcVars PROVE DtcInv'
  OBVIOUS
<1>1. UNCHANGED dtc_db => DtcInv'
  BY DEF DtcInv, DtcTypeOK, OneRecordEach, Indices, DtcRecord, Empty
<1>2. ASSUME NEW d \in Dtcs \cup {0}, NEW b \in SUBSET Bits, SetStatus(d, b)
      PROVE  DtcInv'
  <2>. DEFINE r == [Record(d) EXCEPT !.status = @ \cup b]
  <2>1. d # 0 => r \in DtcRecord /\ r.dtc = d
    BY RecordType DEF DtcRecord
  <2>2. Store(FindOrCreate(d), d, r)
    BY <1>2 DEF SetStatus
  <2>. HIDE DEF r
  <2>. QED BY <2>1, <2>2, StoreKeepsInv
<1>3. ASSUME NEW d \in Dtcs \cup {0}, NEW b \in SUBSET Bits, ClearStatus(d, b)
      PROVE  DtcInv'
  <2>. DEFINE r == [Record(d) EXCEPT !.status = @ \ b]
  <2>1. d # 0 => r \in DtcRecord /\ r.dtc = d
    BY RecordType DEF DtcRecord
  <2>2. Store(FindIndex(d), d, r)
    BY <1>3 DEF ClearStatus
  <2>. HIDE DEF r
  <2>. QED BY <2>1, <2>2, StoreKeepsInv
<1>4. ASSUME NEW d \in Dtcs \cup {0}, NEW c \in Contents, SetSnapshot(d, c)
      PROVE  DtcInv'
  <2>. DEFINE r == [Record(d) EXCEPT !.snapshot = c]
  <2>1. d # 0 => r \in DtcRecord /\ r.dtc = d
    BY RecordType DEF DtcRecord
  <2>2. Store(FindOrCreate(d), d, r)
    BY <1>4 DEF SetSnapshot
  <2>. HIDE DEF r
  <2>. QED BY <2>1, <2>2, StoreKeepsInv
<1>5. ASSUME NEW d \in Dtcs \cup {0}, NEW c \in Contents, SetExtended(d, c)
      PROVE  DtcInv'
  <2>. DEFINE r == [Record(d) EXCEPT !.extended = c]
  <2>1. d # 0 => r \in DtcRecord /\ r.dtc = d
    BY RecordType DEF DtcRecord
  <2>2. Store(FindOrCreate(d), d, r)
    BY <1>5 DEF SetExtended
  <2>. HIDE DEF r
  <2>. QED BY <2>1, <2>2, StoreKeepsInv
<1>6. ASSUME NEW g, NEW default, NEW unlocked, NEW complete,
             ClearDiagnosticInfo(g, default, unlocked, complete)
      PROVE  DtcInv'
  <2>1. \A i \in Indices : dtc_db'[i] \in {dtc_db[i], Empty}
    BY <1>6 DEF ClearDiagnosticInfo
  <2>2. DtcTypeOK'
    BY <1>6, <2>1 DEF ClearDiagnosticInfo, DtcInv, DtcTypeOK, Indices, DtcRecord, Empty
  <2>3. OneRecordEach'
    BY <2>1 DEF DtcInv, OneRecordEach, Empty, Indices
  <2>. QED BY <2>2, <2>3 DEF DtcInv
<1>7. CASE UNCHANGED dtcVars
  BY <1>1, <1>7 DEF dtcVars
<1>8. CASE DtcNext
  BY <1>1, <1>2, <1>3, <1>4, <1>5, <1>6, <1>8
     DEF DtcNext, ApplicationCall, ReadDtcInfo, RejectRecord, ReportSupported, Report, ReadRecord, Suppressed, BadRead
<1>. QED BY <1>7, <1>8

\* The invariant holds of every state of the table.
LEMMA DtcAlwaysInv == DtcSpec => []DtcInv
  BY DtcInitInv, DtcNextInv, PTL DEF DtcSpec

\* The table keeps its types; a record that is not in use is blank.
THEOREM DtcTypeCorrect == DtcSpec => []DtcTypeOK
  BY DtcAlwaysInv, PTL DEF DtcInv

\* No code ever has two records, whatever holes clearing leaves (find_or_create_dtc).
THEOREM AlwaysOneRecordEach == DtcSpec => []OneRecordEach
  BY DtcAlwaysInv, PTL DEF DtcInv

-----------------------------------------------------------------------------
(* The table implements the store. *)

\* The two modules mean the same by a cardinality.
LEMMA SameCardinality == \A S : Abstract!Cardinality(S) = Cardinality(S)
  BY Zenon DEF Abstract!Cardinality, Cardinality, Abstract!IsFiniteSet, IsFiniteSet

\* What corresponds one to one with a finite set has as many members.
LEMMA BijectionCounts ==
  ASSUME NEW S, IsFiniteSet(S), NEW T, NEW f \in [S -> T],
         \A x, y \in S : f[x] = f[y] => x = y,
         \A t \in T : \E x \in S : f[x] = t
  PROVE  Cardinality(T) = Cardinality(S)
<1>1. f \in Bijection(S, T)
  BY DEF Bijection, Injection, Surjection, IsInjective
<1>. QED BY <1>1, FS_Bijection DEF ExistsBijection

\* What the store remembers of a record.
Content(r) == [status |-> r.status, snapshot |-> r.snapshot, extended |-> r.extended]

Codes == {dtc_db[i].dtc : i \in Indices} \ {0}

\* The store knows the codes that some record has.
LEMMA StoreDomain == DOMAIN StoreOf = Codes
  BY DEF StoreOf, Codes

\* The store shows of a code what its one record holds.
LEMMA StoreShows ==
  ASSUME OneRecordEach, NEW i \in Indices, dtc_db[i].dtc # 0
  PROVE  dtc_db[i].dtc \in Codes /\ StoreOf[dtc_db[i].dtc] = Content(dtc_db[i])
<1>. DEFINE d == dtc_db[i].dtc
            found == CHOOSE j \in Indices : dtc_db[j].dtc = d
<1>1. found \in Indices /\ dtc_db[found].dtc = d
  OBVIOUS
<1>2. found = i
  BY <1>1 DEF OneRecordEach
<1>3. d \in Codes
  BY DEF Codes
<1>4. StoreOf[d] = Content(dtc_db[found])
  BY <1>3 DEF StoreOf, Codes, Content
<1>. QED BY <1>2, <1>3, <1>4

\* A code of the store has a record.
LEMMA CodeHasRecord ==
  ASSUME NEW d \in Codes
  PROVE  \E i \in Indices : dtc_db[i].dtc = d /\ d # 0
BY DEF Codes

\* The search of the table finds exactly the codes of the store.
LEMMA KnownFact ==
  ASSUME NEW d, d # 0
  PROVE  d \in Codes <=> FindIndex(d) # 0
BY FindIndexFact DEF Codes

\* What the store says of a code is what a call on it starts from.
LEMMA GetFact ==
  ASSUME OneRecordEach, NEW d, d # 0
  PROVE  Abstract!Get(d) = Content(Record(d))
<1>1. CASE FindIndex(d) = 0
  BY <1>1, KnownFact, StoreDomain
     DEF Abstract!Get, Abstract!Known, Abstract!Fresh, Content, Record, Empty
<1>2. CASE FindIndex(d) # 0
  <2>1. FindIndex(d) \in Indices /\ dtc_db[FindIndex(d)].dtc = d
    BY <1>2, FindIndexFact
  <2>2. StoreOf[d] = Content(dtc_db[FindIndex(d)]) /\ d \in Codes
    BY <2>1, StoreShows
  <2>. QED
    BY <1>2, <2>2, StoreDomain DEF Abstract!Get, Abstract!Known, Record
<1>. QED BY <1>1, <1>2

\* The table has DbSize records, and finitely many codes.
LEMMA FiniteIndices ==
  /\ IsFiniteSet(Indices) /\ Cardinality(Indices) = DbSize
  /\ IsFiniteSet(Codes)
<1>1. IsFiniteSet(Indices) /\ Cardinality(Indices) = DbSize
  BY DtcParameters, FS_Interval DEF Indices
<1>2. IsFiniteSet({dtc_db[i].dtc : i \in Indices})
  <2>. DEFINE f == [i \in Indices |-> dtc_db[i].dtc]
  <2>1. f \in Surjection(Indices, {dtc_db[i].dtc : i \in Indices})
    BY DEF Surjection
  <2>. QED BY <1>1, <2>1, FS_Surjection
<1>. QED BY <1>1, <1>2, FS_Subset DEF Codes

\* A table without a hole holds DbSize codes, one with a hole fewer.
LEMMA RoomFact ==
  ASSUME OneRecordEach, NEW d, d # 0
  PROVE  Abstract!Room(d) <=> FindOrCreate(d) # 0
<1>1. CASE FindIndex(d) # 0
  BY <1>1, KnownFact, StoreDomain DEF Abstract!Room, Abstract!Known, FindOrCreate
<1>2. CASE FindIndex(d) = 0 /\ FindIndex(0) = 0
  <2>1. \A i \in Indices : dtc_db[i].dtc # 0
    BY <1>2, FindIndexFact
  <2>. DEFINE f == [i \in Indices |-> dtc_db[i].dtc]
  <2>2. f \in [Indices -> Codes]
    BY <2>1 DEF Codes
  <2>3. \A i, j \in Indices : f[i] = f[j] => i = j
    BY <2>1 DEF OneRecordEach
  <2>4. \A c \in Codes : \E i \in Indices : f[i] = c
    BY DEF Codes
  <2>5. Cardinality(Codes) = DbSize
    <3>. HIDE DEF f
    <3>. QED BY <2>2, <2>3, <2>4, FiniteIndices, BijectionCounts
  <2>. QED
    BY <1>2, <2>5, KnownFact, StoreDomain, DtcParameters, SameCardinality
       DEF Abstract!Room, Abstract!Known, FindOrCreate
<1>3. CASE FindIndex(d) = 0 /\ FindIndex(0) # 0
  <2>. DEFINE h == FindIndex(0)
              S == Indices \ {h}
              f == [i \in S |-> dtc_db[i].dtc]
              Image == {dtc_db[i].dtc : i \in S}
  <2>1. h \in Indices /\ dtc_db[h].dtc = 0
    BY <1>3, FindIndexFact
  <2>2. IsFiniteSet(S) /\ Cardinality(S) = DbSize - 1
    <3>. HIDE DEF h
    <3>. QED BY <2>1, FiniteIndices, FS_RemoveElement
  <2>3. IsFiniteSet(Image) /\ Cardinality(Image) <= Cardinality(S)
    <3>1. f \in Surjection(S, Image)
      BY DEF Surjection
    <3>. HIDE DEF S, Image, f
    <3>. QED BY <2>2, <3>1, FS_Surjection
  <2>4. Codes \subseteq Image
    BY <2>1 DEF Codes
  <2>5. Cardinality(Codes) <= Cardinality(Image)
    <3>. HIDE DEF Image
    <3>. QED BY <2>3, <2>4, FS_Subset
  <2>6. /\ Cardinality(Codes) \in Nat /\ Cardinality(Image) \in Nat
        /\ Cardinality(S) \in Nat
    <3>. HIDE DEF Image, S
    <3>. QED BY <2>2, <2>3, FiniteIndices, FS_CardinalityType
  <2>7. Cardinality(Codes) < DbSize
    <3>. HIDE DEF Image, S
    <3>. QED BY <2>2, <2>3, <2>5, <2>6, DtcParameters
  <2>. QED
    BY <1>3, <2>7, StoreDomain, SameCardinality DEF Abstract!Room, Abstract!Known, FindOrCreate
<1>. QED BY <1>1, <1>2, <1>3

\* The store shows what the table holds, before a step and after it.
Shows ==
  /\ DOMAIN StoreOf = Codes
  /\ \A i \in Indices : dtc_db[i].dtc # 0 => StoreOf[dtc_db[i].dtc] = Content(dtc_db[i])

\* The store shows the table.
LEMMA ShowsNow == OneRecordEach => Shows
  BY StoreDomain, StoreShows DEF Shows

\* The store shows the table after a step too.
LEMMA ShowsAfter == OneRecordEach' => Shows'
  BY ShowsNow, PTL

\* The store is a function of the codes.
LEMMA StoreFunction == StoreOf = [d \in Codes |-> StoreOf[d]]
  BY DEF StoreOf, Codes

\* It is one after a step too.
LEMMA StoreFunctionAfter == (StoreOf = [d \in Codes |-> StoreOf[d]])'
  BY StoreFunction, PTL

\* Storing a record of d is the store's Put.
LEMMA PutFact ==
  ASSUME DtcInv, DtcInv', NEW d \in Dtcs, NEW r \in DtcRecord, r.dtc = d,
         Store(FindOrCreate(d), d, r)
  PROVE  Abstract!Put(d, Content(r))
<1>0. d # 0
  BY NoCodeZero
<1>1. CASE FindOrCreate(d) = 0
  <2>1. UNCHANGED dtc_db
    BY <1>1 DEF Store, Stores
  <2>2. StoreOf' = StoreOf
    BY <2>1 DEF StoreOf
  <2>. QED BY <1>0, <1>1, <2>2, RoomFact DEF Abstract!Put, DtcInv
<1>2. CASE FindOrCreate(d) # 0
  <2>. DEFINE index == FindOrCreate(d)
              After == [e \in Codes \cup {d} |-> IF e = d THEN Content(r) ELSE StoreOf[e]]
  <2>1. index \in Indices /\ dtc_db[index].dtc \in {d, 0}
    BY <1>2, FindIndexFact DEF FindOrCreate
  <2>2. \A i \in Indices : dtc_db'[i] = IF i = index THEN r ELSE dtc_db[i]
    <3>. HIDE DEF index
    <3>1. dtc_db' = [dtc_db EXCEPT ![index] = r]
      BY <1>0, <1>2 DEF Store, Stores, index
    <3>. QED BY <2>1, <3>1 DEF DtcInv, DtcTypeOK
  <2>3. Codes' = Codes \cup {d}
    <3>. HIDE DEF index
    <3>. QED BY <1>0, <2>1, <2>2 DEF Codes
  <2>4. ASSUME NEW e \in Codes \cup {d}
        PROVE  StoreOf'[e] = After[e]
    <3>. HIDE DEF index
    <3>1. CASE e = d
      <4>1. dtc_db'[index] = r /\ r.dtc # 0
        BY <1>0, <2>1, <2>2
      <4>. QED BY <2>1, <3>1, <4>1, ShowsAfter DEF Shows, DtcInv
    <3>2. CASE e # d
      <4>1. PICK i \in Indices : dtc_db[i].dtc = e /\ e # 0
        BY <3>2, CodeHasRecord
      <4>2. i # index
        BY <2>1, <3>2, <4>1
      <4>3. dtc_db'[i] = dtc_db[i]
        BY <2>2, <4>2
      <4>. QED BY <3>2, <4>1, <4>3, ShowsNow, ShowsAfter DEF Shows, DtcInv
    <3>. QED BY <3>1, <3>2
  <2>5. StoreOf' = After
    <3>1. StoreOf' = [e \in Codes' |-> StoreOf'[e]]
      BY StoreFunctionAfter
    <3>. HIDE DEF index
    <3>. QED BY <2>3, <2>4, <3>1
  <2>. QED BY <1>0, <1>2, <2>5, RoomFact, StoreDomain DEF Abstract!Put, DtcInv
<1>. QED BY <1>1, <1>2

\* A step that leaves the table alone leaves the store alone.
LEMMA StoreUnchanged == UNCHANGED dtc_db => UNCHANGED StoreOf
  BY DEF StoreOf

\* Changing the status of a record changes what is kept of it alike.
LEMMA KeptStatus ==
  ASSUME NEW R \in DtcRecord, NEW x
  PROVE  /\ Content([R EXCEPT !.status = x]) = [Content(R) EXCEPT !.status = x]
         /\ Content(R).status = R.status
BY DEF Content, DtcRecord

\* Setting status bits is the store's step, dropped for want of room alike.
LEMMA SetStatusFact ==
  ASSUME DtcInv, DtcInv', NEW d \in Dtcs \cup {0}, NEW b \in SUBSET Bits, SetStatus(d, b)
  PROVE  Abstract!Next
<1>. DEFINE r == [Record(d) EXCEPT !.status = @ \cup b]
<1>1. CASE d = 0
  <2>1. event'.op = "refused" /\ UNCHANGED dtc_db
    BY <1>1 DEF SetStatus, Call, Store, Stores
  <2>. QED BY <2>1, StoreUnchanged DEF Abstract!Next, Abstract!Refuse
<1>2. CASE d # 0
  <2>1. Record(d) \in DtcRecord /\ Record(d).dtc = d
    BY <1>2, RecordType
  <2>2. r \in DtcRecord /\ r.dtc = d /\ Store(FindOrCreate(d), d, r)
    BY <2>1 DEF DtcRecord, SetStatus
  <2>3. Abstract!Put(d, Content(r))
    <3>. HIDE DEF r
    <3>. QED BY <1>2, <2>2, PutFact
  <2>4. Content(r) = [Abstract!Get(d) EXCEPT !.status = @ \cup b]
    <3>1. Abstract!Get(d) = Content(Record(d))
      BY <1>2, GetFact DEF DtcInv
    <3>. QED BY <2>1, <3>1, KeptStatus
  <2>5. event' = [Abstract!Call("set", d) EXCEPT !.bits = b]
    BY <1>2 DEF SetStatus, Call, Abstract!Call
  <2>6. Abstract!SetStatus(d, b)
    <3>. HIDE DEF r
    <3>. QED BY <2>3, <2>4, <2>5 DEF Abstract!SetStatus
  <2>. QED BY <1>2, <2>6 DEF Abstract!Next
<1>. QED BY <1>1, <1>2

\* Clearing status bits is the store's step.
LEMMA ClearStatusFact ==
  ASSUME DtcInv, DtcInv', NEW d \in Dtcs \cup {0}, NEW b \in SUBSET Bits, ClearStatus(d, b)
  PROVE  Abstract!Next
<1>. DEFINE r == [Record(d) EXCEPT !.status = @ \ b]
<1>1. CASE d = 0
  <2>1. event'.op = "refused" /\ UNCHANGED dtc_db
    BY <1>1 DEF ClearStatus, Call, Store, Stores
  <2>. QED BY <2>1, StoreUnchanged DEF Abstract!Next, Abstract!Refuse
<1>2. CASE d # 0
  <2>1. Record(d) \in DtcRecord /\ Record(d).dtc = d
    BY <1>2, RecordType
  <2>2. r \in DtcRecord /\ r.dtc = d /\ Store(FindIndex(d), d, r)
    BY <2>1 DEF DtcRecord, ClearStatus
  <2>3. event' = [Abstract!Call("unset", d) EXCEPT !.bits = b]
    BY <1>2 DEF ClearStatus, Call, Abstract!Call
  <2>4. Abstract!Known(d) <=> FindIndex(d) # 0
    BY <1>2, KnownFact, StoreDomain DEF Abstract!Known
  <2>5. CASE FindIndex(d) = 0
    <3>1. UNCHANGED StoreOf
      BY <2>2, <2>5, StoreUnchanged DEF Store, Stores
    <3>2. Abstract!ClearStatus(d, b)
      BY <2>3, <2>4, <2>5, <3>1 DEF Abstract!ClearStatus
    <3>. QED BY <1>2, <3>2 DEF Abstract!Next
  <2>6. CASE FindIndex(d) # 0
    <3>1. Abstract!Put(d, Content(r))
      <4>. HIDE DEF r
      <4>. QED BY <1>2, <2>2, <2>6, PutFact DEF FindOrCreate
    <3>2. Content(r) = [Abstract!Get(d) EXCEPT !.status = @ \ b]
      <4>1. Abstract!Get(d) = Content(Record(d))
        BY <1>2, GetFact DEF DtcInv
      <4>. QED BY <2>1, <4>1, KeptStatus
    <3>3. Abstract!ClearStatus(d, b)
      <4>. HIDE DEF r
      <4>. QED BY <2>3, <2>4, <2>6, <3>1, <3>2 DEF Abstract!ClearStatus
    <3>. QED BY <1>2, <3>3 DEF Abstract!Next
  <2>. QED BY <2>5, <2>6
<1>. QED BY <1>1, <1>2

\* Storing a snapshot is the store's step.
LEMMA SetSnapshotFact ==
  ASSUME DtcInv, DtcInv', NEW d \in Dtcs \cup {0}, NEW c \in Contents, SetSnapshot(d, c)
  PROVE  Abstract!Next
<1>. DEFINE r == [Record(d) EXCEPT !.snapshot = c]
<1>1. d # 0 /\ d \in Dtcs
  BY DEF SetSnapshot, Legal
<1>2. Record(d) \in DtcRecord /\ Record(d).dtc = d
  BY <1>1, RecordType
<1>3. r \in DtcRecord /\ r.dtc = d /\ Store(FindOrCreate(d), d, r)
  BY <1>2 DEF DtcRecord, SetSnapshot
<1>4. Abstract!Put(d, Content(r))
  <2>. HIDE DEF r
  <2>. QED BY <1>1, <1>3, PutFact
<1>5. Content(r) = [Abstract!Get(d) EXCEPT !.snapshot = c]
  <2>1. Abstract!Get(d) = Content(Record(d))
    BY <1>1, GetFact DEF DtcInv
  <2>. QED BY <1>2, <2>1 DEF Content, DtcRecord
<1>6. event' = [Abstract!Call("snapshot", d) EXCEPT
                  !.data = c, !.nrc = IF Abstract!Room(d) THEN "NONE" ELSE "FULL"]
  BY <1>1, RoomFact DEF SetSnapshot, Outcome, Call, Abstract!Call, DtcInv
<1>7. Abstract!SetSnapshot(d, c)
  <2>. HIDE DEF r
  <2>. QED BY <1>4, <1>5, <1>6 DEF Abstract!SetSnapshot
<1>. QED BY <1>1, <1>7 DEF Abstract!Next

\* Storing an extended record is the store's step.
LEMMA SetExtendedFact ==
  ASSUME DtcInv, DtcInv', NEW d \in Dtcs \cup {0}, NEW c \in Contents, SetExtended(d, c)
  PROVE  Abstract!Next
<1>. DEFINE r == [Record(d) EXCEPT !.extended = c]
<1>1. d # 0 /\ d \in Dtcs
  BY DEF SetExtended, Legal
<1>2. Record(d) \in DtcRecord /\ Record(d).dtc = d
  BY <1>1, RecordType
<1>3. r \in DtcRecord /\ r.dtc = d /\ Store(FindOrCreate(d), d, r)
  BY <1>2 DEF DtcRecord, SetExtended
<1>4. Abstract!Put(d, Content(r))
  <2>. HIDE DEF r
  <2>. QED BY <1>1, <1>3, PutFact
<1>5. Content(r) = [Abstract!Get(d) EXCEPT !.extended = c]
  <2>1. Abstract!Get(d) = Content(Record(d))
    BY <1>1, GetFact DEF DtcInv
  <2>. QED BY <1>2, <2>1 DEF Content, DtcRecord
<1>6. event' = [Abstract!Call("extended", d) EXCEPT
                  !.data = c, !.nrc = IF Abstract!Room(d) THEN "NONE" ELSE "FULL"]
  BY <1>1, RoomFact DEF SetExtended, Outcome, Call, Abstract!Call, DtcInv
<1>7. Abstract!SetExtended(d, c)
  <2>. HIDE DEF r
  <2>. QED BY <1>4, <1>5, <1>6 DEF Abstract!SetExtended
<1>. QED BY <1>1, <1>7 DEF Abstract!Next

\* Clearing keeps exactly the codes that are not of the group cleared.
LEMMA ClearFact ==
  ASSUME DtcInv, DtcInv', NEW g \in Groups, NEW default, NEW unlocked, NEW complete,
         ClearDiagnosticInfo(g, default, unlocked, complete)
  PROVE  Abstract!Next
<1>. DEFINE nrc == ClearRefusal(default, unlocked, complete)
            kept == {e \in Codes : ~ Clears(e, g)}
<1>1. CASE nrc # "NONE"
  <2>1. event'.op = "refused"
    BY <1>1 DEF ClearDiagnosticInfo, Call
  <2>2. dtc_db' = dtc_db
    <3>. HIDE DEF nrc
    <3>1. dtc_db' = [i \in Indices |-> dtc_db[i]]
      BY <1>1 DEF ClearDiagnosticInfo, nrc
    <3>. QED BY <3>1 DEF DtcInv, DtcTypeOK
  <2>. QED BY <2>1, <2>2, StoreUnchanged DEF Abstract!Next, Abstract!Refuse
<1>2. CASE nrc = "NONE"
  <2>1. event' = Abstract!Call("clear", g)
    BY <1>2 DEF ClearDiagnosticInfo, Call, Abstract!Call
  <2>2. \A i \in Indices :
          dtc_db'[i] = IF dtc_db[i].dtc # 0 /\ Clears(dtc_db[i].dtc, g) THEN Empty ELSE dtc_db[i]
    <3>. HIDE DEF nrc
    <3>. QED BY <1>2 DEF ClearDiagnosticInfo, nrc
  <2>3. Codes' = kept
    BY <2>2 DEF Codes, Empty
  <2>4. ASSUME NEW e \in kept
        PROVE  StoreOf'[e] = StoreOf[e]
    <3>1. PICK i \in Indices : dtc_db[i].dtc = e /\ e # 0
      BY CodeHasRecord
    <3>2. dtc_db'[i] = dtc_db[i]
      BY <2>2, <3>1
    <3>. QED BY <3>1, <3>2, ShowsNow, ShowsAfter DEF Shows, DtcInv
  <2>5. Abstract!Keep(kept)
    <3>1. StoreOf' = [e \in Codes' |-> StoreOf'[e]]
      BY StoreFunctionAfter
    <3>. HIDE DEF kept
    <3>. QED BY <2>3, <2>4, <3>1 DEF Abstract!Keep
  <2>6. Abstract!Clear(g)
    <3>1. CASE g = AllGroups
      <4>1. kept = {}
        BY <3>1 DEF Clears
      <4>. HIDE DEF kept
      <4>. QED BY <2>1, <2>5, <4>1 DEF Abstract!Clear
    <3>2. CASE g # AllGroups
      <4>1. g % 16 \in 0 .. 15
        BY DtcParameters
      <4>2. kept = {e \in DOMAIN StoreOf : Group(e) # g % 16}
        BY <3>2, StoreDomain DEF Clears
      <4>. HIDE DEF kept
      <4>. QED BY <2>1, <2>5, <4>1, <4>2 DEF Abstract!Clear
    <3>. QED BY <3>1, <3>2
  <2>7. event'.dtc = g
    BY <2>1 DEF Abstract!Call
  <2>. QED BY <2>6, <2>7 DEF Abstract!Next
<1>. QED BY <1>1, <1>2

\* A report lists the codes that match, each once, with their own status.
LEMMA ReportFact ==
  ASSUME DtcInv, NEW mask \in SUBSET Bits, Report(mask)
  PROVE  Abstract!Next
<1>. DEFINE I == ByStatusMask(mask)
            D == {d \in DOMAIN StoreOf : StoreOf[d].status \cap mask # {}}
            f == [i \in I |-> dtc_db[i].dtc]
<1>1. \A i \in Indices : dtc_db[i].dtc # 0 =>
        /\ dtc_db[i].dtc \in DOMAIN StoreOf
        /\ StoreOf[dtc_db[i].dtc].status = dtc_db[i].status
        /\ GetStatus(dtc_db[i].dtc) = dtc_db[i].status
  <2>. TAKE i \in Indices
  <2>. HAVE dtc_db[i].dtc # 0
  <2>1. dtc_db[i].dtc \in Codes /\ StoreOf[dtc_db[i].dtc] = Content(dtc_db[i])
    BY StoreShows DEF DtcInv
  <2>2. /\ FindIndex(dtc_db[i].dtc) \in Indices /\ FindIndex(dtc_db[i].dtc) # 0
        /\ dtc_db[FindIndex(dtc_db[i].dtc)].dtc = dtc_db[i].dtc
    BY FindIndexFact
  <2>3. FindIndex(dtc_db[i].dtc) = i
    BY <2>2 DEF DtcInv, OneRecordEach
  <2>. QED BY <2>1, <2>2, <2>3, StoreDomain DEF Content, GetStatus
<1>2. f \in [I -> D]
  BY <1>1 DEF ByStatusMask
<1>3. \A t \in D : \E i \in I : f[i] = t
  <2>. TAKE t \in D
  <2>1. PICK i \in Indices : dtc_db[i].dtc = t /\ t # 0
    BY CodeHasRecord, StoreDomain
  <2>2. i \in I
    BY <1>1, <2>1 DEF ByStatusMask
  <2>. QED BY <2>1, <2>2
<1>4. \A i, j \in I : f[i] = f[j] => i = j
  BY DEF ByStatusMask, DtcInv, OneRecordEach
<1>5. IsFiniteSet(I)
  <2>1. I \subseteq Indices
    BY DEF ByStatusMask
  <2>. HIDE DEF I
  <2>. QED BY <2>1, FiniteIndices, FS_Subset
<1>6. Abstract!Cardinality(D) = Cardinality(I)
  <2>. HIDE DEF I, D, f
  <2>. QED BY <1>2, <1>3, <1>4, <1>5, BijectionCounts, SameCardinality
<1>7. \A i \in I : /\ f[i] = dtc_db[i].dtc /\ f[i] \in D
                  /\ GetStatus(dtc_db[i].dtc) = StoreOf[f[i]].status
  BY <1>1, <1>2 DEF ByStatusMask
<1>8. {<<dtc_db[i].dtc, GetStatus(dtc_db[i].dtc)>> : i \in I} = {<<d, StoreOf[d].status>> : d \in D}
  <2>. HIDE DEF I, D, f
  <2>. QED BY <1>3, <1>7
<1>9. UNION {GetStatus(dtc_db[i].dtc) : i \in I} = UNION {StoreOf[d].status : d \in D}
  <2>1. {GetStatus(dtc_db[i].dtc) : i \in I} = {StoreOf[d].status : d \in D}
    <3>. HIDE DEF I, D, f
    <3>. QED BY <1>3, <1>7
  <2>. HIDE DEF I, D, f
  <2>. QED BY <2>1
<1>10. event' = [Abstract!Call("report", 0) EXCEPT
                   !.bits = UNION {StoreOf[d].status : d \in D},
                   !.list = {<<d, StoreOf[d].status>> : d \in D},
                   !.count = Abstract!Cardinality(D)]
  <2>1. event' = [Call("report", 0) EXCEPT
                    !.bits = UNION {GetStatus(dtc_db[i].dtc) : i \in I},
                    !.list = {<<dtc_db[i].dtc, GetStatus(dtc_db[i].dtc)>> : i \in I},
                    !.count = Cardinality(I)]
    BY DEF Report
  <2>2. Call("report", 0) = Abstract!Call("report", 0)
    BY DEF Call, Abstract!Call
  <2>. HIDE DEF I, D, f
  <2>. QED BY <1>6, <1>8, <1>9, <2>1, <2>2
<1>11. Abstract!Report(mask)
  BY <1>10, StoreUnchanged DEF Abstract!Report, Report
<1>. QED BY <1>11 DEF Abstract!Next

\* What is read of a code is what the store has of it.
LEMMA ReadFact ==
  ASSUME DtcInv, NEW d \in Dtcs \cup {0}, NEW field \in {1, 2}, ReadRecord(d, field)
  PROVE  Abstract!Next
<1>. DEFINE found == IF field = 1 THEN Abstract!Get(d).snapshot ELSE Abstract!Get(d).extended
<1>1. RecordOf(d, field) = found
  <2>1. CASE d = 0
    <3>1. Abstract!Get(d) = Abstract!Fresh
      BY <2>1, StoreDomain DEF Abstract!Get, Abstract!Known, Codes
    <3>2. FindIndex(d) # 0 => dtc_db[FindIndex(d)] = Empty
      BY <2>1, FindIndexFact, NoCodeZero DEF DtcInv, DtcTypeOK, DtcRecord
    <3>. QED BY <3>1, <3>2 DEF RecordOf, Empty, Abstract!Fresh
  <2>2. CASE d # 0
    <3>1. Abstract!Get(d) = Content(Record(d))
      BY <2>2, GetFact DEF DtcInv
    <3>. QED BY <3>1 DEF RecordOf, Record, Content, Empty
  <2>. QED BY <2>1, <2>2
<1>2. Call("read", d) = Abstract!Call("read", d)
  BY DEF Call, Abstract!Call
<1>3. event' = [Abstract!Call("read", d) EXCEPT
                  !.data = found, !.nrc = IF found = <<>> THEN "ROOR" ELSE "NONE"]
  <2>. HIDE DEF found
  <2>. QED BY <1>1, <1>2 DEF ReadRecord
<1>4. Abstract!ReadRecord(d, field)
  BY <1>3, StoreUnchanged DEF Abstract!ReadRecord, ReadRecord
<1>. QED BY <1>4 DEF Abstract!Next

\* A refused or suppressed request leaves the store alone.
LEMMA RefusalFact ==
  ASSUME Suppressed \/ BadRead \/ \E d \in Dtcs \cup {0}, c \in Contents : RejectRecord(d, c)
  PROVE  Abstract!Next
<1>1. event'.op \in {"refused", "suppressed"} /\ UNCHANGED dtc_db
  <2>1. CASE Suppressed
    BY <2>1 DEF Suppressed, Call
  <2>2. CASE BadRead
    <3>1. PICK nrc \in {"SFNS", "IMLOIF", "ROOR"} :
            event' = [Call("refused", 0) EXCEPT !.nrc = nrc]
      BY <2>2 DEF BadRead
    <3>2. event'.op = "refused"
      BY <3>1 DEF Call
    <3>. QED BY <2>2, <3>2 DEF BadRead
  <2>3. ASSUME NEW d \in Dtcs \cup {0}, NEW c \in Contents, RejectRecord(d, c)
        PROVE  event'.op = "refused" /\ UNCHANGED dtc_db
    BY <2>3 DEF RejectRecord, Call
  <2>. QED BY <2>1, <2>2, <2>3
<1>. QED BY <1>1, StoreUnchanged DEF Abstract!Next, Abstract!Refuse

\* An empty table shows an empty store.
LEMMA InitFact == DtcInit => Abstract!Init
<1>. SUFFICES ASSUME DtcInit PROVE Abstract!Init
  OBVIOUS
<1>1. Codes = {}
  BY DEF DtcInit, Codes, Empty
<1>2. StoreOf = [d \in {} |-> Abstract!Fresh]
  BY <1>1, StoreFunction
<1>. QED BY <1>2 DEF Abstract!Init, DtcInit, Call, Abstract!Call

\* Every step of the table is a step of the store, or shows nothing.
LEMMA StepFact == DtcInv /\ DtcInv' /\ [DtcNext]_dtcVars => [Abstract!Next]_(Abstract!vars)
<1>. SUFFICES ASSUME DtcInv, DtcInv', [DtcNext]_dtcVars
              PROVE  Abstract!Next \/ UNCHANGED Abstract!vars
  OBVIOUS
<1>1. CASE UNCHANGED dtcVars
  BY <1>1, StoreUnchanged DEF dtcVars, Abstract!vars
<1>2. CASE DtcNext
  <2>1. ASSUME NEW mask \in SUBSET Bits, Report(mask) PROVE Abstract!Next
    BY <2>1, ReportFact
  <2>2. ReportSupported => Abstract!Next
    BY <2>1 DEF ReportSupported
  <2>. QED
    BY <1>2, <2>1, <2>2, SetStatusFact, ClearStatusFact, SetSnapshotFact, SetExtendedFact,
       ClearFact, ReadFact, RefusalFact
       DEF DtcNext, ApplicationCall, ReadDtcInfo
<1>. QED BY <1>1, <1>2

\* The table of trouble codes implements the store, whatever holes clearing
\* leaves in it: contents and answers of every call (uds_dtc, uds_svc_stored).
THEOREM DtcImplementsStore == DtcSpec => ImplementsStore
<1>1. DtcSpec => []DtcInv
  BY DtcAlwaysInv
<1>. QED
  BY <1>1, InitFact, StepFact, PTL DEF DtcSpec, ImplementsStore, Abstract!Spec

-----------------------------------------------------------------------------
(* Tables of slots: each slot has an identifier and is in use or free, and a   *)
(* function `content' gives what it holds.  The table of dynamic identifiers   *)
(* and that of the overrides are two of them.                                  *)

Used(table) == {i \in DOMAIN table : table[i].active}
SlotsOf(table, did) == {i \in Used(table) : table[i].did = did}
KeysOf(table) == {table[i].did : i \in Used(table)}

\* No identifier has two slots.
OneSlotEach(table) == \A i, j \in Used(table) : table[i].did = table[j].did => i = j

\* What the table says, as a map.
MapOf(table, content) ==
  [did \in KeysOf(table) |-> content[CHOOSE i \in DOMAIN table : table[i].active /\ table[i].did = did]]

\* A map with one more key, or a new value for one, and a map without one.
With(map, did, x) == [k \in DOMAIN map \cup {did} |-> IF k = did THEN x ELSE map[k]]
Without(map, did) == [k \in DOMAIN map \ {did} |-> map[k]]

\* The map says of an identifier what its one slot holds.
LEMMA MapShows ==
  ASSUME NEW table, NEW content, OneSlotEach(table), NEW i \in Used(table)
  PROVE  /\ table[i].did \in KeysOf(table)
         /\ MapOf(table, content)[table[i].did] = content[i]
<1>. DEFINE did == table[i].did
            found == CHOOSE j \in DOMAIN table : table[j].active /\ table[j].did = did
<1>1. i \in DOMAIN table /\ table[i].active
  BY DEF Used
<1>2. found \in DOMAIN table /\ table[found].active /\ table[found].did = did
  BY <1>1
<1>3. found = i
  BY <1>2 DEF Used, OneSlotEach
<1>4. did \in KeysOf(table)
  BY DEF KeysOf
<1>. QED BY <1>3, <1>4 DEF MapOf

\* Every slot is in use exactly if there are as many keys as slots.
LEMMA RoomInTable ==
  ASSUME NEW N \in Nat, NEW table, DOMAIN table = 1 .. N, OneSlotEach(table)
  PROVE  Cardinality(KeysOf(table)) < N <=> \E i \in 1 .. N : ~table[i].active
<1>. DEFINE f == [i \in Used(table) |-> table[i].did]
<1>1. IsFiniteSet(1 .. N) /\ Cardinality(1 .. N) = N
  BY FS_Interval
<1>2. Used(table) \subseteq 1 .. N
  BY DEF Used
<1>3. IsFiniteSet(Used(table))
  BY <1>1, <1>2, FS_Subset
<1>4. f \in [Used(table) -> KeysOf(table)]
  BY DEF KeysOf
<1>5. \A i, j \in Used(table) : f[i] = f[j] => i = j
  BY DEF OneSlotEach
<1>6. \A k \in KeysOf(table) : \E i \in Used(table) : f[i] = k
  BY DEF KeysOf
<1>7. Cardinality(KeysOf(table)) = Cardinality(Used(table))
  <2>. HIDE DEF f
  <2>. QED BY <1>3, <1>4, <1>5, <1>6, BijectionCounts
<1>8. Cardinality(Used(table)) <= N /\ (Cardinality(Used(table)) = N <=> Used(table) = 1 .. N)
  BY <1>1, <1>2, FS_Subset
<1>9. Used(table) = 1 .. N <=> ~ \E i \in 1 .. N : ~table[i].active
  BY DEF Used
<1>10. Cardinality(Used(table)) \in Nat
  BY <1>3, FS_CardinalityType
<1>. QED BY <1>7, <1>8, <1>9, <1>10

\* The two tables before and after a change of slot s.
Differ(before, after, s) ==
  /\ DOMAIN after = DOMAIN before
  /\ \A i \in DOMAIN before \ {s} : after[i] = before[i]

\* Writing an identifier's own slot, or a free one if it has none, is a Put.
LEMMA PutSlot ==
  ASSUME NEW before, NEW after, NEW old, NEW new, NEW s \in DOMAIN before,
         OneSlotEach(before), Differ(before, after, s), DOMAIN old = DOMAIN before,
         Differ(old, new, s), after[s].active,
         \/ s \in SlotsOf(before, after[s].did)
         \/ ~before[s].active /\ SlotsOf(before, after[s].did) = {}
  PROVE  /\ OneSlotEach(after)
         /\ MapOf(after, new) = With(MapOf(before, old), after[s].did, new[s])
<1>. DEFINE d == after[s].did
            F == With(MapOf(before, old), d, new[s])
<1>0. /\ DOMAIN F = KeysOf(before) \cup {d}
      /\ \A k \in DOMAIN F : F[k] = IF k = d THEN new[s] ELSE MapOf(before, old)[k]
      /\ F = [k \in DOMAIN F |-> F[k]]
  BY DEF With, MapOf
<1>. HIDE DEF F
<1>1. Used(after) = Used(before) \cup {s}
  BY DEF Used, Differ
<1>2. \A i \in Used(before) \ {s} : after[i] = before[i] /\ before[i].did # d
  <2>1. TAKE i \in Used(before) \ {s}
  <2>2. after[i] = before[i]
    BY DEF Used, Differ
  <2>3. ASSUME before[i].did = d PROVE FALSE
    <3>1. i \in SlotsOf(before, d)
      BY <2>3 DEF SlotsOf
    <3>. QED BY <3>1 DEF SlotsOf, OneSlotEach
  <2>. QED BY <2>2, <2>3
<1>3. OneSlotEach(after)
  <2>. SUFFICES ASSUME NEW i \in Used(after), NEW j \in Used(after),
                       after[i].did = after[j].did
                PROVE  i = j
    BY DEF OneSlotEach
  <2>3. CASE i = s \/ j = s
    BY <1>1, <1>2, <2>3
  <2>4. CASE i # s /\ j # s
    BY <1>1, <1>2, <2>4 DEF OneSlotEach
  <2>. QED BY <2>3, <2>4
<1>4. KeysOf(after) = KeysOf(before) \cup {d}
  <2>1. \A k \in KeysOf(after) : k \in KeysOf(before) \cup {d}
    BY <1>1, <1>2 DEF KeysOf
  <2>2. d \in KeysOf(after)
    BY <1>1 DEF KeysOf
  <2>3. ASSUME NEW i \in Used(before) PROVE before[i].did \in KeysOf(after)
    <3>1. CASE i = s
      <4>1. s \notin {} /\ before[s].active
        BY <2>3, <3>1 DEF Used
      <4>2. before[s].did = d
        BY <4>1 DEF SlotsOf
      <4>. QED BY <2>2, <3>1, <4>2
    <3>2. CASE i # s
      <4>1. i \in Used(after) /\ after[i] = before[i]
        BY <1>1, <1>2, <3>2
      <4>. QED BY <4>1 DEF KeysOf
    <3>. QED BY <3>1, <3>2
  <2>. QED BY <2>1, <2>2, <2>3 DEF KeysOf
<1>5. ASSUME NEW k \in KeysOf(after) PROVE MapOf(after, new)[k] = F[k]
  <2>1. CASE k = d
    <3>1. MapOf(after, new)[d] = new[s]
      BY <1>1, <1>3, MapShows
    <3>. QED BY <1>0, <1>4, <2>1, <3>1
  <2>2. CASE k # d
    <3>1. PICK i \in Used(after) : after[i].did = k
      BY DEF KeysOf
    <3>2. i \in Used(before) \ {s}
      BY <1>1, <2>2, <3>1
    <3>3. MapOf(after, new)[k] = new[i]
      BY <1>3, <3>1, MapShows
    <3>4. MapOf(before, old)[k] = old[i]
      BY <1>2, <3>1, <3>2, MapShows
    <3>5. new[i] = old[i]
      BY <3>2 DEF Differ, Used
    <3>. QED BY <1>0, <1>4, <2>2, <3>3, <3>4, <3>5
  <2>. QED BY <2>1, <2>2
<1>6. MapOf(after, new) = [k \in KeysOf(after) |-> MapOf(after, new)[k]]
  BY DEF MapOf
<1>7. [k \in KeysOf(after) |-> MapOf(after, new)[k]] = [k \in KeysOf(after) |-> F[k]]
  BY <1>5, Zenon
<1>8. F = [k \in KeysOf(after) |-> F[k]]
  BY <1>0, <1>4
<1>. QED BY <1>3, <1>6, <1>7, <1>8 DEF F

\* Freeing an identifier's slot is a Remove.
LEMMA RemoveSlot ==
  ASSUME NEW before, NEW after, NEW old, NEW new, NEW d, NEW s \in SlotsOf(before, d),
         OneSlotEach(before), Differ(before, after, s), DOMAIN old = DOMAIN before,
         Differ(old, new, s), ~after[s].active
  PROVE  /\ OneSlotEach(after)
         /\ MapOf(after, new) = Without(MapOf(before, old), d)
<1>. DEFINE F == Without(MapOf(before, old), d)
<1>0. /\ DOMAIN F = KeysOf(before) \ {d}
      /\ \A k \in DOMAIN F : F[k] = MapOf(before, old)[k]
      /\ F = [k \in DOMAIN F |-> F[k]]
  BY DEF Without, MapOf
<1>. HIDE DEF F
<1>1. Used(after) = Used(before) \ {s}
  BY DEF Used, Differ, SlotsOf
<1>2. \A i \in Used(after) : after[i] = before[i]
  BY <1>1 DEF Used, Differ
<1>3. OneSlotEach(after)
  BY <1>1, <1>2 DEF OneSlotEach
<1>4. \A i \in Used(after) : before[i].did # d
  BY <1>1 DEF OneSlotEach, SlotsOf
<1>5. KeysOf(after) = KeysOf(before) \ {d}
  <2>1. \A k \in KeysOf(after) : k \in KeysOf(before) \ {d}
    BY <1>1, <1>2, <1>4 DEF KeysOf
  <2>2. ASSUME NEW i \in Used(before), before[i].did # d PROVE before[i].did \in KeysOf(after)
    <3>1. i # s
      BY <2>2 DEF SlotsOf
    <3>2. i \in Used(after) /\ after[i] = before[i]
      BY <1>1, <1>2, <3>1
    <3>. QED BY <3>2 DEF KeysOf
  <2>. QED BY <2>1, <2>2 DEF KeysOf
<1>6. ASSUME NEW k \in KeysOf(after) PROVE MapOf(after, new)[k] = F[k]
  <2>1. PICK i \in Used(after) : after[i].did = k
    BY DEF KeysOf
  <2>2. MapOf(after, new)[k] = new[i]
    BY <1>3, <2>1, MapShows
  <2>3. MapOf(before, old)[k] = old[i]
    BY <1>1, <1>2, <2>1, MapShows
  <2>4. new[i] = old[i]
    BY <1>1, <2>1 DEF Differ, Used
  <2>. QED BY <1>0, <1>5, <2>2, <2>3, <2>4
<1>7. MapOf(after, new) = [k \in KeysOf(after) |-> MapOf(after, new)[k]]
  BY DEF MapOf
<1>8. [k \in KeysOf(after) |-> MapOf(after, new)[k]] = [k \in KeysOf(after) |-> F[k]]
  BY <1>6, Zenon
<1>9. F = [k \in KeysOf(after) |-> F[k]]
  BY <1>0, <1>5
<1>. QED BY <1>3, <1>7, <1>8, <1>9 DEF F

-----------------------------------------------------------------------------
(* The registry of identifiers. *)

PeriodicEntry == [mode : 1 .. 3, id : PeriodicIds, source : Nat]

\* Both tables of the identifiers grow together, each buffer has the length of
\* its identifier, no identifier has two entries, and what is scheduled is
\* registered.
DataInv ==
  /\ did_registry \in Seq(DidEntry) /\ Len(did_registry) <= DidMax
  /\ did_data \in Seq(Seq(DidBytes)) /\ Len(did_data) = Len(did_registry)
  /\ \A i \in DidIndices : /\ Len(did_data[i]) = did_registry[i].len
                           /\ did_registry[i].did \in IoKeys
  /\ periodic \in Seq(PeriodicEntry) /\ Len(periodic) <= PeriodicMax
  /\ DidsConsistent

\* A registration appends: what is registered keeps its index and its data.
LEMMA RegisterDidAppends ==
  ASSUME DataInv, NEW e \in Dids, RegisterDid(e)
  PROVE  /\ did_registry' \in Seq(DidEntry) /\ did_data' \in Seq(Seq(DidBytes))
         /\ Len(did_registry') = Len(did_registry) + 1
         /\ Len(did_data') = Len(did_data) + 1
         /\ \A i \in DidIndices : /\ did_registry'[i] = did_registry[i]
                                  /\ did_data'[i] = did_data[i]
         /\ did_registry'[Len(did_registry) + 1] = e
         /\ did_data'[Len(did_registry) + 1] = Blanks(e.len)
<1>1. e \in DidEntry /\ e.len \in Nat
  BY DataParameters DEF DidEntry
<1>2. Blanks(e.len) \in Seq(DidBytes)
  BY <1>1 DEF Blanks, DidBytes
<1>3. did_registry \in Seq(DidEntry) /\ did_data \in Seq(Seq(DidBytes))
      /\ Len(did_data) = Len(did_registry)
  BY DEF DataInv
<1>4. did_registry' = Append(did_registry, e) /\ did_data' = Append(did_data, Blanks(e.len))
  BY DEF RegisterDid
<1>5. /\ did_registry' \in Seq(DidEntry) /\ Len(did_registry') = Len(did_registry) + 1
      /\ \A i \in 1 .. Len(did_registry) : did_registry'[i] = did_registry[i]
      /\ did_registry'[Len(did_registry) + 1] = e
  BY <1>1, <1>3, <1>4, AppendProperties
<1>6. /\ did_data' \in Seq(Seq(DidBytes)) /\ Len(did_data') = Len(did_data) + 1
      /\ \A i \in 1 .. Len(did_data) : did_data'[i] = did_data[i]
      /\ did_data'[Len(did_data) + 1] = Blanks(e.len)
  BY <1>2, <1>3, <1>4, AppendProperties
<1>7. QED
  BY <1>3, <1>5, <1>6 DEF DidIndices

\* sim_init registers each default identifier once.
LEMMA DataInvInit == DataInit => DataInv
<1> SUFFICES ASSUME DataInit PROVE DataInv
  OBVIOUS
<1>1. did_registry = DefaultDids /\ periodic = <<>>
  BY DEF DataInit
<1>2. did_registry \in Seq(DidEntry)
  BY <1>1, DataParameters
<1>3. \A i \in 1 .. Len(DefaultDids) : Blanks(DefaultDids[i].len) \in Seq(DidBytes)
  <2>1. TAKE i \in 1 .. Len(DefaultDids)
  <2>2. DefaultDids[i] \in DidEntry
    BY DataParameters
  <2>3. DefaultDids[i].len \in Nat
    BY <2>2 DEF DidEntry
  <2>4. QED
    BY <2>3 DEF Blanks, DidBytes
<1>4. did_data \in Seq(Seq(DidBytes)) /\ Len(did_data) = Len(did_registry)
  <2>1. did_data = [i \in 1 .. Len(DefaultDids) |-> Blanks(DefaultDids[i].len)]
    BY DEF DataInit
  <2>2. Len(DefaultDids) \in Nat
    BY DataParameters
  <2>3. QED
    BY <1>1, <1>3, <2>1, <2>2
<1>5. DidsConsistent
  BY <1>1, DataParameters DEF DidsConsistent, DidIndices
<1>6. ASSUME NEW i \in DidIndices
      PROVE  Len(did_data[i]) = did_registry[i].len /\ did_registry[i].did \in IoKeys
  <2>1. i \in 1 .. Len(DefaultDids) /\ DefaultDids[i] \in DidEntry
    BY <1>1, DataParameters DEF DidIndices
  <2>2. did_data[i] = Blanks(DefaultDids[i].len) /\ DefaultDids[i].len \in Nat
    BY <2>1 DEF DataInit, DidEntry
  <2>3. Len(did_data[i]) = DefaultDids[i].len
    BY <2>2 DEF Blanks
  <2>4. QED
    BY <1>1, <2>1, <2>3 DEF IoKeys
<1>7. Len(did_registry) <= DidMax /\ Len(periodic) <= PeriodicMax /\ periodic \in Seq(PeriodicEntry)
  BY <1>1, DataParameters
<1>8. QED
  BY <1>2, <1>4, <1>5, <1>6, <1>7 DEF DataInv

\* A write lays the request's bytes over the entry's own.
LEMMA OverlayType ==
  ASSUME NEW old \in Seq(DidBytes), NEW new \in Seq(DidBytes)
  PROVE  Overlay(old, new) \in Seq(DidBytes) /\ Len(Overlay(old, new)) = Len(old)
  BY DEF Overlay

\* What the data services do to the tables of the identifiers.
LEMMA DataStepKeeps ==
  ASSUME DataInv, DataNext \/ UNCHANGED <<did_registry, did_data, periodic>>
  PROVE  DataInv'
<1> USE DEF DataInv
<1>1. CASE UNCHANGED <<did_registry, did_data, periodic>>
  BY <1>1 DEF DidsConsistent, DidIndices, Found
<1>2. ASSUME NEW e \in Dids, RegisterDid(e) PROVE DataInv'
  <2>1. UNCHANGED periodic /\ Found(e.did) = {}
    BY <1>2 DEF RegisterDid, MayRegisterDid
  <2>2. Len(did_registry) \in Nat
    OBVIOUS
  <2>3. \A i, j \in 1 .. Len(did_registry') :
          did_registry'[i].did = did_registry'[j].did => i = j
    <3>1. \A i \in DidIndices : did_registry[i].did # e.did
      BY <2>1 DEF Found
    <3>2. \A i \in 1 .. Len(did_registry') :
            \/ i \in DidIndices /\ did_registry'[i] = did_registry[i]
            \/ i = Len(did_registry) + 1 /\ did_registry'[i] = e
      BY <1>2, <2>2, RegisterDidAppends DEF DidIndices
    <3>3. QED
      BY <3>1, <3>2 DEF DidsConsistent
  <2>4. \A k \in 1 .. Len(periodic) :
          \E i \in 1 .. Len(did_registry') : did_registry'[i].did = periodic[k].source
    <3>1. TAKE k \in 1 .. Len(periodic)
    <3>2. PICK i \in DidIndices : did_registry[i].did = periodic[k].source
      BY DEF DidsConsistent, Found
    <3>3. i \in 1 .. Len(did_registry') /\ did_registry'[i] = did_registry[i]
      BY <1>2, <2>2, RegisterDidAppends DEF DidIndices
    <3>4. QED
      BY <3>2, <3>3
  <2>5. DidsConsistent'
    BY <2>1, <2>3, <2>4 DEF DidsConsistent, DidIndices, Found
  <2>6. ASSUME NEW i \in 1 .. Len(did_registry')
        PROVE  Len(did_data'[i]) = did_registry'[i].len /\ did_registry'[i].did \in IoKeys
    <3>1. CASE i \in DidIndices
      BY <1>2, <3>1, RegisterDidAppends
    <3>2. CASE i = Len(did_registry) + 1
      <4>1. e.len \in Nat /\ Len(Blanks(e.len)) = e.len
        BY DataParameters DEF Blanks, DidEntry
      <4>2. QED
        BY <1>2, <3>2, <4>1, RegisterDidAppends DEF IoKeys
    <3>3. Len(did_registry') = Len(did_registry) + 1
      BY <1>2, RegisterDidAppends
    <3>4. QED
      BY <2>2, <3>1, <3>2, <3>3 DEF DidIndices
  <2>7. Len(did_registry') <= DidMax
    <3>1. Len(did_registry) < DidMax
      BY <1>2 DEF RegisterDid, MayRegisterDid
    <3>2. QED
      BY <1>2, <2>2, <3>1, DataParameters, RegisterDidAppends
  <2>8. QED
    BY <1>2, <2>1, <2>2, <2>5, <2>6, <2>7, RegisterDidAppends DEF DidIndices
<1>3. ASSUME NEW i \in DidIndices, NEW v \in Values, NEW may, WriteDataById(i, v, may)
      PROVE  DataInv'
  <2>1. UNCHANGED <<did_registry, periodic>>
    BY <1>3 DEF WriteDataById
  <2>2. /\ did_data' \in Seq(Seq(DidBytes)) /\ Len(did_data') = Len(did_data)
        /\ \A k \in DidIndices : Len(did_data'[k]) = Len(did_data[k])
    <3>1. CASE did_data' = did_data
      BY <3>1
    <3>2. CASE did_data' = [did_data EXCEPT ![i] = Overlay(@, v)]
      <4>1. did_data[i] \in Seq(DidBytes) /\ v \in Seq(DidBytes)
        BY DataParameters DEF DidIndices
      <4>2. /\ Overlay(did_data[i], v) \in Seq(DidBytes)
            /\ Len(Overlay(did_data[i], v)) = Len(did_data[i])
        BY <4>1, OverlayType
      <4>3. QED
        BY <3>2, <4>2 DEF DidIndices
    <3>3. QED
      BY <1>3, <3>1, <3>2 DEF WriteDataById
  <2>3. DidsConsistent'
    BY <2>1 DEF DidsConsistent, DidIndices, Found
  <2>4. QED
    BY <2>1, <2>2, <2>3 DEF DidIndices
<1>4. ASSUME NEW mode \in 1 .. 3, NEW id \in PeriodicIds, NEW source \in Asked,
             Schedule(mode, id, source)
      PROVE  DataInv'
  <2>1. UNCHANGED <<did_registry, did_data>>
    BY <1>4 DEF Schedule
  <2>2. CASE ~Schedulable(source)
    BY <1>1, <1>4, <2>2 DEF Schedule
  <2>3. CASE Schedulable(source)
    <3>. DEFINE new == [mode |-> mode, id |-> id, source |-> source]
    <3>1. PICK i \in DidIndices : did_registry[i].did = source
      BY <2>3 DEF Schedulable, Found
    <3>2. source \in Nat
      <4>1. did_registry[i] \in DidEntry
        BY DEF DidIndices
      <4>2. QED
        BY <3>1, <4>1 DEF DidEntry
    <3>3. new \in PeriodicEntry
      BY <3>2 DEF PeriodicEntry
    <3>4. periodic' = Append(periodic, new)
      BY <1>4, <2>3 DEF Schedule
    <3>5. /\ periodic' \in Seq(PeriodicEntry) /\ Len(periodic') = Len(periodic) + 1
          /\ \A k \in 1 .. Len(periodic) : periodic'[k] = periodic[k]
          /\ periodic'[Len(periodic) + 1] = new
      <4>. HIDE DEF new
      <4>. QED BY <3>3, <3>4, AppendProperties
    <3>6. Len(periodic) \in Nat
      OBVIOUS
    <3>7. \A k \in 1 .. Len(periodic') : \/ k \in 1 .. Len(periodic) /\ periodic'[k] = periodic[k]
                                         \/ periodic'[k].source = source
      BY <3>5, <3>6
    <3>8. \A k \in 1 .. Len(periodic') :
            \E j \in DidIndices : did_registry[j].did = periodic'[k].source
      BY <3>1, <3>7 DEF DidsConsistent, Found
    <3>9. DidsConsistent'
      BY <2>1, <3>8 DEF DidsConsistent, DidIndices, Found
    <3>10. Len(periodic') <= PeriodicMax
      BY <2>3, <3>5, <3>6, DataParameters DEF Schedulable
    <3>11. QED
      BY <2>1, <3>5, <3>9, <3>10 DEF DidIndices
  <2>4. QED
    BY <2>2, <2>3
<1>5. ASSUME NEW i \in DidIndices, NEW may, ReadDataById(i, may) \/ ReadScalingData(i, may)
      PROVE  UNCHANGED <<did_registry, did_data, periodic>>
  BY <1>5 DEF ReadDataById, ReadScalingData
<1>6. BadDataRequest => UNCHANGED <<did_registry, did_data, periodic>>
  BY DEF BadDataRequest
<1>7. QED
  BY <1>1, <1>2, <1>3, <1>4, <1>5, <1>6 DEF DataNext

\* All the registry does keeps its types, for any identifiers and table sizes.
THEOREM DataTypeCorrect == DataSpec => []DataTypeOK
<1>1. UNCHANGED dataVars => UNCHANGED <<did_registry, did_data, periodic>>
  BY DEF dataVars
<1>2. DataInv /\ [DataNext]_dataVars => DataInv'
  BY <1>1, DataStepKeeps
<1>3. DataInv => DataTypeOK
  BY DEF DataInv, DataTypeOK
<1>4. QED
  BY <1>2, <1>3, DataInvInit, PTL DEF DataSpec

-----------------------------------------------------------------------------
(* The table of dynamic identifiers. *)

\* What each slot is made of.
Sources == [i \in DynamicSlots |-> dynamic_dids[i].sources]

\* The table keeps its types, and no identifier has two slots.
DynamicInv == DynamicTypeOK /\ OneSlotEach(dynamic_dids)

\* The abstract map is the map of the table.
LEMMA DefinedIsMap ==
  ASSUME DynamicTypeOK
  PROVE  Defined = MapOf(dynamic_dids, Sources) /\ DOMAIN Defined = KeysOf(dynamic_dids)
<1>1. DOMAIN dynamic_dids = DynamicSlots /\ DynamicSlots \ FreeSlots = Used(dynamic_dids)
  BY DEF DynamicTypeOK, FreeSlots, Used
<1>2. {dynamic_dids[i].did : i \in DynamicSlots \ FreeSlots} = KeysOf(dynamic_dids)
  BY <1>1 DEF KeysOf
<1>3. ASSUME NEW d \in KeysOf(dynamic_dids)
      PROVE  Defined[d] = MapOf(dynamic_dids, Sources)[d]
  <2>. DEFINE found == CHOOSE i \in DynamicSlots : dynamic_dids[i].active /\ dynamic_dids[i].did = d
  <2>1. found \in DynamicSlots
    BY <1>1 DEF KeysOf, Used
  <2>2. MapOf(dynamic_dids, Sources)[d] = Sources[found]
    BY <1>1 DEF MapOf
  <2>3. Defined[d] = dynamic_dids[found].sources
    BY <1>2 DEF Defined
  <2>. QED
    <3>. HIDE DEF found
    <3>. QED BY <2>1, <2>2, <2>3 DEF Sources
<1>4. DOMAIN Defined = KeysOf(dynamic_dids) /\ Defined = [d \in DOMAIN Defined |-> Defined[d]]
  BY <1>2 DEF Defined
<1>5. MapOf(dynamic_dids, Sources)
      = [d \in KeysOf(dynamic_dids) |-> MapOf(dynamic_dids, Sources)[d]]
  BY DEF MapOf
<1>6. [d \in KeysOf(dynamic_dids) |-> Defined[d]]
      = [d \in KeysOf(dynamic_dids) |-> MapOf(dynamic_dids, Sources)[d]]
  BY <1>3, Zenon
<1>. QED BY <1>4, <1>5, <1>6

\* It is so after a step too.
LEMMA DefinedIsMapAfter ==
  DynamicTypeOK' => (Defined = MapOf(dynamic_dids, Sources))'
  BY DefinedIsMap, PTL

\* The two modules mean the same by a cardinality.
LEMMA SameDynamicCardinality == \A S : DynamicMap!Cardinality(S) = Cardinality(S)
  BY Zenon DEF DynamicMap!Cardinality, Cardinality, DynamicMap!IsFiniteSet, IsFiniteSet

\* A definition is accepted exactly when the map has room for it.
LEMMA DefinitionRoom ==
  ASSUME DynamicInv, NEW d
  PROVE  DynamicMap!MayPut(d) <=> Holders(d) = {} /\ FreeSlots # {}
<1>1. Holders(d) = {} <=> d \notin KeysOf(dynamic_dids)
  BY DEF Holders, KeysOf, Used, DynamicInv, DynamicTypeOK
<1>2. DOMAIN dynamic_dids = 1 .. DynamicMax /\ DynamicMax \in Nat
  BY DynamicParameters DEF DynamicInv, DynamicTypeOK, DynamicSlots
<1>3. Cardinality(KeysOf(dynamic_dids)) < DynamicMax <=> FreeSlots # {}
  BY <1>2, RoomInTable DEF DynamicInv, FreeSlots, DynamicSlots
<1>. QED
  BY <1>1, <1>3, DefinedIsMap, SameDynamicCardinality DEF DynamicMap!MayPut, DynamicInv

\* A definition is a Put.
LEMMA DefineFact ==
  ASSUME DynamicInv, NEW d \in Targets, NEW sources \in Definitions, Define(d, sources)
  PROVE  DynamicInv' /\ DynamicMap!Put(d, sources)
<1>1. CASE ~(Holders(d) = {} /\ FreeSlots # {})
  <2>1. UNCHANGED dynamic_dids /\ dynamic_done' = DynamicOp("put", d, sources, FALSE)
    BY <1>1 DEF Define
  <2>2. DynamicMap!MayPut(d) = FALSE
    BY <1>1, DefinitionRoom DEF DynamicMap!MayPut
  <2>3. Defined' = Defined
    BY <2>1 DEF Defined, FreeSlots
  <2>4. DynamicInv'
    BY <2>1 DEF DynamicInv, DynamicTypeOK, OneSlotEach, Used
  <2>. QED
    BY <2>1, <2>2, <2>3, <2>4 DEF DynamicMap!Put, DynamicMap!Outcome, DynamicOp
<1>2. CASE Holders(d) = {} /\ FreeSlots # {}
  <2>. DEFINE s == Min(FreeSlots)
              r == [did |-> d, sources |-> sources, active |-> TRUE]
  <2>1. s \in DynamicSlots /\ ~dynamic_dids[s].active
    <3>1. FreeSlots \subseteq Nat
      BY DEF FreeSlots, DynamicSlots
    <3>2. s \in FreeSlots
      BY <1>2, <3>1, MinFact
    <3>. QED BY <3>2 DEF FreeSlots
  <2>2. /\ dynamic_dids' = [dynamic_dids EXCEPT ![s] = r]
        /\ dynamic_done' = DynamicOp("put", d, sources, TRUE)
    BY <1>2 DEF Define
  <2>. HIDE DEF s
  <2>3. DynamicTypeOK'
    BY <2>1, <2>2 DEF DynamicInv, DynamicTypeOK
  <2>4. /\ DOMAIN dynamic_dids = DynamicSlots /\ DOMAIN dynamic_dids' = DynamicSlots
        /\ dynamic_dids'[s] = r
        /\ \A i \in DynamicSlots \ {s} : dynamic_dids'[i] = dynamic_dids[i]
    BY <2>1, <2>2 DEF DynamicInv, DynamicTypeOK
  <2>5. Differ(dynamic_dids, dynamic_dids', s) /\ Differ(Sources, Sources', s)
        /\ DOMAIN Sources = DOMAIN dynamic_dids /\ Sources'[s] = sources
    BY <2>1, <2>4 DEF Differ, Sources
  <2>6. SlotsOf(dynamic_dids, d) = {}
    BY <1>2, <2>4 DEF SlotsOf, Holders, Used
  <2>7. /\ OneSlotEach(dynamic_dids')
        /\ MapOf(dynamic_dids', Sources') = With(MapOf(dynamic_dids, Sources), d, sources)
    <3>1. dynamic_dids'[s].did = d /\ dynamic_dids'[s].active
      BY <2>4
    <3>. HIDE DEF r
    <3>. QED
      BY <2>1, <2>4, <2>5, <2>6, <3>1, PutSlot DEF DynamicInv
  <2>8. Defined' = [k \in DOMAIN Defined \cup {d} |-> IF k = d THEN sources ELSE Defined[k]]
    <3>1. Defined' = MapOf(dynamic_dids', Sources')
      BY <2>3, DefinedIsMapAfter
    <3>. QED BY <2>7, <3>1, DefinedIsMap DEF DynamicInv, With
  <2>9. DynamicMap!MayPut(d) = TRUE
    BY <1>2, DefinitionRoom DEF DynamicMap!MayPut
  <2>. QED
    BY <2>2, <2>3, <2>7, <2>8, <2>9
       DEF DynamicInv, DynamicMap!Put, DynamicMap!Outcome, DynamicOp, OneSlotEach, Used
<1>. QED BY <1>1, <1>2

\* A deletion is a Remove.
LEMMA DeleteFact ==
  ASSUME DynamicInv, NEW d \in Targets, Delete(d)
  PROVE  DynamicInv' /\ DynamicMap!Remove(d)
<1>0. d \in DOMAIN Defined <=> Holders(d) # {}
  BY DefinedIsMap DEF Holders, KeysOf, Used, DynamicInv, DynamicTypeOK
<1>1. CASE Holders(d) = {}
  <2>1. UNCHANGED dynamic_dids /\ dynamic_done' = DynamicOp("remove", d, <<>>, FALSE)
    BY <1>1 DEF Delete
  <2>2. Defined' = Defined
    BY <2>1 DEF Defined, FreeSlots
  <2>3. Defined = [k \in DOMAIN Defined \ {d} |-> Defined[k]]
    BY <1>0, <1>1 DEF Defined
  <2>4. DynamicInv'
    BY <2>1 DEF DynamicInv, DynamicTypeOK, OneSlotEach, Used
  <2>. QED
    BY <1>0, <1>1, <2>1, <2>2, <2>3, <2>4 DEF DynamicMap!Remove, DynamicOp
<1>2. CASE Holders(d) # {}
  <2>. DEFINE s == Min(Holders(d))
  <2>1. s \in DynamicSlots /\ dynamic_dids[s].active /\ dynamic_dids[s].did = d
    <3>1. Holders(d) \subseteq Nat
      BY DEF Holders, DynamicSlots
    <3>2. s \in Holders(d)
      BY <1>2, <3>1, MinFact
    <3>. QED BY <3>2 DEF Holders
  <2>2. /\ dynamic_dids' = [dynamic_dids EXCEPT ![s] = FreeSlot]
        /\ dynamic_done' = DynamicOp("remove", d, <<>>, TRUE)
    BY <1>2 DEF Delete
  <2>. HIDE DEF s
  <2>3. DynamicTypeOK'
    BY <2>1, <2>2 DEF DynamicInv, DynamicTypeOK
  <2>4. /\ DOMAIN dynamic_dids = DynamicSlots /\ DOMAIN dynamic_dids' = DynamicSlots
        /\ dynamic_dids'[s] = FreeSlot
        /\ \A i \in DynamicSlots \ {s} : dynamic_dids'[i] = dynamic_dids[i]
    BY <2>1, <2>2 DEF DynamicInv, DynamicTypeOK
  <2>5. Differ(dynamic_dids, dynamic_dids', s) /\ Differ(Sources, Sources', s)
        /\ DOMAIN Sources = DOMAIN dynamic_dids
    BY <2>1, <2>4 DEF Differ, Sources
  <2>6. s \in SlotsOf(dynamic_dids, d) /\ ~dynamic_dids'[s].active
    BY <2>1, <2>4 DEF SlotsOf, Used, FreeSlot
  <2>7. /\ OneSlotEach(dynamic_dids')
        /\ MapOf(dynamic_dids', Sources') = Without(MapOf(dynamic_dids, Sources), d)
    BY <2>5, <2>6, RemoveSlot DEF DynamicInv
  <2>8. Defined' = [k \in DOMAIN Defined \ {d} |-> Defined[k]]
    <3>1. Defined' = MapOf(dynamic_dids', Sources')
      BY <2>3, DefinedIsMapAfter
    <3>. QED BY <2>7, <3>1, DefinedIsMap DEF DynamicInv, Without
  <2>. QED
    BY <2>2, <2>3, <2>7, <2>8 DEF DynamicInv, DynamicMap!Remove, DynamicOp, OneSlotEach, Used
<1>. QED BY <1>1, <1>2

\* At first the table and the map are empty.
LEMMA DynamicInvInit == DynamicInit => DynamicInv /\ DynamicMap!Init
<1>. SUFFICES ASSUME DynamicInit PROVE DynamicInv /\ DynamicMap!Init
  OBVIOUS
<1>1. DynamicInv /\ KeysOf(dynamic_dids) = {}
  BY DEF DynamicInit, DynamicInv, DynamicTypeOK, OneSlotEach, Used, FreeSlot, KeysOf
<1>2. Defined = [k \in {} |-> <<>>]
  <2>1. DOMAIN Defined = {} /\ Defined = [k \in DOMAIN Defined |-> Defined[k]]
    BY <1>1, DefinedIsMap DEF Defined, DynamicInv
  <2>. QED BY <2>1
<1>. QED BY <1>1, <1>2 DEF DynamicMap!Init, DynamicInit, DynamicOp

\* A step is one of the map's, or one it does not notice.
LEMMA DynamicStep ==
  ASSUME DynamicInv, [DynamicNext]_dynamicVars
  PROVE  DynamicInv' /\ [DynamicMap!Next]_(DynamicMap!vars)
<1>1. ASSUME NEW d \in Targets, NEW sources \in Definitions, Define(d, sources)
      PROVE  DynamicInv' /\ DynamicMap!Next
  BY <1>1, DefineFact DEF DynamicMap!Next
<1>2. ASSUME NEW d \in Targets, Delete(d)
      PROVE  DynamicInv' /\ DynamicMap!Next
  BY <1>2, DeleteFact DEF DynamicMap!Next
<1>3. CASE UNCHANGED <<dynamic_dids, dynamic_done>>
  <2>1. Defined' = Defined
    BY <1>3 DEF Defined, FreeSlots
  <2>. QED
    BY <1>3, <2>1 DEF DynamicMap!vars, DynamicInv, DynamicTypeOK, OneSlotEach, Used
<1>4. BadDefinition \/ UNCHANGED dynamicVars => UNCHANGED <<dynamic_dids, dynamic_done>>
  BY DEF BadDefinition, dynamicVars
<1>. QED BY <1>1, <1>2, <1>3, <1>4 DEF DynamicNext

\* A slot that is not in use is blank, for any identifiers and table size.
THEOREM DynamicTypeCorrect == DynamicSpec => []DynamicTypeOK
<1>1. DynamicInv => DynamicTypeOK
  BY DEF DynamicInv
<1>. QED BY <1>1, DynamicInvInit, DynamicStep, PTL DEF DynamicSpec

\* Definitions and deletions in any order leave a map: an identifier has one
\* definition, the one accepted for it, and a definition is refused only for
\* want of room, or because the identifier has one already.
THEOREM DynamicAlwaysMap == DynamicSpec => DynamicIsMap
<1>1. DynamicInit => DynamicMap!Init
  BY DynamicInvInit
<1>2. DynamicSpec => []DynamicInv
  BY DynamicInvInit, DynamicStep, PTL DEF DynamicSpec
<1>3. DynamicInv /\ [DynamicNext]_dynamicVars => [DynamicMap!Next]_(DynamicMap!vars)
  BY DynamicStep
<1>. QED BY <1>1, <1>2, <1>3, PTL DEF DynamicSpec, DynamicIsMap, DynamicMap!Spec

-----------------------------------------------------------------------------
(* The table of overrides. *)

\* What each slot overrides its identifier with.
OverrideValues == [i \in IoSlots |-> overrides[i].value]

\* The table keeps its slots, and no identifier has two of them.
IoInv ==
  /\ overrides = [s \in IoSlots |-> overrides[s]]
  /\ IoTypeOK /\ OneSlotEach(overrides)

\* A step of the registry leaves every identifier registered.
LEMMA RegisteredStays ==
  ASSUME DataInv, DataNext \/ UNCHANGED <<did_registry, did_data, periodic>>,
         NEW did, Found(did) # {}
  PROVE  Found(did)' # {}
<1>1. CASE UNCHANGED did_registry
  BY <1>1 DEF Found, DidIndices
<1>2. ASSUME NEW e \in Dids, RegisterDid(e) PROVE Found(did)' # {}
  <2>1. PICK i \in DidIndices : did_registry[i].did = did
    BY DEF Found
  <2>2. Len(did_registry) \in Nat
    BY DEF DataInv
  <2>3. i \in 1 .. Len(did_registry') /\ did_registry'[i] = did_registry[i]
    BY <1>2, <2>2, RegisterDidAppends DEF DidIndices
  <2>. QED BY <2>1, <2>3 DEF Found, DidIndices
<1>3. DataNext => UNCHANGED did_registry \/ \E e \in Dids : RegisterDid(e)
  BY DEF DataNext, BadDataRequest, ReadDataById, ReadScalingData, WriteDataById, Schedule
<1>. QED BY <1>1, <1>2, <1>3

\* What is kept of an adjustment's bytes.
LEMMA ClampedType ==
  ASSUME NEW v \in Values, v # <<>>
  PROVE  Len(Clamped(v)) \in 1 .. ValueMax
<1>. DEFINE m == Min({Len(v), ValueMax})
<1>1. v \in Seq(DidBytes) /\ Len(v) \in Nat /\ Len(v) >= 1 /\ ValueMax \in Nat /\ ValueMax >= 1
  BY DataParameters, IoParameters
<1>2. m \in {Len(v), ValueMax} /\ m <= Len(v) /\ m <= ValueMax
  <2>1. {Len(v), ValueMax} \subseteq Nat
    BY <1>1
  <2>. QED BY <2>1, MinFact
<1>3. m \in 1 .. Len(v) /\ m \in Nat
  BY <1>1, <1>2
<1>4. Len(SubSeq(v, 1, m)) = m
  <2>. HIDE DEF m
  <2>. QED BY <1>1, <1>3
<1>. QED BY <1>1, <1>2, <1>3, <1>4 DEF Clamped

\* The abstract map is the map of the table.
LEMMA OverriddenIsMap ==
  ASSUME overrides = [s \in IoSlots |-> overrides[s]]
  PROVE  Overridden = MapOf(overrides, OverrideValues) /\ DOMAIN Overridden = KeysOf(overrides)
<1>1. DOMAIN overrides = IoSlots /\ IoSlots \ FreeOverrides = Used(overrides)
  BY DEF FreeOverrides, Used
<1>2. {overrides[i].did : i \in IoSlots \ FreeOverrides} = KeysOf(overrides)
  BY <1>1 DEF KeysOf
<1>3. ASSUME NEW d \in KeysOf(overrides)
      PROVE  Overridden[d] = MapOf(overrides, OverrideValues)[d]
  <2>. DEFINE found == CHOOSE i \in IoSlots : overrides[i].active /\ overrides[i].did = d
  <2>1. found \in IoSlots
    BY <1>1 DEF KeysOf, Used
  <2>2. MapOf(overrides, OverrideValues)[d] = OverrideValues[found]
    BY <1>1 DEF MapOf
  <2>3. Overridden[d] = overrides[found].value
    BY <1>2 DEF Overridden
  <2>. QED
    <3>. HIDE DEF found
    <3>. QED BY <2>1, <2>2, <2>3 DEF OverrideValues
<1>4. DOMAIN Overridden = KeysOf(overrides) /\ Overridden = [d \in DOMAIN Overridden |-> Overridden[d]]
  BY <1>2 DEF Overridden
<1>5. MapOf(overrides, OverrideValues)
      = [d \in KeysOf(overrides) |-> MapOf(overrides, OverrideValues)[d]]
  BY DEF MapOf
<1>6. [d \in KeysOf(overrides) |-> Overridden[d]]
      = [d \in KeysOf(overrides) |-> MapOf(overrides, OverrideValues)[d]]
  BY <1>3, Zenon
<1>. QED BY <1>4, <1>5, <1>6

\* It is so after a step too.
LEMMA OverriddenIsMapAfter ==
  (overrides = [s \in IoSlots |-> overrides[s]])'
    => (Overridden = MapOf(overrides, OverrideValues))'
  BY OverriddenIsMap, PTL

\* The two modules mean the same by a cardinality.
LEMMA SameOverrideCardinality == \A S : OverrideMap!Cardinality(S) = Cardinality(S)
  BY Zenon DEF OverrideMap!Cardinality, Cardinality, OverrideMap!IsFiniteSet, IsFiniteSet

\* An adjustment finds a slot exactly when the map has room for it.
LEMMA OverrideRoom ==
  ASSUME IoInv, NEW d
  PROVE  OverrideMap!MayPut(d) <=> FindOverride(d) # {} \/ FreeOverrides # {}
<1>1. FindOverride(d) = {} <=> d \notin KeysOf(overrides)
  BY DEF FindOverride, KeysOf, Used, IoInv
<1>2. DOMAIN overrides = 1 .. OverrideMax /\ OverrideMax \in Nat
  BY IoParameters DEF IoInv, IoSlots
<1>3. Cardinality(KeysOf(overrides)) < OverrideMax <=> FreeOverrides # {}
  BY <1>2, RoomInTable DEF IoInv, FreeOverrides, IoSlots
<1>. QED
  BY <1>1, <1>3, OverriddenIsMap, SameOverrideCardinality DEF OverrideMap!MayPut, IoInv

\* A change of one slot, to a blank one or a registered identifier's, keeps types.
LEMMA SlotChange ==
  ASSUME IoInv, NEW s \in IoSlots, NEW r, overrides' = [overrides EXCEPT ![s] = r],
         UNCHANGED did_registry,
         \/ r = NoOverride
         \/ r.active /\ Found(r.did) # {} /\ Len(r.value) \in 1 .. ValueMax
  PROVE  /\ overrides' = [i \in IoSlots |-> overrides'[i]] /\ IoTypeOK'
         /\ Differ(overrides, overrides', s) /\ Differ(OverrideValues, OverrideValues', s)
         /\ DOMAIN OverrideValues = DOMAIN overrides /\ s \in DOMAIN overrides
         /\ overrides'[s] = r /\ OverrideValues'[s] = r.value
<1>1. /\ DOMAIN overrides = IoSlots /\ DOMAIN overrides' = IoSlots /\ overrides'[s] = r
      /\ \A i \in IoSlots \ {s} : overrides'[i] = overrides[i]
      /\ overrides' = [i \in IoSlots |-> overrides'[i]]
  BY DEF IoInv
<1>2. \A d : Found(d)' = Found(d)
  BY DEF Found, DidIndices
<1>3. IoTypeOK'
  BY <1>1, <1>2 DEF IoInv, IoTypeOK
<1>4. Differ(overrides, overrides', s) /\ Differ(OverrideValues, OverrideValues', s)
      /\ DOMAIN OverrideValues = DOMAIN overrides /\ OverrideValues'[s] = r.value
  BY <1>1 DEF Differ, OverrideValues
<1>. QED BY <1>1, <1>3, <1>4

\* What a refusal leaves alone.
LEMMA IoUnchanged ==
  ASSUME IoInv, UNCHANGED overrides, DataInv,
         DataNext \/ UNCHANGED <<did_registry, did_data, periodic>>
  PROVE  IoInv' /\ Overridden' = Overridden
<1>1. Overridden' = Overridden
  BY DEF Overridden, FreeOverrides
<1>2. IoTypeOK'
  BY RegisteredStays DEF IoInv, IoTypeOK
<1>. QED BY <1>1, <1>2 DEF IoInv, OneSlotEach, Used

\* Returning control is a Remove.
LEMMA ReturnFact ==
  ASSUME IoInv, DataInv, NEW i \in DidIndices, NEW may, ReturnControl(i, may),
         UNCHANGED <<did_registry, did_data, periodic>>
  PROVE  IoInv' /\ (UNCHANGED ioVars \/ OverrideMap!Remove(did_registry[i].did))
<1>. DEFINE d == did_registry[i].did
<1>0. d \in DOMAIN Overridden <=> FindOverride(d) # {}
  BY OverriddenIsMap DEF FindOverride, KeysOf, Used, IoInv
<1>1. CASE Denied(did_registry[i], may)
  BY <1>1, IoUnchanged DEF ReturnControl, RefuseIo, ioVars
<1>2. CASE ~Denied(did_registry[i], may) /\ FindOverride(d) = {}
  <2>1. UNCHANGED overrides /\ io_done' = IoOp("remove", d, <<>>, TRUE)
    BY <1>2 DEF ReturnControl
  <2>2. IoInv' /\ Overridden' = Overridden
    BY <2>1, IoUnchanged
  <2>3. Overridden = [k \in DOMAIN Overridden \ {d} |-> Overridden[k]]
    BY <1>0, <1>2 DEF Overridden
  <2>. QED BY <2>1, <2>2, <2>3 DEF OverrideMap!Remove, IoOp
<1>3. CASE ~Denied(did_registry[i], may) /\ FindOverride(d) # {}
  <2>. DEFINE s == Min(FindOverride(d))
  <2>1. s \in IoSlots /\ overrides[s].active /\ overrides[s].did = d
    <3>1. FindOverride(d) \subseteq Nat
      BY DEF FindOverride, IoSlots
    <3>2. s \in FindOverride(d)
      BY <1>3, <3>1, MinFact
    <3>. QED BY <3>2 DEF FindOverride
  <2>2. /\ overrides' = [overrides EXCEPT ![s] = NoOverride]
        /\ io_done' = IoOp("remove", d, <<>>, TRUE)
    BY <1>3 DEF ReturnControl, Removed
  <2>. HIDE DEF s, d
  <2>3. /\ overrides' = [j \in IoSlots |-> overrides'[j]] /\ IoTypeOK'
        /\ Differ(overrides, overrides', s) /\ Differ(OverrideValues, OverrideValues', s)
        /\ DOMAIN OverrideValues = DOMAIN overrides /\ s \in DOMAIN overrides
        /\ overrides'[s] = NoOverride
    BY <2>1, <2>2, SlotChange
  <2>4. s \in SlotsOf(overrides, d) /\ ~overrides'[s].active
    BY <2>1, <2>3 DEF SlotsOf, Used, NoOverride
  <2>5. /\ OneSlotEach(overrides')
        /\ MapOf(overrides', OverrideValues') = Without(MapOf(overrides, OverrideValues), d)
    BY <2>3, <2>4, RemoveSlot DEF IoInv
  <2>6. Overridden' = [k \in DOMAIN Overridden \ {d} |-> Overridden[k]]
    <3>1. Overridden' = MapOf(overrides', OverrideValues')
      BY <2>3, OverriddenIsMapAfter
    <3>. QED BY <2>5, <3>1, OverriddenIsMap DEF IoInv, Without
  <2>7. IoInv'
    BY <2>3, <2>5 DEF IoInv, OneSlotEach, Used
  <2>. QED BY <2>2, <2>6, <2>7 DEF OverrideMap!Remove, IoOp, d
<1>. QED BY <1>1, <1>2, <1>3

\* An adjustment is a Put, of what fits the slot.
LEMMA AdjustFact ==
  ASSUME IoInv, DataInv, NEW i \in DidIndices, NEW v \in Values \cup {<<>>}, NEW may,
         Adjust(i, v, may), UNCHANGED <<did_registry, did_data, periodic>>
  PROVE  IoInv' /\ (UNCHANGED ioVars
                    \/ (v \in Values /\ OverrideMap!Put(did_registry[i].did, Clamped(v))))
<1>. DEFINE d == did_registry[i].did
            slots == IF FindOverride(d) # {} THEN FindOverride(d) ELSE FreeOverrides
<1>0. OverrideMap!MayPut(d) <=> slots # {}
  BY OverrideRoom
<1>1. CASE Denied(did_registry[i], may) \/ v = <<>>
  <2>1. UNCHANGED ioVars
    BY <1>1 DEF Adjust, RefuseIo
  <2>2. UNCHANGED overrides
    BY <2>1 DEF ioVars
  <2>3. IoInv'
    BY <2>2, IoUnchanged
  <2>. QED BY <2>1, <2>3
<1>2. CASE ~Denied(did_registry[i], may) /\ v # <<>> /\ slots = {}
  <2>1. UNCHANGED overrides /\ io_done' = IoOp("put", d, Clamped(v), FALSE)
    BY <1>2 DEF Adjust
  <2>2. IoInv' /\ Overridden' = Overridden
    BY <2>1, IoUnchanged
  <2>3. OverrideMap!MayPut(d) = FALSE
    BY <1>0, <1>2 DEF OverrideMap!MayPut
  <2>. QED BY <1>2, <2>1, <2>2, <2>3 DEF OverrideMap!Put, OverrideMap!Outcome, IoOp
<1>3. CASE ~Denied(did_registry[i], may) /\ v # <<>> /\ slots # {}
  <2>. DEFINE s == Min(slots)
              r == [did |-> d, value |-> Clamped(v), active |-> TRUE]
  <2>1. s \in slots /\ s \in IoSlots
    <3>1. slots \subseteq IoSlots /\ IoSlots \subseteq Nat
      BY DEF FindOverride, FreeOverrides, IoSlots
    <3>. HIDE DEF slots
    <3>2. s \in slots
      BY <1>3, <3>1, MinFact
    <3>. QED BY <3>1, <3>2
  <2>2. \/ overrides[s].active /\ overrides[s].did = d
        \/ ~overrides[s].active /\ FindOverride(d) = {}
    <3>. HIDE DEF s
    <3>. QED BY <2>1 DEF FindOverride, FreeOverrides
  <2>3. /\ overrides' = [overrides EXCEPT ![s] = r]
        /\ io_done' = IoOp("put", d, Clamped(v), TRUE)
    BY <1>3 DEF Adjust
  <2>4. Found(d) # {} /\ Len(Clamped(v)) \in 1 .. ValueMax
    BY <1>3, ClampedType DEF Found
  <2>5. r.active /\ r.did = d /\ r.value = Clamped(v)
    OBVIOUS
  <2>6. OverrideMap!MayPut(d) = TRUE
    BY <1>0, <1>3 DEF OverrideMap!MayPut
  <2>. HIDE DEF s, d, r, slots
  <2>7. /\ overrides' = [j \in IoSlots |-> overrides'[j]] /\ IoTypeOK'
        /\ Differ(overrides, overrides', s) /\ Differ(OverrideValues, OverrideValues', s)
        /\ DOMAIN OverrideValues = DOMAIN overrides /\ s \in DOMAIN overrides
        /\ overrides'[s] = r /\ OverrideValues'[s] = Clamped(v)
    BY <2>1, <2>3, <2>4, <2>5, SlotChange
  <2>8. \/ s \in SlotsOf(overrides, d)
        \/ ~overrides[s].active /\ SlotsOf(overrides, d) = {}
    BY <2>2, <2>7 DEF SlotsOf, Used, FindOverride, IoInv
  <2>9. /\ OneSlotEach(overrides')
        /\ MapOf(overrides', OverrideValues')
           = With(MapOf(overrides, OverrideValues), d, Clamped(v))
    <3>1. overrides'[s].did = d /\ overrides'[s].active
      BY <2>5, <2>7
    <3>. QED BY <2>7, <2>8, <3>1, PutSlot DEF IoInv
  <2>10. Overridden' = [k \in DOMAIN Overridden \cup {d} |->
                          IF k = d THEN Clamped(v) ELSE Overridden[k]]
    <3>1. Overridden' = MapOf(overrides', OverrideValues')
      BY <2>7, OverriddenIsMapAfter
    <3>. QED BY <2>9, <3>1, OverriddenIsMap DEF IoInv, With
  <2>11. IoInv'
    BY <2>7, <2>9 DEF IoInv, OneSlotEach, Used
  <2>. QED
    BY <1>3, <2>3, <2>6, <2>10, <2>11 DEF OverrideMap!Put, OverrideMap!Outcome, IoOp, d
<1>. QED BY <1>1, <1>2, <1>3

\* One request is a step of the map, or one it does not notice.
LEMMA IoControlFact ==
  ASSUME IoInv, DataInv, NEW may, IoControl(may), UNCHANGED <<did_registry, did_data, periodic>>
  PROVE  IoInv' /\ [OverrideMap!Next]_(OverrideMap!vars)
<1>1. UNCHANGED ioVars => IoInv' /\ UNCHANGED (OverrideMap!vars)
  BY IoUnchanged DEF ioVars, OverrideMap!vars
<1>2. \A i \in DidIndices : did_registry[i].did \in IoKeys
  BY DEF DataInv
<1>3. ASSUME NEW i \in DidIndices, ReturnControl(i, may)
      PROVE  IoInv' /\ [OverrideMap!Next]_(OverrideMap!vars)
  BY <1>1, <1>2, <1>3, ReturnFact DEF OverrideMap!Next
<1>4. ASSUME NEW i \in DidIndices, NEW v \in Values \cup {<<>>}, Adjust(i, v, may)
      PROVE  IoInv' /\ [OverrideMap!Next]_(OverrideMap!vars)
  <2>1. CASE UNCHANGED ioVars
    BY <1>1, <2>1
  <2>2. CASE v \in Values /\ OverrideMap!Put(did_registry[i].did, Clamped(v))
    <3>1. Clamped(v) \in {Clamped(w) : w \in Values}
      BY <2>2
    <3>. QED BY <1>2, <1>4, <2>2, <3>1, AdjustFact DEF OverrideMap!Next
  <2>. QED BY <1>4, <2>1, <2>2, AdjustFact
<1>5. \A i \in DidIndices : Freeze(i, may) => UNCHANGED ioVars
  BY DEF Freeze
<1>6. BadIoRequest => UNCHANGED ioVars
  BY DEF BadIoRequest, RefuseIo
<1>. QED BY <1>1, <1>3, <1>4, <1>5, <1>6 DEF IoControl

\* So is every step of the module.
LEMMA IoStep ==
  ASSUME IoInv, DataInv, [IoNext]_<<dataVars, ioVars>>
  PROVE  IoInv' /\ DataInv' /\ [OverrideMap!Next]_(OverrideMap!vars)
<1>1. CASE UNCHANGED ioVars /\ (DataNext \/ UNCHANGED dataVars)
  BY <1>1, IoUnchanged, DataStepKeeps DEF ioVars, dataVars, OverrideMap!vars
<1>2. ASSUME NEW may \in BOOLEAN, IoControl(may), UNCHANGED <<did_registry, did_data, periodic>>
      PROVE  IoInv' /\ DataInv' /\ [OverrideMap!Next]_(OverrideMap!vars)
  BY <1>2, IoControlFact, DataStepKeeps
<1>. QED BY <1>1, <1>2 DEF IoNext

\* At first the table and the map are empty.
LEMMA IoInvInit == IoInit => IoInv /\ OverrideMap!Init
<1>. SUFFICES ASSUME IoInit PROVE IoInv /\ OverrideMap!Init
  OBVIOUS
<1>1. IoInv /\ KeysOf(overrides) = {}
  BY DEF IoInit, IoInv, IoTypeOK, OneSlotEach, Used, NoOverride, KeysOf
<1>2. Overridden = [k \in {} |-> <<>>]
  <2>1. DOMAIN Overridden = {} /\ Overridden = [k \in DOMAIN Overridden |-> Overridden[k]]
    BY <1>1, OverriddenIsMap DEF Overridden, IoInv
  <2>. QED BY <2>1
<1>. QED BY <1>1, <1>2 DEF OverrideMap!Init, IoInit, IoOp

\* Both invariants hold from the start.
LEMMA IoAlwaysInv == IoSpec => [](IoInv /\ DataInv)
  BY IoInvInit, DataInvInit, IoStep, PTL DEF IoSpec

\* An override is of a registered identifier and fits its slot; a slot given back
\* is blank: nothing of its last use shows through in the next.
THEOREM IoTypeCorrect == IoSpec => []IoTypeOK
<1>1. IoInv => IoTypeOK
  BY DEF IoInv
<1>. QED BY <1>1, IoAlwaysInv, PTL

\* Adjusting and returning control in any order leaves a map: an identifier is
\* overridden with the value last accepted for it until control is returned,
\* and an adjustment is refused for want of room only if there is none.
THEOREM OverridesAlwaysMap == IoSpec => OverridesAreMap
<1>1. IoInit => OverrideMap!Init
  BY IoInvInit
<1>2. IoInv /\ DataInv /\ [IoNext]_<<dataVars, ioVars>> => [OverrideMap!Next]_(OverrideMap!vars)
  BY IoStep
<1>. QED BY <1>1, <1>2, IoAlwaysInv, PTL DEF IoSpec, OverridesAreMap, OverrideMap!Spec

-----------------------------------------------------------------------------
(* The memory of the data services. *)

\* Every region that can ever be registered, and the buffer one has.
KnownRegions == {r \in Regions \cup {DefaultRegion} : r.start <= r.end}
Buffers == UNION {[0 .. n -> MemBytes] : n \in Nat}

\* No two different regions have an address in common.
RegionsApart ==
  \A r, s \in KnownRegions : r # s => (r.end < s.start \/ s.end < r.start)

Inside(r, x) == r.start <= x /\ x <= r.end

\* The byte an address ought to hold.
ByteOf(x) == IF x \in DOMAIN written THEN written[x] ELSE Erased

\* A region registered a second time has a second buffer, which no search finds.
FirstOf(i) == \A j \in 1 .. i - 1 : regions[j] # regions[i]

\* The tables of regions and buffers keep their types.
MemoryInv ==
  /\ regions \in Seq(KnownRegions) /\ memory \in Seq(Buffers)
  /\ MemoryTypeOK

\* What regions that are found hold is what was written, and only there was
\* anything written.
ContentInv ==
  /\ \A i \in 1 .. Len(regions) : FirstOf(i) =>
       \A o \in 0 .. regions[i].end - regions[i].start :
         memory[i][o] = ByteOf(regions[i].start + o)
  /\ \A x \in DOMAIN written : x \in Nat /\ \E i \in 1 .. Len(regions) : Inside(regions[i], x)

\* Addresses of a range inside a region, as offsets, and outside of another.
LEMMA RangeFact ==
  ASSUME NEW lo \in Nat, NEW hi \in Nat, NEW a \in Nat, NEW n \in Nat, lo <= a, a + n - 1 <= hi
  PROVE  /\ \A k \in 1 .. n : a - lo + k - 1 \in 0 .. hi - lo /\ lo + (a - lo + k - 1) = a + k - 1
         /\ \A s, e, o \in Nat : o <= e - s /\ (e < lo \/ hi < s) => s + o \notin a .. a + n - 1
<1>1. ASSUME NEW k \in 1 .. n
      PROVE  a - lo + k - 1 \in 0 .. hi - lo /\ lo + (a - lo + k - 1) = a + k - 1
  OBVIOUS
<1>2. ASSUME NEW s \in Nat, NEW e \in Nat, NEW o \in Nat, o <= e - s, e < lo \/ hi < s
      PROVE  s + o \notin a .. a + n - 1
  BY <1>2
<1>. QED BY <1>1, <1>2

\* A region has two ends.
LEMMA RegionType ==
  ASSUME NEW r \in KnownRegions
  PROVE  r \in Region /\ r.start \in Nat /\ r.end \in Nat /\ r.start <= r.end
BY MemoryParameters DEF KnownRegions, Region

\* The buffer of a region that may be registered.
LEMMA BufferType ==
  ASSUME NEW r \in KnownRegions
  PROVE  Buffer(r) \in [0 .. r.end - r.start -> MemBytes] /\ Buffer(r) \in Buffers
<1>1. r.end - r.start \in Nat
  BY RegionType
<1>2. Buffer(r) \in [0 .. r.end - r.start -> MemBytes]
  BY MemoryParameters DEF Buffer
<1>. QED BY <1>1, <1>2 DEF Buffers

\* uds_svc_data_init registers one region.
LEMMA MemoryInvInit == MemoryInit => MemoryInv /\ ContentInv
<1>. SUFFICES ASSUME MemoryInit PROVE MemoryInv /\ ContentInv
  OBVIOUS
<1>0. DefaultRegion \in KnownRegions
  BY MemoryParameters DEF KnownRegions
<1>1. /\ Buffer(DefaultRegion) \in Buffers
      /\ Buffer(DefaultRegion) \in [0 .. DefaultRegion.end - DefaultRegion.start -> MemBytes]
  BY <1>0, BufferType
<1>2. MemoryInv
  BY <1>0, <1>1, MemoryParameters DEF MemoryInit, MemoryInv, MemoryTypeOK
<1>3. ContentInv
  <2>1. Len(regions) = 1 /\ regions[1] = DefaultRegion /\ memory[1] = Buffer(DefaultRegion)
        /\ DOMAIN written = {}
    BY DEF MemoryInit, NoBytes
  <2>2. \A i \in 1 .. Len(regions) : i = 1
    BY <2>1
  <2>3. \A o \in 0 .. DefaultRegion.end - DefaultRegion.start :
          Buffer(DefaultRegion)[o] = Erased
    BY DEF Buffer
  <2>4. \A x : ByteOf(x) = Erased
    BY <2>1 DEF ByteOf
  <2>. QED BY <2>1, <2>2, <2>3, <2>4 DEF ContentInv
<1>. QED BY <1>2, <1>3

\* A registration appends a region and a buffer.
LEMMA RegisterMemoryAppends ==
  ASSUME MemoryInv, NEW r \in Regions, RegisterMemory(r)
  PROVE  /\ MemoryInv' /\ \A i \in 1 .. Len(memory) : memory'[i] = memory[i]
         /\ Len(regions) \in Nat /\ Len(memory) = Len(regions)
         /\ Len(regions') = Len(regions) + 1
         /\ \A i \in 1 .. Len(regions) : regions'[i] = regions[i]
         /\ regions'[Len(regions) + 1] = r /\ memory'[Len(regions) + 1] = Buffer(r)
<1>1. r \in KnownRegions
  BY DEF KnownRegions, RegisterMemory
<1>2. Buffer(r) \in [0 .. r.end - r.start -> MemBytes] /\ Buffer(r) \in Buffers
  BY <1>1, BufferType
<1>3. regions' = Append(regions, r) /\ memory' = Append(memory, Buffer(r))
      /\ Len(regions) < RegionsMax
  BY DEF RegisterMemory, RoomForRegion
<1>4. regions \in Seq(KnownRegions) /\ memory \in Seq(Buffers) /\ Len(memory) = Len(regions)
      /\ Len(regions) \in Nat
  BY DEF MemoryInv, MemoryTypeOK
<1>5. /\ regions' \in Seq(KnownRegions) /\ Len(regions') = Len(regions) + 1
      /\ \A i \in 1 .. Len(regions) : regions'[i] = regions[i]
      /\ regions'[Len(regions) + 1] = r
  BY <1>1, <1>3, <1>4, AppendProperties
<1>6. /\ memory' \in Seq(Buffers) /\ Len(memory') = Len(memory) + 1
      /\ \A i \in 1 .. Len(memory) : memory'[i] = memory[i]
      /\ memory'[Len(memory) + 1] = Buffer(r)
  BY <1>2, <1>3, <1>4, AppendProperties
<1>7. ASSUME NEW i \in 1 .. Len(regions')
      PROVE  memory'[i] \in [0 .. regions'[i].end - regions'[i].start -> MemBytes]
  <2>1. CASE i = Len(regions) + 1
    BY <1>1, <1>2, <1>4, <1>5, <1>6, <2>1
  <2>2. CASE i \in 1 .. Len(regions)
    BY <1>4, <1>5, <1>6, <2>2 DEF MemoryInv, MemoryTypeOK
  <2>. QED BY <1>4, <1>5, <2>1, <2>2
<1>8. Len(regions') \in 1 .. RegionsMax
  BY <1>3, <1>4, <1>5, MemoryParameters
<1>9. MemoryInv'
  BY <1>4, <1>5, <1>6, <1>7, <1>8 DEF MemoryInv, MemoryTypeOK
<1>. QED BY <1>4, <1>5, <1>6, <1>9

\* A region that does not overlap another is blank when it is registered.
LEMMA RegisterMemoryContent ==
  ASSUME RegionsApart, MemoryInv, ContentInv, NEW r \in Regions, RegisterMemory(r)
  PROVE  ContentInv'
<1>1. UNCHANGED written
  BY DEF RegisterMemory
<1>2. ASSUME NEW i \in 1 .. Len(regions'), FirstOf(i)',
             NEW o \in 0 .. regions'[i].end - regions'[i].start
      PROVE  memory'[i][o] = ByteOf(regions'[i].start + o)
  <2>1. CASE i \in 1 .. Len(regions)
    <3>1. regions'[i] = regions[i] /\ memory'[i] = memory[i]
      BY <2>1, RegisterMemoryAppends
    <3>2. \A j \in 1 .. i - 1 : regions'[j] = regions[j]
      BY <2>1, RegisterMemoryAppends
    <3>3. FirstOf(i)
      BY <1>2, <3>1, <3>2 DEF FirstOf
    <3>. QED BY <2>1, <3>1, <3>3 DEF ContentInv
  <2>2. CASE i = Len(regions) + 1
    <3>1. regions'[i] = r /\ memory'[i] = Buffer(r) /\ r \in KnownRegions
      BY <2>2, RegisterMemoryAppends DEF KnownRegions, RegisterMemory
    <3>2. r.start \in Nat /\ r.end \in Nat /\ o \in Nat /\ Inside(r, r.start + o)
      BY <3>1, RegionType DEF Inside
    <3>3. ASSUME r.start + o \in DOMAIN written PROVE FALSE
      <4>1. PICK j \in 1 .. Len(regions) : Inside(regions[j], r.start + o)
        BY <3>3 DEF ContentInv
      <4>2. regions[j] \in KnownRegions /\ regions'[j] = regions[j]
        BY RegisterMemoryAppends DEF MemoryInv
      <4>3. j \in 1 .. i - 1
        BY <2>2, RegisterMemoryAppends
      <4>4. regions[j] # r
        BY <1>2, <3>1, <4>2, <4>3 DEF FirstOf
      <4>5. regions[j].end < r.start \/ r.end < regions[j].start
        BY <3>1, <4>2, <4>4 DEF RegionsApart
      <4>6. regions[j].start \in Nat /\ regions[j].end \in Nat
        BY <4>2, RegionType
      <4>. QED BY <3>2, <4>1, <4>5, <4>6 DEF Inside
    <3>4. memory'[i][o] = Erased
      BY <1>2, <3>1 DEF Buffer
    <3>. QED BY <3>1, <3>3, <3>4 DEF ByteOf
  <2>. QED BY <2>1, <2>2, RegisterMemoryAppends
<1>3. ASSUME NEW x \in DOMAIN written
      PROVE  x \in Nat /\ \E i \in 1 .. Len(regions') : Inside(regions'[i], x)
  <2>1. PICK i \in 1 .. Len(regions) : Inside(regions[i], x)
    BY DEF ContentInv
  <2>2. i \in 1 .. Len(regions') /\ regions'[i] = regions[i]
    BY RegisterMemoryAppends
  <2>. QED BY <2>1, <2>2 DEF ContentInv
<1>4. \A x : ByteOf(x)' = ByteOf(x)
  BY <1>1 DEF ByteOf
<1>. QED BY <1>1, <1>2, <1>3, <1>4 DEF ContentInv

\* Below the address space nothing wraps; a sum that does is less than its start.
LEMMA LastFact ==
  ASSUME NEW a \in Starts, NEW n \in Lengths, n # 0, LastAddress(a, n) >= a
  PROVE  a \in Nat /\ n \in Nat /\ n >= 1 /\ LastAddress(a, n) = a + n - 1
<1>1. /\ a \in 0 .. AddressSpace - 1 /\ n \in 1 .. AddressSpace - 1
      /\ AddressSpace \in Nat \ {0}
  BY MemoryParameters
<1>2. CASE a + n - 1 < AddressSpace
  BY <1>1, <1>2 DEF LastAddress
<1>3. CASE a + n - 1 >= AddressSpace
  <2>. DEFINE q == (a + n - 1) \div AddressSpace
              m == (a + n - 1) % AddressSpace
  <2>1. q \in Int /\ m \in 0 .. AddressSpace - 1 /\ a + n - 1 = q * AddressSpace + m
    BY <1>1
  <2>2. q >= 1
    <3>. HIDE DEF q, m
    <3>1. ASSUME q <= 0 PROVE FALSE
      <4>1. q * AddressSpace <= 0
        BY <1>1, <2>1, <3>1
      <4>. QED BY <1>1, <1>3, <2>1, <4>1
    <3>. QED BY <2>1, <3>1
  <2>3. q * AddressSpace >= AddressSpace
    <3>. HIDE DEF q, m
    <3>. QED BY <1>1, <2>1, <2>2
  <2>4. m < a
    <3>. HIDE DEF q, m
    <3>. QED BY <1>1, <2>1, <2>3
  <2>. QED BY <1>1, <2>4 DEF LastAddress
<1>. QED BY <1>1, <1>2, <1>3

\* The search returns a region that covers the whole range, and the first of
\* those that are the same.
LEMMA FindRegionFact ==
  ASSUME MemoryInv, NEW a \in Starts, NEW n \in Lengths, n # 0, FindRegion(a, n) # 0
  PROVE  LET i == FindRegion(a, n) IN
         /\ i \in 1 .. Len(regions) /\ FirstOf(i)
         /\ a \in Nat /\ n \in Nat /\ n >= 1
         /\ regions[i].start \in Nat /\ regions[i].end \in Nat
         /\ regions[i].start <= a /\ a + n - 1 <= regions[i].end
         /\ memory[i] \in [0 .. regions[i].end - regions[i].start -> MemBytes]
<1>. DEFINE found == {i \in 1 .. Len(regions) : Covers(regions[i], a, n)}
            i == FindRegion(a, n)
<1>1. ~(LastAddress(a, n) < a) /\ found # {} /\ i = Min(found)
  BY DEF FindRegion
<1>2. i \in found /\ \A k \in found : i <= k
  <2>1. found \subseteq Nat
    OBVIOUS
  <2>. HIDE DEF found
  <2>. QED BY <1>1, <2>1, MinFact
<1>3. LastAddress(a, n) >= a
  <2>1. a \in Int /\ LastAddress(a, n) \in Int
    BY MemoryParameters DEF LastAddress
  <2>. QED BY <1>1, <2>1
<1>4. a \in Nat /\ n \in Nat /\ n >= 1 /\ LastAddress(a, n) = a + n - 1
  BY <1>3, LastFact
<1>. HIDE DEF i
<1>5. i \in 1 .. Len(regions) /\ regions[i].start <= a /\ a + n - 1 <= regions[i].end
  BY <1>2, <1>4 DEF Covers
<1>6. regions[i].start \in Nat /\ regions[i].end \in Nat
  BY <1>5, RegionType DEF MemoryInv
<1>7. FirstOf(i)
  <2>1. ASSUME NEW j \in 1 .. i - 1, regions[j] = regions[i] PROVE FALSE
    <3>1. j \in 1 .. Len(regions) /\ Len(regions) \in Nat
      BY <1>5 DEF MemoryInv
    <3>2. j \in found
      BY <1>2, <2>1, <3>1
    <3>. QED BY <1>2, <1>5, <3>1, <3>2
  <2>. QED BY <2>1 DEF FirstOf
<1>8. memory[i] \in [0 .. regions[i].end - regions[i].start -> MemBytes]
  BY <1>5 DEF MemoryInv, MemoryTypeOK
<1>. QED BY <1>4, <1>5, <1>6, <1>7, <1>8 DEF i

\* A write puts other bytes into one buffer.
LEMMA WriteMemoryKeeps ==
  ASSUME MemoryInv, NEW a \in Starts, NEW n \in Lengths, NEW b \in MemBytes, NEW may,
         NEW complete, WriteMemory(a, n, b, may, complete)
  PROVE  /\ MemoryInv' /\ UNCHANGED regions
         /\ \/ UNCHANGED <<memory, written>>
            \/ LET i == FindRegion(a, n) IN
               /\ n # 0 /\ i # 0
               /\ memory' = [memory EXCEPT ![i] = Overwritten(i, a, n, b)]
               /\ written' = [x \in DOMAIN written \cup a .. a + n - 1 |->
                                IF x \in a .. a + n - 1 THEN b ELSE written[x]]
<1>0. UNCHANGED regions
  BY DEF WriteMemory
<1>1. CASE WriteMemoryRefusal(a, n, may, complete) # "NONE"
  BY <1>0, <1>1 DEF WriteMemory, MemoryInv, MemoryTypeOK
<1>2. CASE WriteMemoryRefusal(a, n, may, complete) = "NONE"
  <2>. DEFINE i == FindRegion(a, n)
  <2>1. n # 0 /\ i # 0
    BY <1>2 DEF WriteMemoryRefusal
  <2>2. /\ memory' = [memory EXCEPT ![i] = Overwritten(i, a, n, b)]
        /\ written' = [x \in DOMAIN written \cup a .. a + n - 1 |->
                         IF x \in a .. a + n - 1 THEN b ELSE written[x]]
    BY <1>2 DEF WriteMemory
  <2>3. i \in 1 .. Len(regions) /\ regions[i].start \in Nat /\ regions[i].end \in Nat
        /\ memory[i] \in [0 .. regions[i].end - regions[i].start -> MemBytes]
    BY <2>1, FindRegionFact
  <2>. HIDE DEF i
  <2>4. Overwritten(i, a, n, b) \in [0 .. regions[i].end - regions[i].start -> MemBytes]
    BY <2>3 DEF Overwritten
  <2>5. regions[i].end - regions[i].start \in Nat
    BY <2>3, RegionType DEF MemoryInv
  <2>6. Overwritten(i, a, n, b) \in Buffers
    BY <2>4, <2>5 DEF Buffers
  <2>7. Len(memory) = Len(regions) /\ memory \in Seq(Buffers)
    BY DEF MemoryInv, MemoryTypeOK
  <2>8. memory' \in Seq(Buffers) /\ Len(memory') = Len(memory) /\ memory'[i] = Overwritten(i, a, n, b)
        /\ \A k \in 1 .. Len(memory) : k # i => memory'[k] = memory[k]
    BY <2>2, <2>3, <2>6, <2>7
  <2>9. MemoryInv'
    BY <1>0, <2>4, <2>7, <2>8 DEF MemoryInv, MemoryTypeOK
  <2>. QED BY <1>0, <2>1, <2>2, <2>9 DEF i
<1>. QED BY <1>1, <1>2

\* A write changes what an address holds exactly if it names the address, in
\* every region that is ever found.
LEMMA WriteMemoryContent ==
  ASSUME RegionsApart, MemoryInv, ContentInv, NEW a \in Starts, NEW n \in Lengths,
         NEW b \in MemBytes, NEW may, NEW complete, WriteMemory(a, n, b, may, complete)
  PROVE  ContentInv'
<1>0. UNCHANGED regions
  BY DEF WriteMemory
<1>1. CASE UNCHANGED <<memory, written>>
  BY <1>0, <1>1 DEF ContentInv, FirstOf, ByteOf
<1>2. CASE ~UNCHANGED <<memory, written>>
  <2>. DEFINE i == FindRegion(a, n)
              r == regions[i]
              NewByte(x) == IF x \in DOMAIN written' THEN written'[x] ELSE Erased
  <2>1. /\ n # 0 /\ i # 0
        /\ memory' = [memory EXCEPT ![i] = Overwritten(i, a, n, b)]
        /\ written' = [x \in DOMAIN written \cup a .. a + n - 1 |->
                         IF x \in a .. a + n - 1 THEN b ELSE written[x]]
    BY <1>2, WriteMemoryKeeps
  <2>2. /\ i \in 1 .. Len(regions) /\ FirstOf(i)
        /\ a \in Nat /\ n \in Nat /\ n >= 1
        /\ r.start \in Nat /\ r.end \in Nat /\ r.start <= a /\ a + n - 1 <= r.end
        /\ memory[i] \in [0 .. r.end - r.start -> MemBytes]
    BY <2>1, FindRegionFact
  <2>. HIDE DEF i
  <2>3. \A x : NewByte(x) = IF x \in a .. a + n - 1 THEN b ELSE ByteOf(x)
    BY <2>1 DEF ByteOf
  <2>. HIDE DEF NewByte
  <2>4. Len(memory) = Len(regions) /\ memory \in Seq(Buffers) /\ Len(regions) \in Nat
    BY DEF MemoryInv, MemoryTypeOK
  <2>5. memory'[i] = Overwritten(i, a, n, b)
        /\ \A k \in 1 .. Len(regions) : k # i => memory'[k] = memory[k]
    BY <2>1, <2>2, <2>4
  <2>6. ASSUME NEW k \in 1 .. Len(regions), FirstOf(k),
               NEW o \in 0 .. regions[k].end - regions[k].start
        PROVE  memory'[k][o] = NewByte(regions[k].start + o)
    <3>1. memory[k][o] = ByteOf(regions[k].start + o)
      BY <2>6 DEF ContentInv
    <3>2. regions[k] \in KnownRegions
      BY DEF MemoryInv
    <3>3. regions[k].start \in Nat /\ regions[k].end \in Nat /\ o \in Nat
          /\ o <= regions[k].end - regions[k].start
      BY <3>2, RegionType
    <3>4. CASE k = i
      <4>1. Overwritten(i, a, n, b)[o]
            = IF r.start + o \in a .. a + n - 1 THEN b ELSE memory[i][o]
        BY <2>2, <2>6, <3>3, <3>4 DEF Overwritten
      <4>2. NewByte(r.start + o) = IF r.start + o \in a .. a + n - 1 THEN b ELSE ByteOf(r.start + o)
        BY <2>3
      <4>. QED BY <2>5, <3>1, <3>4, <4>1, <4>2
    <3>5. CASE k # i
      <4>1. regions[k] # r
        <5>1. k < i \/ i < k
          BY <2>2, <3>5
        <5>2. CASE k < i
          <6>1. k \in 1 .. i - 1
            BY <2>2, <5>2
          <6>. QED BY <2>2, <6>1 DEF FirstOf
        <5>3. CASE i < k
          <6>1. i \in 1 .. k - 1
            BY <2>2, <5>3
          <6>. QED BY <2>6, <6>1 DEF FirstOf
        <5>. QED BY <5>1, <5>2, <5>3
      <4>2. r \in KnownRegions
        BY <2>2 DEF MemoryInv
      <4>3. regions[k].end < r.start \/ r.end < regions[k].start
        BY <3>2, <4>1, <4>2 DEF RegionsApart
      <4>4. regions[k].start + o \notin a .. a + n - 1
        <5>. HIDE DEF r
        <5>. QED BY <2>2, <3>3, <4>3, RangeFact
      <4>5. NewByte(regions[k].start + o) = ByteOf(regions[k].start + o)
        BY <2>3, <4>4
      <4>. QED BY <2>5, <3>1, <3>5, <4>5
    <3>. QED BY <3>4, <3>5
  <2>7. ASSUME NEW x \in DOMAIN written'
        PROVE  x \in Nat /\ \E k \in 1 .. Len(regions) : Inside(regions[k], x)
    <3>1. CASE x \in DOMAIN written
      BY <3>1 DEF ContentInv
    <3>2. CASE x \in a .. a + n - 1
      <4>1. x \in Nat /\ Inside(r, x)
        <5>. HIDE DEF r
        <5>. QED BY <2>2, <3>2 DEF Inside
      <4>. QED BY <2>2, <4>1
    <3>. QED BY <2>1, <3>1, <3>2
  <2>8. \A k : FirstOf(k)' = FirstOf(k)
    BY <1>0 DEF FirstOf
  <2>. QED BY <1>0, <2>6, <2>7, <2>8 DEF ContentInv, ByteOf, NewByte
<1>. QED BY <1>1, <1>2

\* A positive answer carries what the addresses hold.
LEMMA ReadMemoryRight ==
  ASSUME MemoryInv, ContentInv, NEW a \in Starts, NEW n \in Lengths, ReadMemory(a, n)
  PROVE  ReadsWhatWasWritten'
<1>0. UNCHANGED <<regions, memory, written>>
  BY DEF ReadMemory
<1>1. CASE ReadMemoryRefusal(a, n) # "NONE"
  <2>1. memory_rsp'.data = <<>>
    BY <1>1 DEF ReadMemory
  <2>. QED BY <2>1 DEF ReadsWhatWasWritten
<1>2. CASE ReadMemoryRefusal(a, n) = "NONE"
  <2>. DEFINE i == FindRegion(a, n)
              r == regions[i]
  <2>1. n # 0 /\ i # 0
    BY <1>2 DEF ReadMemoryRefusal
  <2>2. /\ i \in 1 .. Len(regions) /\ FirstOf(i) /\ a \in Nat /\ n \in Nat
        /\ r.start \in Nat /\ r.end \in Nat /\ r.start <= a /\ a + n - 1 <= r.end
    BY <2>1, FindRegionFact
  <2>3. memory_rsp'.data = BytesAt(i, a, n) /\ memory_rsp'.start = a
    BY <1>2 DEF ReadMemory
  <2>. HIDE DEF i
  <2>4. ASSUME NEW k \in 1 .. n PROVE memory[i][a - r.start + k - 1] = ByteOf(a + k - 1)
    <3>1. a - r.start + k - 1 \in 0 .. r.end - r.start /\ r.start + (a - r.start + k - 1) = a + k - 1
      <4>. HIDE DEF r
      <4>. QED BY <2>2, RangeFact
    <3>. QED BY <2>2, <3>1 DEF ContentInv
  <2>5. \A k \in DOMAIN memory_rsp'.data : memory_rsp'.data[k] = ByteOf(a + k - 1)
    BY <2>3, <2>4 DEF BytesAt
  <2>. QED BY <1>0, <2>3, <2>5 DEF ReadsWhatWasWritten, ByteOf
<1>. QED BY <1>1, <1>2

\* The three together are kept by every step.
LEMMA MemoryStep ==
  ASSUME MemoryInv, [MemoryNext]_memoryVars
  PROVE  /\ MemoryInv'
         /\ RegionsApart /\ ContentInv /\ ReadsWhatWasWritten
              => ContentInv' /\ ReadsWhatWasWritten'
<1>1. CASE UNCHANGED memoryVars
  BY <1>1 DEF memoryVars, MemoryInv, MemoryTypeOK, ContentInv, FirstOf, ByteOf,
              ReadsWhatWasWritten
<1>2. ASSUME NEW r \in Regions, RegisterMemory(r)
      PROVE  /\ MemoryInv'
             /\ RegionsApart /\ ContentInv /\ ReadsWhatWasWritten
                  => ContentInv' /\ ReadsWhatWasWritten'
  <2>1. ReadsWhatWasWritten => ReadsWhatWasWritten'
    BY <1>2 DEF RegisterMemory, ReadsWhatWasWritten
  <2>. QED BY <1>2, <2>1, RegisterMemoryAppends, RegisterMemoryContent
<1>3. ASSUME NEW a \in Starts, NEW n \in Lengths, ReadMemory(a, n)
      PROVE  MemoryInv' /\ (ContentInv => ContentInv' /\ ReadsWhatWasWritten')
  <2>1. MemoryInv' /\ (ContentInv => ContentInv')
    BY <1>3 DEF ReadMemory, MemoryInv, MemoryTypeOK, ContentInv, FirstOf, ByteOf
  <2>. QED BY <1>3, <2>1, ReadMemoryRight
<1>4. ASSUME NEW a \in Starts, NEW n \in Lengths, NEW b \in MemBytes, NEW may, NEW complete,
             WriteMemory(a, n, b, may, complete)
      PROVE  /\ MemoryInv' /\ ReadsWhatWasWritten'
             /\ RegionsApart /\ ContentInv => ContentInv'
  <2>1. memory_rsp'.data = <<>>
    BY <1>4 DEF WriteMemory
  <2>2. ReadsWhatWasWritten'
    BY <2>1 DEF ReadsWhatWasWritten
  <2>. QED BY <1>4, <2>2, WriteMemoryKeeps, WriteMemoryContent
<1>. QED BY <1>1, <1>2, <1>3, <1>4 DEF MemoryNext

\* A buffer always has all the bytes of its region, whatever is registered.
THEOREM MemoryTypeCorrect == MemorySpec => []MemoryTypeOK
<1>1. MemoryInv => MemoryTypeOK
  BY DEF MemoryInv
<1>. QED BY <1>1, MemoryInvInit, MemoryStep, PTL DEF MemorySpec

\* Memory reads back what was last written to each address, through any ranges,
\* if no two different regions overlap: uds_register_memory_region does not
\* look, so that much is the integrator's to see to.
THEOREM AlwaysReadsWhatWasWritten ==
  ASSUME RegionsApart
  PROVE  MemorySpec => []ReadsWhatWasWritten
<1>. DEFINE Inv == MemoryInv /\ ContentInv /\ ReadsWhatWasWritten
<1>1. MemoryInit => Inv
  <2>1. MemoryInit => ReadsWhatWasWritten
    BY DEF MemoryInit, ReadsWhatWasWritten
  <2>. QED BY <2>1, MemoryInvInit
<1>2. Inv /\ [MemoryNext]_memoryVars => Inv'
  BY MemoryStep
<1>. QED BY <1>1, <1>2, PTL DEF MemorySpec
=============================================================================
