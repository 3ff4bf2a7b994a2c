----------------------------- MODULE UdsMemory ------------------------------
(***************************************************************************)
(* ReadMemoryByAddress and WriteMemoryByAddress (0x23 and 0x3D in          *)
(* uds_svc_data) on the regions registered with the data services, which   *)
(* are not those of the transfer services.                                 *)
(***************************************************************************)
EXTENDS Naturals, Sequences, FiniteSets, FiniteSetsExt

CONSTANTS
  DefaultRegion,  \* the region uds_svc_data_init registers
  Regions,        \* regions the integrator registers, as [start, end]
  RegionsMax,     \* UDS_MEM_REGION_MAX
  MemBytes,       \* bytes the tester writes
  Erased,         \* byte a region holds at first
  Starts,         \* addresses the tester sends
  Lengths,        \* sizes the tester sends
  AddressSpace,   \* 2^32
  MaxRead         \* data bytes the response buffer holds beside the header

Region == [start : Nat, end : Nat]

ASSUME MemoryParameters ==
  /\ DefaultRegion \in Region /\ Regions \subseteq Region
  /\ DefaultRegion.start <= DefaultRegion.end
  /\ Erased \in MemBytes
  /\ RegionsMax \in Nat \ {0} /\ AddressSpace \in Nat \ {0} /\ MaxRead \in Nat
  /\ Starts \cup Lengths \subseteq 0 .. AddressSpace - 1

VARIABLES
  regions,     \* the regions registered
  memory,      \* their buffers, by offset
  memory_rsp,  \* the last answer
  written      \* history: the last byte written to each address

memoryVars == <<regions, memory, memory_rsp, written>>

NoBytes == [a \in {} |-> Erased]
Buffer(r) == [o \in 0 .. r.end - r.start |-> Erased]

\* uds_svc_data_init
MemoryInit ==
  /\ regions = <<DefaultRegion>>
  /\ memory = <<Buffer(DefaultRegion)>>
  /\ memory_rsp = [nrc |-> "NONE", start |-> 0, data |-> <<>>]
  /\ written = NoBytes

RoomForRegion == Len(regions) < RegionsMax

\* uds_register_memory_region; otherwise it only returns false.
RegisterMemory(r) ==
  /\ r.start <= r.end /\ RoomForRegion
  /\ regions' = Append(regions, r)
  /\ memory' = Append(memory, Buffer(r))
  /\ UNCHANGED <<memory_rsp, written>>

-----------------------------------------------------------------------------
\* The last address of a range, in the width of an address.
LastAddress(a, n) == (a + n - 1) % AddressSpace

Covers(r, a, n) == r.start <= a /\ LastAddress(a, n) <= r.end

\* find_memory_region: the first region that covers the range; 0 for NULL.
FindRegion(a, n) ==
  LET found == {i \in 1 .. Len(regions) : Covers(regions[i], a, n)} IN
  IF LastAddress(a, n) < a \/ found = {} THEN 0 ELSE Min(found)

ReadMemoryRefusal(a, n) ==
  IF n = 0 THEN "IMLOIF"
  ELSE IF FindRegion(a, n) = 0 THEN "ROOR"
  ELSE IF n > MaxRead THEN "RTL"
  ELSE "NONE"

BytesAt(i, a, n) == [k \in 1 .. n |-> memory[i][a - regions[i].start + k - 1]]

\* 0x23 ReadMemoryByAddress
ReadMemory(a, n) ==
  LET nrc == ReadMemoryRefusal(a, n) IN
  /\ memory_rsp' = [nrc |-> nrc, start |-> a,
                    data |-> IF nrc = "NONE" THEN BytesAt(FindRegion(a, n), a, n) ELSE <<>>]
  /\ UNCHANGED <<regions, memory, written>>

\* complete: the request carries all the bytes it announces.
WriteMemoryRefusal(a, n, unlocked, complete) ==
  IF ~unlocked THEN "SAD"
  ELSE IF n = 0 \/ ~complete THEN "IMLOIF"
  ELSE IF FindRegion(a, n) = 0 THEN "ROOR"
  ELSE "NONE"

\* Mutated form of Overwritten: the offset in the region is dropped.
OverwrittenAtStart(i, a, n, b) ==
  [o \in DOMAIN memory[i] |-> IF o < n THEN b ELSE memory[i][o]]

Overwritten(i, a, n, b) ==
  [o \in DOMAIN memory[i] |->
     IF a <= regions[i].start + o /\ regions[i].start + o < a + n THEN b ELSE memory[i][o]]

\* 0x3D WriteMemoryByAddress; n copies of a byte stand for the data.
WriteMemory(a, n, b, unlocked, complete) ==
  LET nrc == WriteMemoryRefusal(a, n, unlocked, complete)
      i == FindRegion(a, n) IN
  /\ memory_rsp' = [nrc |-> nrc, start |-> a, data |-> <<>>]
  /\ IF nrc = "NONE"
     THEN /\ memory' = [memory EXCEPT ![i] = Overwritten(i, a, n, b)]
          /\ written' = [x \in DOMAIN written \cup a .. a + n - 1 |->
                           IF x \in a .. a + n - 1 THEN b ELSE written[x]]
     ELSE UNCHANGED <<memory, written>>
  /\ UNCHANGED regions

MemoryNext ==
  \/ \E r \in Regions : RegisterMemory(r)
  \/ \E a \in Starts, n \in Lengths :
       \/ ReadMemory(a, n)
       \/ \E b \in MemBytes, unlocked, complete \in BOOLEAN :
            WriteMemory(a, n, b, unlocked, complete)

MemorySpec == MemoryInit /\ [][MemoryNext]_memoryVars

-----------------------------------------------------------------------------
(* Types of the regions and their buffers. *)
MemoryTypeOK ==
  /\ Len(memory) = Len(regions) /\ Len(regions) \in 1 .. RegionsMax
  /\ \A i \in 1 .. Len(regions) :
       memory[i] \in [0 .. regions[i].end - regions[i].start -> MemBytes]

\* A positive answer to 0x23 carries, for every address, the byte the last
\* accepted 0x3D put there, through whichever ranges the two requests named it.
\* It needs regions that do not overlap, which nothing in the code demands.
ReadsWhatWasWritten ==
  \A k \in DOMAIN memory_rsp.data :
    LET a == memory_rsp.start + k - 1 IN
    memory_rsp.data[k] = IF a \in DOMAIN written THEN written[a] ELSE Erased
=============================================================================
