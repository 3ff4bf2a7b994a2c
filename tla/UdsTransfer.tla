----------------------------- MODULE UdsTransfer -----------------------------
(***************************************************************************)
(* Upload and download (uds_svc_upload): services 0x34 to 0x38 around the  *)
(* one transfer context.  The context's buffer is a real array, because a  *)
(* response carries a pointer into it and is read after the handler has    *)
(* returned: rsp.data below is what the caller finds there.                *)
(*                                                                         *)
(* size, image and passed are history variables: the bytes a transfer was  *)
(* opened for, the bytes an upload was filled with, and the bytes that     *)
(* passed in blocks answered positively (sent by the tester in a download, *)
(* received by it in an upload).                                           *)
(***************************************************************************)
EXTENDS Integers, Sequences

CONSTANTS
  DataBytes,     \* values of a data byte
  Blank,         \* the byte the buffer is cleared to
  BufferSize,    \* UDS_TRANSFER_BUFFER_SIZE
  MaxBlock,      \* UDS_DEFAULT_MAX_BLOCK_LENGTH
  ByteSize,      \* values of a uint8_t
  WordSize,      \* values of a uint32_t
  RegionMax,     \* UDS_MEM_REGION_MAX
  Ranges,        \* regions the integrator registers, valid or not
  Addresses, Sizes,  \* what a request may ask for
  Blocks,        \* data of a TransferData request
  Images         \* data the integrator fills the buffer with

ASSUME TransferParameters ==
  /\ Blank \in DataBytes
  /\ BufferSize \in Nat \ {0} /\ MaxBlock \in Nat \ {0}
  /\ ByteSize \in Nat \ {0, 1} /\ WordSize \in Nat \ {0} /\ RegionMax \in Nat
  /\ BufferSize < WordSize
  /\ Ranges \subseteq [start : 0 .. WordSize - 1, end : 0 .. WordSize - 1]
  /\ Addresses \subseteq 0 .. WordSize - 1
  /\ Sizes \subseteq 0 .. WordSize - 1
  /\ Blocks \subseteq Seq(DataBytes)
  /\ \A d \in Images : d \in Seq(DataBytes) /\ Len(d) <= BufferSize

VARIABLES
  active, direction, memory_addr, remaining_size, block_seq_counter,
  buffer, buffer_length,      \* g_transfer_ctx
  mem_regions,                \* g_mem_regions up to g_mem_region_count
  rsp,                        \* the last response
  size, image, passed         \* history

bufferVars   == <<buffer, buffer_length>>
transferVars == <<active, direction, memory_addr, remaining_size, block_seq_counter>>
historyVars  == <<size, image, passed>>
uploadVars      == <<transferVars, bufferVars, mem_regions, rsp, historyVars>>

Positive(d) == [nrc |-> "NONE", data |-> d]
Negative(n) == [nrc |-> n, data |-> <<>>]

Least2(a, b) == IF a <= b THEN a ELSE b
Cleared == [i \in 1 .. BufferSize |-> Blank]

\* The history keeps one byte more than any transfer can have.
Kept(q) == SubSeq(q, 1, Least2(Len(q), BufferSize + 1))

\* The first n bytes of the buffer array b.
Prefix(b, n) == [i \in 1 .. n |-> b[i]]

\* uds_svc_transfer_init
TransferInit ==
  /\ active = FALSE /\ direction = "NONE"
  /\ memory_addr = 0 /\ remaining_size = 0 /\ block_seq_counter = 0
  /\ buffer = Cleared /\ buffer_length = 0
  /\ mem_regions = <<>>
  /\ rsp = Negative("CNC")
  /\ size = 0 /\ image = <<>> /\ passed = <<>>

\* uds_svc_transfer_register_memory_region: a full table or a bad range is
\* ignored.
RegisterRegion(r) ==
  /\ Len(mem_regions) < RegionMax
  /\ r.end >= r.start
  /\ mem_regions' = Append(mem_regions, r)
  /\ UNCHANGED <<transferVars, bufferVars, rsp, historyVars>>

-----------------------------------------------------------------------------
(* request_transfer_common *)

\* is_memory_range_valid, in uint32_t arithmetic
LastByte(a, n) == (a + n - 1) % WordSize

\* Mutated form of RangeValid: the wrap-around is not looked for.
RangeValidNoWrap(a, n) ==
  n # 0 /\ \E i \in DOMAIN mem_regions :
             a >= mem_regions[i].start /\ LastByte(a, n) <= mem_regions[i].end

RangeValid(a, n) ==
  /\ n # 0
  /\ LastByte(a, n) >= a
  /\ \E i \in DOMAIN mem_regions :
       a >= mem_regions[i].start /\ LastByte(a, n) <= mem_regions[i].end

\* is_transfer_session_allowed
SessionAllows(session) == session \in {"PROGRAMMING", "EXTENDED"}

\* The first check that fails; complete says the request has its 8 data bytes.
RequestRefusal(session, secure, complete, a, n) ==
  IF ~SessionAllows(session) THEN "CNC"
  ELSE IF ~secure THEN "SAD"
  ELSE IF ~complete THEN "IMLOIF"
  ELSE IF n > BufferSize THEN "UDNA"
  ELSE IF ~RangeValid(a, n) THEN "ROOR"
  ELSE IF active THEN "UDNA"
  ELSE "NONE"

RefuseTransfer(session, secure, complete, a, n) ==
  /\ RequestRefusal(session, secure, complete, a, n) # "NONE"
  /\ rsp' = Negative(RequestRefusal(session, secure, complete, a, n))
  /\ UNCHANGED <<transferVars, bufferVars, mem_regions, historyVars>>

OpenTransfer(dir, session, secure, a, n) ==
  /\ RequestRefusal(session, secure, TRUE, a, n) = "NONE"
  /\ active' = TRUE
  /\ direction' = dir
  /\ memory_addr' = a
  /\ remaining_size' = n
  /\ block_seq_counter' = 0
  /\ buffer' = Cleared
  /\ buffer_length' = 0
  /\ rsp' = Positive(<<>>)
  /\ size' = n /\ image' = <<>> /\ passed' = <<>>
  /\ UNCHANGED mem_regions

RequestTransfer(dir, session, secure, complete, a, n) ==
  \/ RefuseTransfer(session, secure, complete, a, n)
  \/ complete /\ OpenTransfer(dir, session, secure, a, n)

\* uds_svc_request_file_transfer: a stub that only refuses
FileRefusal(session, secure, subfn, complete) ==
  IF ~SessionAllows(session) THEN "CNC"
  ELSE IF ~secure THEN "SAD"
  ELSE IF subfn \notin 1 .. 4 THEN "SFNS"
  ELSE IF ~complete THEN "IMLOIF"
  ELSE "ROOR"

RequestFileTransfer(session, secure, subfn, complete) ==
  /\ rsp' = Negative(FileRefusal(session, secure, subfn, complete))
  /\ UNCHANGED <<transferVars, bufferVars, mem_regions, historyVars>>

-----------------------------------------------------------------------------
(* uds_svc_transfer_data: the counter is accepted before the data is looked at. *)

\* Mutated form of NextBlock: the counter is taken for that of the next block.
NextBlockStale == block_seq_counter

NextBlock == (block_seq_counter + 1) % ByteSize

\* Mutated form of WriteLen: the clamp is missing.
WriteLenAll(d) == Len(d)

\* Bytes of a download block that fit what is still due.
WriteLen(d) == Least2(Len(d), remaining_size)

\* Mutated form of Stored: every block is written to the start.
StoredAtStart(d) ==
  [i \in 1 .. BufferSize |-> IF i <= WriteLen(d) THEN d[i] ELSE buffer[i]]

\* The buffer with the block written behind what it holds.
Stored(d) ==
  [i \in 1 .. BufferSize |->
     IF i - buffer_length \in 1 .. WriteLen(d) THEN d[i - buffer_length] ELSE buffer[i]]

\* Bytes of the next upload block.
ReadLen == Least2(Least2(MaxBlock, remaining_size), BufferSize)

CopyLen == Least2(ReadLen, buffer_length)

NoTransfer ==
  /\ ~active
  /\ rsp' = Negative("CNC")
  /\ UNCHANGED <<transferVars, bufferVars, mem_regions, historyVars>>

WrongBlock(bsc) ==
  /\ active
  /\ bsc # NextBlock
  /\ rsp' = Negative("WBSC")
  /\ UNCHANGED <<transferVars, bufferVars, mem_regions, historyVars>>

\* Mutated form of AcceptCounter: a repeated block is taken for a further one.
AcceptCounterAgain(bsc) ==
  /\ active
  /\ bsc \in {block_seq_counter, NextBlock}
  /\ block_seq_counter' = bsc
  /\ UNCHANGED <<active, direction, memory_addr, mem_regions, size, image>>

AcceptCounter(bsc) ==
  /\ active
  /\ bsc = NextBlock
  /\ block_seq_counter' = bsc
  /\ UNCHANGED <<active, direction, memory_addr, mem_regions, size, image>>

BlockRefusal(d) ==
  IF direction = "DOWNLOAD"
  THEN IF d = <<>> THEN "IMLOIF"
       ELSE IF buffer_length + WriteLen(d) > BufferSize THEN "TDS"
       ELSE "NONE"
  ELSE IF ReadLen = 0 \/ buffer_length = 0 THEN "ROOR"
       ELSE "NONE"

RefuseBlock(bsc, d) ==
  /\ AcceptCounter(bsc)
  /\ BlockRefusal(d) # "NONE"
  /\ rsp' = Negative(BlockRefusal(d))
  /\ UNCHANGED <<remaining_size, bufferVars, passed>>

StoreBlock(bsc, d) ==
  /\ AcceptCounter(bsc)
  /\ direction = "DOWNLOAD"
  /\ BlockRefusal(d) = "NONE"
  /\ buffer' = Stored(d)
  /\ buffer_length' = buffer_length + WriteLen(d)
  /\ remaining_size' = remaining_size - WriteLen(d)
  /\ rsp' = Positive(<<>>)
  /\ passed' = Kept(passed \o d)

\* The memmove that closes the gap comes before the caller reads the response.
SendBlock(bsc, d) ==
  LET left  == buffer_length - CopyLen
      moved == [i \in 1 .. BufferSize |->
                  IF i <= left THEN buffer[i + CopyLen] ELSE buffer[i]]
  IN  /\ AcceptCounter(bsc)
      /\ direction = "UPLOAD"
      /\ BlockRefusal(d) = "NONE"
      /\ buffer' = moved
      /\ buffer_length' = left
      /\ remaining_size' = remaining_size - CopyLen
      /\ rsp' = Positive(Prefix(moved, CopyLen))
      /\ passed' = Kept(passed \o Prefix(moved, CopyLen))

TransferData(bsc, d) ==
  \/ NoTransfer
  \/ WrongBlock(bsc)
  \/ RefuseBlock(bsc, d)
  \/ StoreBlock(bsc, d)
  \/ SendBlock(bsc, d)

-----------------------------------------------------------------------------
(* uds_svc_request_transfer_exit *)

ExitWithData ==
  /\ active
  /\ rsp' = Negative("IMLOIF")
  /\ UNCHANGED <<transferVars, bufferVars, mem_regions, historyVars>>

\* Mutated form of ClearCounts: the count of bytes due is forgotten.
ClearSome == UNCHANGED remaining_size /\ block_seq_counter' = 0 /\ buffer_length' = 0

ClearCounts == remaining_size' = 0 /\ block_seq_counter' = 0 /\ buffer_length' = 0

CloseTransfer ==
  /\ active
  /\ active' = FALSE
  /\ direction' = "NONE"
  /\ memory_addr' = 0
  /\ ClearCounts
  /\ rsp' = Positive(<<>>)
  /\ size' = 0 /\ image' = <<>> /\ passed' = <<>>
  /\ UNCHANGED <<buffer, mem_regions>>

TransferExit == NoTransfer \/ ExitWithData \/ CloseTransfer

\* Nothing in the program fills an upload: the integrator (and the unit test)
\* writes the buffer and its length from outside, right after the request.
FillUpload(d) ==
  /\ active /\ direction = "UPLOAD"
  /\ block_seq_counter = 0 /\ image = <<>> /\ d # <<>>
  /\ buffer' = [i \in 1 .. BufferSize |-> IF i <= Len(d) THEN d[i] ELSE buffer[i]]
  /\ buffer_length' = Len(d)
  /\ remaining_size' = Len(d)
  /\ size' = Len(d)
  /\ image' = d
  /\ UNCHANGED <<active, direction, memory_addr, block_seq_counter, mem_regions,
                 rsp, passed>>

AnySession   == {"DEFAULT", "PROGRAMMING", "EXTENDED"}
Directions == {"DOWNLOAD", "UPLOAD"}

TransferNext ==
  \/ \E r \in Ranges : RegisterRegion(r)
  \/ \E dir \in Directions, s \in AnySession, secure, complete \in BOOLEAN,
        a \in Addresses, n \in Sizes : RequestTransfer(dir, s, secure, complete, a, n)
  \/ \E s \in AnySession, secure, complete \in BOOLEAN, f \in {0, 1} :
        RequestFileTransfer(s, secure, f, complete)
  \/ \E bsc \in 0 .. ByteSize - 1, d \in Blocks : TransferData(bsc, d)
  \/ TransferExit
  \/ \E d \in Images : FillUpload(d)

TransferSpec == TransferInit /\ [][TransferNext]_uploadVars

-----------------------------------------------------------------------------
(* Types of the context and the last response. *)
TransferTypeOK ==
  /\ active \in BOOLEAN
  /\ direction \in Directions \cup {"NONE"}
  /\ memory_addr \in 0 .. WordSize - 1
  /\ remaining_size \in 0 .. BufferSize
  /\ block_seq_counter \in 0 .. ByteSize - 1
  /\ buffer \in [1 .. BufferSize -> DataBytes]
  /\ buffer_length \in 0 .. BufferSize
  /\ mem_regions \in Seq(Ranges)
  /\ rsp \in [nrc : {"NONE", "CNC", "SAD", "IMLOIF", "UDNA", "ROOR", "SFNS", "WBSC",
                     "TDS"}, data : Seq(DataBytes)]
  /\ size \in 0 .. BufferSize
  /\ image \in Seq(DataBytes) /\ passed \in Seq(DataBytes)

\* Across blocks of any length, refused or clamped: a download's stored and due
\* bytes are the bytes it was opened for; an upload holds nothing, or exactly
\* what is due; outside a transfer nothing is stored or due.
BytesConserved ==
  /\ direction = "DOWNLOAD" => buffer_length + remaining_size = size
  /\ direction = "UPLOAD" => buffer_length \in {0, remaining_size}
  /\ direction = "NONE" => buffer_length = 0 /\ remaining_size = 0
  /\ active <=> direction # "NONE"

\* So the buffer bound check of TransferData never fires.
NeverSuspended == rsp.nrc # "TDS"

\* What a download has stored is, in order, the beginning of what the tester was
\* told is received: no byte is skipped, doubled or overwritten.
StoredInOrder ==
  direction = "DOWNLOAD" =>
    /\ buffer_length <= Len(passed)
    /\ \A i \in 1 .. buffer_length : buffer[i] = passed[i]

\* The memory a transfer was opened for lies inside one registered region, for
\* addresses up to the end of the uint32_t range too.
TransferInRegion ==
  active /\ image = <<>> =>
    \E i \in DOMAIN mem_regions :
      memory_addr .. memory_addr + size - 1
        \subseteq mem_regions[i].start .. mem_regions[i].end

\* "For upload (server -> tester): response contains data bytes to send": what
\* the tester receives is the beginning of what the buffer was filled with.
UploadFaithful ==
  direction = "UPLOAD" =>
    Len(passed) <= Len(image) /\ \A i \in 1 .. Len(passed) : passed[i] = image[i]
=============================================================================
