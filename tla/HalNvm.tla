------------------------------- MODULE HalNvm -------------------------------
(***************************************************************************)
(* The POSIX non-volatile memory (hal_nvm_posix): a file that outlives the *)
(* process.  Writing, erasing and filling up a file that is too short are  *)
(* loops of system calls that may each do a part of what they are asked,   *)
(* or fail, and the process may die between any two of them.  A call that  *)
(* a signal interrupts is repeated, except in hal_nvm_erase: the continue  *)
(* meant to do so leaves its do-while loop, and the byte is passed over.   *)
(*                                                                         *)
(* may_hold is a history variable: the values each address may hold, which *)
(* is the last one written there, and besides it those of writes since     *)
(* then that did not finish, or were erasures that passed over a byte.     *)
(***************************************************************************)
EXTENDS Naturals, Sequences

CONSTANTS
  NvmSize,     \* POSIX_NVM_SIZE
  NvmBytes,    \* values of a byte
  ErasedByte,  \* what hal_nvm_erase writes
  FreshByte,   \* what a file that is too short is filled up with
  NvmAddresses, NvmLengths   \* what callers ask for

ASSUME NvmParameters ==
  /\ NvmSize \in Nat \ {0}
  /\ ErasedByte \in NvmBytes /\ FreshByte \in NvmBytes
  /\ NvmAddresses \subseteq Nat /\ NvmLengths \subseteq Nat

VARIABLES
  nvm_initialised,  \* with nvm_fd open
  nvm_file,         \* the file's bytes
  nvm_job,          \* the running loop: what it writes, where, what is left of it,
                    \* and, for the history, whether it passed over a byte
  nvm_status, nvm_read,   \* what the last call returned
  may_hold

nvmVars == <<nvm_initialised, nvm_file, nvm_job, nvm_status, nvm_read, may_hold>>

NvmRange == 0 .. NvmSize - 1
Job(op, a, d) == [op |-> op, from |-> a, at |-> a, data |-> d, left |-> d, skipped |-> FALSE]
NoJob == Job("none", 0, <<>>)

NvmInit ==
  /\ nvm_initialised = FALSE
  /\ nvm_file = <<>>
  /\ nvm_job = NoJob
  /\ nvm_status = "OK" /\ nvm_read = [at |-> 0, data |-> <<>>]
  /\ may_hold = [a \in NvmRange |-> {FreshByte}]

Repeated(b, n) == [k \in 1 .. n |-> b]

\* hal_nvm_init: the file is created if need be and filled up to its size; a
\* file that cannot be opened is HAL_ERROR.
NvmOpen ==
  /\ nvm_job = NoJob
  /\ \/ nvm_initialised /\ nvm_status' = "OK" /\ UNCHANGED nvm_job
     \/ /\ ~nvm_initialised
        /\ nvm_job' = Job("open", Len(nvm_file), Repeated(FreshByte, NvmSize - Len(nvm_file)))
        /\ UNCHANGED nvm_status
     \/ ~nvm_initialised /\ nvm_status' = "ERROR" /\ UNCHANGED nvm_job
  /\ UNCHANGED <<nvm_initialised, nvm_file, nvm_read, may_hold>>

\* validate_range
InRange(a, n) == a < NvmSize /\ a + n <= NvmSize

NvmRefused(a, n) == ~nvm_initialised \/ ~InRange(a, n)

\* What the byte at a reads as; past the end of the file the buffer is cleared.
ByteAt(a) == IF a < Len(nvm_file) THEN nvm_file[a + 1] ELSE FreshByte

\* hal_nvm_read: nothing can come between its reads.
NvmRead(a, n) ==
  /\ nvm_job = NoJob
  /\ IF NvmRefused(a, n)
     THEN nvm_status' = "ERROR" /\ UNCHANGED nvm_read
     ELSE /\ nvm_status' = "OK"
          /\ nvm_read' = [at |-> a, data |-> [k \in 1 .. n |-> ByteAt(a + k - 1)]]
  /\ UNCHANGED <<nvm_initialised, nvm_file, nvm_job, may_hold>>

\* hal_nvm_write and hal_nvm_erase, which writes one byte at a time.
NvmBegin(op, a, d) ==
  /\ nvm_job = NoJob
  /\ nvm_read' = [at |-> 0, data |-> <<>>]
  /\ IF NvmRefused(a, Len(d))
     THEN nvm_status' = "ERROR" /\ UNCHANGED <<nvm_job, may_hold>>
     ELSE /\ nvm_job' = Job(op, a, d)
          /\ may_hold' = [x \in DOMAIN may_hold |->
               IF x - a \in 0 .. Len(d) - 1 THEN may_hold[x] \cup {d[x - a + 1]}
               ELSE may_hold[x]]
          /\ UNCHANGED nvm_status
  /\ UNCHANGED <<nvm_initialised, nvm_file>>

\* The file with the bytes d written at a; a gap before them reads as cleared.
Written(a, d) ==
  [k \in 1 .. (IF a + Len(d) > Len(nvm_file) THEN a + Len(d) ELSE Len(nvm_file)) |->
     IF k - a \in 1 .. Len(d) THEN d[k - a] ELSE ByteAt(k - 1)]

\* Mutated form of WriteAt: what was written before is not counted.
WriteAtStart == nvm_job.from

WriteAt == nvm_job.at

\* The loop behind its next k bytes.
Advanced(k, skips) ==
  [nvm_job EXCEPT !.at = @ + k, !.left = SubSeq(@, k + 1, Len(@)), !.skipped = @ \/ skips]

\* One system call of the loop.
NvmStep(k) ==
  /\ nvm_job.left # <<>> /\ k \in 1 .. Len(nvm_job.left)
  /\ nvm_job.op = "erase" => k = 1
  /\ nvm_file' = Written(WriteAt, SubSeq(nvm_job.left, 1, k))
  /\ nvm_job' = Advanced(k, FALSE)
  /\ UNCHANGED <<nvm_initialised, nvm_status, nvm_read, may_hold>>

\* A signal interrupts the call of hal_nvm_erase.
EraseInterrupted ==
  /\ nvm_job.op = "erase" /\ nvm_job.left # <<>>
  /\ nvm_job' = Advanced(1, TRUE)
  /\ UNCHANGED <<nvm_initialised, nvm_file, nvm_status, nvm_read, may_hold>>

NvmDone ==
  /\ nvm_job # NoJob /\ nvm_job.left = <<>>
  /\ nvm_job' = NoJob
  /\ nvm_status' = "OK"
  /\ nvm_initialised' = TRUE
  /\ may_hold' = [x \in DOMAIN may_hold |->
       IF nvm_job.op # "open" /\ ~nvm_job.skipped /\ nvm_job.from <= x /\ x < nvm_job.at
       THEN {nvm_job.data[x - nvm_job.from + 1]} ELSE may_hold[x]]
  /\ UNCHANGED <<nvm_file, nvm_read>>

\* A system call fails: the file keeps what was written of it.
NvmFails ==
  /\ nvm_job.left # <<>>
  /\ nvm_job' = NoJob
  /\ nvm_status' = "ERROR"
  /\ UNCHANGED <<nvm_initialised, nvm_file, nvm_read, may_hold>>

\* The process dies and is started again.
NvmRestart ==
  /\ nvm_initialised' = FALSE
  /\ nvm_job' = NoJob
  /\ nvm_status' = "OK" /\ nvm_read' = [at |-> 0, data |-> <<>>]
  /\ UNCHANGED <<nvm_file, may_hold>>

NvmNext ==
  \/ NvmOpen
  \/ \E a \in NvmAddresses, n \in NvmLengths :
       \/ NvmRead(a, n)
       \/ NvmBegin("erase", a, Repeated(ErasedByte, n))
       \/ \E b \in NvmBytes : NvmBegin("write", a, Repeated(b, n))
  \/ \E k \in 1 .. NvmSize : NvmStep(k)
  \/ EraseInterrupted \/ NvmDone \/ NvmFails \/ NvmRestart

NvmSpec == NvmInit /\ [][NvmNext]_nvmVars

-----------------------------------------------------------------------------
(* Types; an initialised memory has its full size. *)
NvmTypeOK ==
  /\ nvm_initialised \in BOOLEAN
  /\ nvm_file \in Seq(NvmBytes) /\ Len(nvm_file) <= NvmSize
  /\ nvm_initialised => Len(nvm_file) = NvmSize
  /\ nvm_status \in {"OK", "ERROR"}
  /\ may_hold \in [NvmRange -> SUBSET NvmBytes]

\* Whenever the process dies or a write fails half way, in the filling up of the
\* file too, every byte holds the value last written to it, or one of a write that
\* did not finish or of an erasure that passed over a byte; and a read returns
\* such values.
NvmKeeps ==
  /\ \A k \in 1 .. Len(nvm_file) : nvm_file[k] \in may_hold[k - 1]
  /\ \A k \in 1 .. Len(nvm_read.data) : nvm_read.data[k] \in may_hold[nvm_read.at + k - 1]
=============================================================================
