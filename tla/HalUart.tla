------------------------------- MODULE HalUart -------------------------------
(***************************************************************************)
(* The POSIX UART (hal_uart_posix): the loops of hal_uart_receive and      *)
(* hal_uart_send, one system call per step, while bytes keep arriving.     *)
(* select() waits anew for the whole timeout before every read(), and each *)
(* read() or write() may take fewer bytes than it was asked to.  Calls     *)
(* interrupted by a signal are repeated and change nothing.                *)
(*                                                                         *)
(* arrived, handed, given and lossy are history variables: the bytes that  *)
(* came in, those that receive calls returned, those of send calls, and    *)
(* whether a system call failed half way through one.                      *)
(***************************************************************************)
EXTENDS Naturals, Sequences

CONSTANTS
  UartBytes,   \* byte values
  Wanted,      \* len of hal_uart_receive
  Outgoing,    \* data of hal_uart_send
  MaxBytes     \* bound on the bytes that pass in each direction

ASSUME UartParameters ==
  Wanted \subseteq Nat /\ Outgoing \subseteq Seq(UartBytes) /\ MaxBytes \in Nat

VARIABLES
  uart_open,           \* posix_initialised, and uart_fd open
  system_call,         \* the one the program is in, or none
  wanted,              \* len of the running receive
  got,                 \* data[0 .. total - 1] of the running receive
  sending, total,      \* data and total of the running send
  uart_status,         \* what the last call returned
  line_in, line_out,   \* the driver's queues
  arrived, handed, given, lossy   \* history

receiveVars == <<wanted, got, line_in, handed>>
sendVars    == <<sending, total, line_out, given>>
uartVars    == <<uart_open, system_call, uart_status, receiveVars, sendVars, arrived, lossy>>

UartInit ==
  /\ uart_open = FALSE /\ system_call = "none" /\ uart_status = "OK"
  /\ wanted = 0 /\ got = <<>> /\ sending = <<>> /\ total = 0
  /\ line_in = <<>> /\ line_out = <<>>
  /\ arrived = <<>> /\ handed = <<>> /\ given = <<>> /\ lossy = FALSE

\* hal_uart_init; a device that cannot be opened is HAL_ERROR, and an open one
\* is left alone.
OpenUart ==
  /\ system_call = "none"
  /\ \/ uart_open' = TRUE /\ uart_status' = "OK"
     \/ ~uart_open /\ UNCHANGED uart_open /\ uart_status' = "ERROR"
  /\ UNCHANGED <<system_call, receiveVars, sendVars, arrived, lossy>>

Arrive(b) ==
  /\ uart_open /\ Len(arrived) < MaxBytes
  /\ line_in' = Append(line_in, b)
  /\ arrived' = Append(arrived, b)
  /\ UNCHANGED <<uart_open, system_call, uart_status, wanted, got, handed, sendVars, lossy>>

-----------------------------------------------------------------------------
(* hal_uart_receive *)

Receive(n) ==
  /\ system_call = "none"
  /\ IF uart_open /\ n > 0
     THEN system_call' = "select" /\ wanted' = n /\ got' = <<>> /\ UNCHANGED uart_status
     ELSE /\ uart_status' = IF uart_open THEN "OK" ELSE "ERROR"
          /\ UNCHANGED <<system_call, wanted, got>>
  /\ UNCHANGED <<uart_open, line_in, handed, sendVars, arrived, lossy>>

\* The call returns, and the caller has bytes.
ReturnReceived(s, bytes) ==
  /\ uart_status' = s
  /\ system_call' = "none"
  /\ handed' = handed \o bytes
  /\ got' = <<>>

SelectReady ==
  /\ system_call = "select" /\ line_in # <<>>
  /\ system_call' = "read"
  /\ UNCHANGED <<uart_open, uart_status, receiveVars, sendVars, arrived, lossy>>

\* Mutated form of TimedOutStatus: what hal_uart.h says, HAL_TIMEOUT whenever the
\* time is up before len bytes have come.
TimedOutStatusStrict == "TIMEOUT"

TimedOutStatus == IF got # <<>> THEN "OK" ELSE "TIMEOUT"

\* No byte came for timeout_ms: fewer than len are a success too.
SelectTimeout ==
  /\ system_call = "select" /\ line_in = <<>>
  /\ ReturnReceived(TimedOutStatus, IF TimedOutStatus = "OK" THEN got ELSE <<>>)
  /\ UNCHANGED <<uart_open, wanted, line_in, sendVars, arrived, lossy>>

\* Mutated form of ReadCount: read() is asked for a whole frame again.
ReadCountWhole == 1 .. Len(line_in)

ReadCount == 1 .. (IF Len(line_in) <= wanted - Len(got) THEN Len(line_in) ELSE wanted - Len(got))

ReadSome(k) ==
  LET now_got == got \o SubSeq(line_in, 1, k) IN
  /\ system_call = "read" /\ k \in ReadCount
  /\ line_in' = SubSeq(line_in, k + 1, Len(line_in))
  /\ IF Len(now_got) < wanted
     THEN system_call' = "select" /\ got' = now_got /\ UNCHANGED <<uart_status, handed>>
     ELSE ReturnReceived("OK", SubSeq(now_got, 1, wanted))
  /\ UNCHANGED <<uart_open, wanted, sendVars, arrived, lossy>>

\* select() or read() fails, or the device is at its end: what was read is lost.
ReceiveFails ==
  /\ system_call \in {"select", "read"}
  /\ ReturnReceived("ERROR", <<>>)
  /\ lossy' = (lossy \/ got # <<>>)
  /\ UNCHANGED <<uart_open, wanted, line_in, sendVars, arrived>>

-----------------------------------------------------------------------------
(* hal_uart_send *)

Send(d) ==
  /\ system_call = "none" /\ Len(given) + Len(d) <= MaxBytes
  /\ IF uart_open
     THEN /\ system_call' = "write" /\ sending' = d /\ total' = 0
          /\ given' = given \o d
          /\ UNCHANGED uart_status
     ELSE uart_status' = "ERROR" /\ UNCHANGED <<system_call, sending, total, given>>
  /\ UNCHANGED <<uart_open, receiveVars, line_out, arrived, lossy>>

\* Mutated form of Unsent: the write starts over from the first byte.
UnsentAll == sending

Unsent == SubSeq(sending, total + 1, Len(sending))

\* write() takes some of what is left, possibly nothing.
WriteSome(k) ==
  /\ system_call = "write" /\ total < Len(sending) /\ k \in 0 .. Len(sending) - total
  /\ line_out' = line_out \o SubSeq(Unsent, 1, k)
  /\ total' = total + k
  /\ UNCHANGED <<uart_open, system_call, uart_status, receiveVars, sending, given, arrived, lossy>>

SendEnds ==
  /\ system_call = "write" /\ total = Len(sending)
  /\ system_call' = "none" /\ uart_status' = "OK"
  /\ UNCHANGED <<uart_open, receiveVars, sendVars, arrived, lossy>>

SendFails ==
  /\ system_call = "write" /\ total < Len(sending)
  /\ system_call' = "none" /\ uart_status' = "ERROR"
  /\ lossy' = TRUE
  /\ UNCHANGED <<uart_open, receiveVars, sendVars, arrived>>

UartNext ==
  \/ OpenUart
  \/ \E b \in UartBytes : Arrive(b)
  \/ \E n \in Wanted : Receive(n)
  \/ SelectReady \/ SelectTimeout
  \/ \E k \in 1 .. MaxBytes : ReadSome(k)
  \/ ReceiveFails
  \/ \E d \in Outgoing : Send(d)
  \/ \E k \in 0 .. MaxBytes : WriteSome(k)
  \/ SendEnds \/ SendFails

UartSpec == UartInit /\ [][UartNext]_uartVars

-----------------------------------------------------------------------------
(* Types of the calls' state. *)
UartTypeOK ==
  /\ uart_open \in BOOLEAN /\ lossy \in BOOLEAN
  /\ system_call \in {"none", "select", "read", "write"}
  /\ uart_status \in {"OK", "TIMEOUT", "ERROR"}
  /\ got \in Seq(UartBytes) /\ Len(got) <= wanted
  /\ sending \in Seq(UartBytes) /\ total \in 0 .. Len(sending)

\* Whatever the sizes the kernel delivers and takes bytes in, and whenever the
\* time runs out: every byte that arrived is returned to a caller once and in
\* order, or still waits in the driver; and what is on the wire is, in order, what
\* was given to be sent.  A call that ends with HAL_TIMEOUT has taken nothing.
StreamConserved ==
  ~lossy =>
    /\ handed \o got \o line_in = arrived
    /\ given = line_out \o (IF system_call = "write" THEN Unsent ELSE <<>>)
=============================================================================
