# TLA+ specifications of uds-lin-ecu

A UDS (ISO 14229) diagnostic server for an ECU on a LIN bus, in C: a LIN
transport layer, a service dispatcher with session and security control, and
some twenty services, run by a single-threaded simulator (`sim/main_sim.c`).
These modules model its control: what state each part keeps, what every request
or frame does to it, and what must hold however requests, frames, losses and
time-outs interleave. Line numbers refer to the files under `src/`.

Two headers that the sources include, `inc/uds/uds_svc_util.h` and
`inc/uds/uds_cfg.h`, are not in the repository. What they define (the response
helpers, table sizes) is taken from how the code uses it.

## 1. The system

### Parts, their state, and who calls whom

| Part | Source | State | Operations | Modules |
|---|---|---|---|---|
| LIN frames | `uds_lin_transport.c` | none | layout of SF, FF, CF | `LinFrames` |
| Streaming sender | same, 522-651 | `tx_state`, `tx_seq_num`, stream pointer and length, FC parameters in force, `cf_in_block`, `wft_counter` | `lin_tx_begin_stream`, `lin_tx_next_cf`, `lin_tx_has_more`, `lin_tx_abort_stream`; FC frames through `lin_rx_decode` | `LinTx` |
| Receiver | same, 220-394 | `rx_state`, buffer, expected length, sequence number, address filter | `lin_rx_decode`, `set_nad`, `set_accept_functional`, `reset` | `LinRx` |
| One context | same | both of the above | both, sharing filter, decoder and reset | `LinContext` |
| Two contexts and a bus | same + callers | frames on the bus, FCs on their way back | a polling sender, a receiver that answers with FC, loss and repetition | `LinLink` |
| One-call encoder | same, 99-214 | `tx_state`, `tx_seq_num`, local 8-bit counters | `lin_tx_encode` | `LinEncode` |
| Transport timers, context pool | same, 400-520, 660-800 | time stamps, pool flags | record_tx/rx_time, check_timeout, create, free | `LinTimers` |
| Session | `uds_session.c` | active session, timing, events paused, security locked | init, switch | `UdsSession` |
| SecurityAccess | `uds_security.c` | per level: unlocked, seed out, attempts; one pending seed; one delay and timer | requestSeed, sendKey, lock, delay queries | `UdsSecurity` |
| Up-/download | `uds_svc_upload.c` | one transfer: direction, address, bytes due, block counter, buffer; memory regions | 0x34, 0x35, 0x36, 0x37, 0x38, register region | `UdsTransfer` |
| Routine control | `uds_svc_routine.c` | table of routines, which runs | register, 0x31 start, stop, results | `UdsRoutine` |
| Dispatch table | `uds_service.c` | registered services, the clock of the running request | register, clear, dispatch, response-pending, functional requests | `UdsService` |
| Server | `main_sim.c`, `uds_svc_diagcomm.c` | the simulator's copy of the security state | 0x10, 0x11, 0x27, get_dispatch_context, sync_after_dispatch | `UdsServer` |
| DTC database, stored data | `uds_dtc.c`, `uds_svc_stored.c` | records with status, snapshot, extended data | set/clear/query, 0x14, 0x19 | `UdsDtc` |
| Identifiers | `uds_data.c`, `uds_svc_data.c` | DID table and its buffers, periodic slots | register, 0x22, 0x24, 0x2A, 0x2E | `UdsData` |
| Memory by address | `uds_svc_data.c` | memory regions and their bytes | register, 0x23, 0x3D | `UdsMemory` |
| Dynamic identifiers | `uds_svc_data.c` | table of definitions | 0x2C | `UdsDynamic` |
| Events | `uds_svc_diagcomm.c` | event store | 0x86 | `UdsEvents` |
| Communication services, Authentication | `uds_svc_diagcomm.c`, `uds_svc_auth.c` | none that changes | 0x28, 0x3E, 0x84, 0x85, 0x87, 0x29 | `UdsComm` |
| I/O control | `uds_svc_io.c` | override table | 0x2F | `UdsIo` |
| The whole ECU | all of the above services | all of the above | every request in any session | `UdsEcu` |
| From frame to answer | `main_sim.c`, `uds_core.c` | the simulator's frame loop | process_lin_frame, for a download | `UdsDownload` |
| Parser, serialiser | `uds_core.c` | none | byte layout | what they lose, in `UdsDownload` |
| Timer | `hal/hal_timer_posix.c` | start time, timeout, running flag | start, stop, expired, remaining | `HalTimer`, `OneShotTimer` |
| UART | `hal/hal_uart_posix.c` | file descriptor | send, receive, as loops of system calls | `HalUart` |
| NVM | `hal/hal_nvm_posix.c` | a file that outlives the process | open, read, write, erase, as loops of system calls | `HalNvm` |

A frame comes in through `process_lin_frame`: `lin_rx_decode_ctx`, parse,
`uds_service_dispatch` (session mask, then the handler with the context
`get_dispatch_context` chooses), `sync_after_dispatch`, serialise,
`lin_tx_encode_ctx`. Everything runs on one thread, so a request is atomic; what
interleaves is the order of requests, frames, lost and repeated frames, the
expiry of timers, and configuration calls of the integrator.

### What is hard in it

* **Stale copies.** The security module is the truth; the session context has a
  `security_locked` flag, the simulator an `unlocked` flag, and handlers read
  one or the other. They are brought together after each dispatch, and partly
  only if a positive answer was built.
* **Answers that are not built.** The suppress bit withholds a positive answer,
  and with it whatever is made to depend on the answer.
* **Pointers read later.** A response points into a buffer that its handler, or
  the end of the handler, changes.
* **Lost and repeated frames.** Reassembly has sequence numbers modulo 15 and no
  time-out in use; Flow Control frames overwrite parameters at any moment.
* **Narrow counters.** Frame counts, remaining bytes, wait counts and block
  counters are `uint8_t`.
* **Partial failure.** The block counter of TransferData is accepted before the
  block is looked at.
* **Tables with holes.** Trouble codes, dynamic identifiers and overrides live in
  arrays whose entries are freed in any order; the searches must see past the
  holes and the next use of one must see nothing of the last.
* **Clocks that wrap.** Transport time stamps, the dispatcher's P2 timing and the
  HAL timer subtract clock readings of a limited width.
* **System calls that do a part.** UART and NVM loop over calls that may be short,
  fail or be interrupted, and the process may die between two of them, leaving a
  file half filled or half written.
* **Answers lost, requests repeated.** A tester that hears nothing repeats its
  request to an ECU that has already carried it out.
* **One delay for all.** All security levels share a delay and its timer, which
  is looked at only when somebody asks.

`PROJECT.json` lists each of these at its line, with the properties that would
see it go wrong.

### What makes each part correct

* Sender: what was sent and what is left is always the message; sequence numbers
  count; a stream that ends by itself has sent everything.
* Receiver: never more than the FF announced, never a CF out of sequence.
* Link: messages come out whole, in order and at most once; over a bus that
  loses nothing, all of them.
* Encoder: the frames are consecutive pieces of the message, inside the caller's
  array, and the call returns.
* Security: bounded guesses per level, a delay that holds for all levels and that
  ends, no key judged at an unlocked level.
* Transfer: stored plus due bytes is what was asked for, stored in order, inside
  a registered region; an upload sends what the buffer holds.
* Routines: one at a time; a secured one only when unlocked.
* Stored data: a trouble code has one record, which only its own calls and the
  clearing of its group change; every report shows what is stored.
* Identifiers, dynamic identifiers, overrides: one entry each, found wherever it
  is, refused only when the table is full; memory reads back as written.
* Server: session context consistent, the flag agrees with the security module,
  leaving a non-default session relocks, transfers need both checks; the default
  session changes no data; secured data changes only while the security module
  itself is unlocked.
* Dispatch table: one entry for a service; a functionally addressed tester never
  hears of what the ECU lacks; a handler counts as late exactly if it was, across
  a wrap of the clock.
* Events: the store holds the first events asked for, each with its own data.
* Timers: a time-out exactly when its time has passed; a pool slot has one owner.
  The one-shot timer expires once, not early.
* UART: the bytes handed out are those that arrived, in order. NVM: every byte is
  one last written there or of a write that did not finish, whatever dies when.
* Download: what the tester was told is stored is stored whole; it ends.

## 2. The modules

Actions carry the names of the C functions, or of the case of one they model;
variables those of the fields. `map` in `PROJECT.json` gives lines for each.
Operators introduced as "Mutated form of ..." are faulty variants
of the definition next to them. No specification uses them; putting one in its
neighbour's place must break the property it was written for.

**`LinFrames`** pure operators: the pieces a message is cut into (`Taken`,
`Left`), padding, the next sequence number, the three frame layouts.

**`LinTx`** one action per call and per Flow Control status. `NextCf` has the
two outcomes of `lin_tx_next_cf_ctx` (`NextCfPause`: the block is full;
`NextCfEmit`). `tx_msg` and `tx_out` are history: the message and what was handed
out of it. **`LinRx`** one action per branch of `lin_rx_decode_ctx` up to the
FC branch (`DecodeSF`, `DecodeFF`, `DecodeCF`, `RejectPci`, `RejectNad`,
`DecodeEmpty` for the receiving half of an FC frame). **`LinContext`** puts them
together: an FC frame passes the filter and then reaches the sender; the reset
clears both.

**`LinLink`** two contexts: `Tx == INSTANCE LinTx` and the receiver by EXTENDS.
The callers are those the header documents, since the simulator streams nothing:
the sender polls `lin_tx_next_cf` while `lin_tx_has_more`, the receiver answers
an FF and each full block with FC. **`FifoDelivery`** is the abstract
specification of what a connection promises (a lossy FIFO), and `LinLink` is
checked to implement it (`DeliversInOrder`).

**`LinEncode`** the loop of `lin_tx_encode_ctx`, a pass per step, in the width
of its variables; payload bytes are represented by their position and length.

**`UdsSession`, `UdsSecurity`, `UdsTransfer`, `UdsRoutine`** one module per
component. A key or a routine callback is its verdict (either may come); seeds,
key bytes and routine parameters are not represented. `UdsTransfer` has the
buffer as an array and a response as what the *caller* finds behind the pointer
after the handler has returned.

**`UdsServer`** composes the four: each request is one step that contains the
session mask of the dispatch table, the handler and `sync_after_dispatch`. 0x34,
0x35 and 0x38 get the session and the security module, 0x31 the simulator's copy
of the unlocked state, as `get_dispatch_context` has it. `MaySuppress` says
whether the tester may set the suppress bit.

**`UdsService`** the dispatch table of `uds_service.c`: a handler is the outcome
it returns and the time it takes; the clock it is measured with wraps. **`UdsEvents`**
and **`UdsComm`** are the rest of `uds_svc_diagcomm.c` and authentication. The
services of `UdsComm` keep nothing, so each is the set of answers it may give; the
authentication state never leaves NONE, for no function sets another.

**`UdsEcu`** the whole: `UdsServer` and every other service, each behind the
dispatch mask (`Serve`) and given the copy of the security state that
`get_dispatch_context` gives it. Every service leaves its answer in a variable of
its own, so that each module stands alone. `UdsServer` says what sits between
requests; suppressed answers are modelled for its core services.

**`UdsDownload`** a download from end to end: a tester (external: there is none of
this kind in the repository), a bus, and the ECU as `LinRx` and `UdsTransfer` joined
by `process_lin_frame`. It dispatches whatever the decoder hands it. `stored` is
what a closed transfer left behind.

**`LinTimers`** time stamps under a wrapping clock and the pool of contexts; nobody
calls these functions, so any order of calls is allowed. **`HalTimer`** reads a
nanosecond clock and counts milliseconds; **`OneShotTimer`** is what its header
promises, and the refinement mapping takes the start time and time-out to the
moment of expiry. **`HalUart`** and **`HalNvm`** take one system call per step: bytes
arrive between two reads, a signal interrupts, a call does a part or fails. In
`HalNvm` the process may also die and restart; `may_hold` is the history of what
an address can contain.

**`UdsDtc`** the table of trouble codes with the application's calls and the two
services that read and clear it. **`DtcStore`** is what it promises: a partial
function from codes to what is known of them. `event`, the last call with its
answer, is shared by both, so `ImplementsStore` compares not only the contents
but every answer: a report is the set of codes with their status, and their number.

**`UdsData`** the registry of identifiers, **`UdsIo`** the override table on top
of it (EXTENDS), **`UdsDynamic`** the dynamic identifiers, **`UdsMemory`** the
regions of 0x23 and 0x3D (the transfer services have a table of their own).
**`BoundedMap`** is the abstract specification of the two tables with holes: an
operation and its outcome (`dynamic_done`, `io_done`) must be one that a map with
room for so many keys allows. A read callback may return any value that fits or
fail; a positive answer stands for the one sent or withheld.

The `MC_` modules give constants their values; the `_proofs` modules hold the
theorems: `LinRx_proofs`, `LinContext_proofs` and `LinLink_proofs` those of the
transport layer, `Parts_proofs` those of the parts of `MC_Parts` and of the download,
`UdsServices_proofs` and `UdsTables_proofs` those of the services, `UdsDiagnostics_proofs` those of the
dispatch table, `UdsEcu_proofs` those of the server and the whole.

## 3. The runs

| Run | Checks | Bounds |
|---|---|---|
| `lin_context` | `ContextTypeOK`, `StreamWhole`, `SequenceTracksStream`, `EndsComplete`, `BufferFits`, `SequenceTracksBuffer`: one context under any sequence of calls and frames | SF of 1 byte, CFs of 2, messages of 1, 2 and 8 bytes, sequence numbers wrap at 2 (15 in the code), block sizes 0-2, FF lengths below, at and above the limits, all CF sequence numbers |
| `lin_link` | `DeliversInOrder`: with CFs and FCs lost, FFs and CFs repeated and streams abandoned, the link implements `FifoDelivery`; `EveryMessageArrives` where nothing is lost, blocks are unlimited and the peer may say Wait twice | two messages of up to 4 frames, two frames in flight each way; three connections (`MC_Links`), one per behaviour |
| `parts` | one-call encoder: `PiecesFit`, `ReturnsWhole`; security: `GuessesBounded`, `SecurityCoherent`, `DelayRefusesAll`, `DelayEnds`; transfer: `BytesConserved`, `StoredInOrder`, `TransferInRegion`; timers: `TimeoutExact`, `TimerIsOneShot`; UART and NVM: `StreamConserved`, `NvmKeeps`; `TypeOK` of all, with `PoolExclusive` | encoder: the code's own sizes, every length 0-260, capacities around each threshold; three levels, two attempts; 3-bit addresses, 4-byte buffer, blocks of 0-3 bytes, block counter modulo 3, regions touching the end of memory; a pool of 2, a clock of 5 values up to time 9, limits 3 and 1; timer: 3 ns to a "millisecond", time-outs 0-2, up to 14 ns; UART: 4 bytes; NVM: 3 bytes of 3 values, requests inside, at and past the end |
| `services` | `TypeOK`, `ImplementsStore`, `ReadsWhatWasWritten`, `DidsConsistent`, `DynamicIsMap`, `OverridesAreMap`, `DispatchOutcome` | three codes (two of one group) for two records, one status bit; two regions side by side in 3-bit addresses; three dynamic identifiers for two slots; up to three DIDs; a dispatch table of two, a clock of 3 values up to 5 ms, handlers of 0 or 2 ms |
| `server` | `EcuTypeOK`, `FlagAgrees`, `OneAtATime`, `EventsAreFirst`, `SwitchRelocks`, `TransferAuthorised`, `SecuredRoutineAuthorised`, `DefaultSessionReadsOnly`, `SecuredDataAuthorised`: the whole ECU, answers wanted | one level, one attempt, one region each, the two default routines and two registered ones in three slots, two identifiers of which one is secured, one override, two event slots with two bytes each and a length counted modulo 4 |
| `download` | `DownloadWhole`, `DownloadEnds` | three bytes in blocks of one (a Single Frame each), up to 6 faults of which 2 must be survived, two tries per request, two new beginnings |
| `lin_stall` (violation) | `EveryMessageArrives` with block size 1 | as `lin_link` |
| `lin_encode_long` (violation) | `PiecesFit` | lengths 261-264 |
| `transfer_upload` (violation) | `UploadFaithful` for an upload of two blocks | as the transfers of `parts` |
| `server_quiet_switch` (violation) | `SwitchRelocks` if answers may be suppressed | as `server`, core services only |
| `io_reset` (violation) | `OverridesEndWithSession` | as `server` |
| `download_long` (violation) | `DownloadWhole` with blocks of two bytes, which need an FF | as `download` |

**One run for several parts.** In `parts`, `services` and `server` the variable
`family` is chosen once and says which part a behaviour uses. The parts of the first
two share no variable (I/O control is a family with the registration of
identifiers, since it sees of them only which there are and what they hold), so an interleaving of two of them reaches nothing
that the two alone do not. In `server` the families share session and security,
which each of them interleaves with; transfers and routines make up one family.

**Why the bounds are enough.** Everything that branches is on both sides of its
threshold: SF and FF limits, the last short CF, a sequence number that wraps
inside one message (so a CF is confused with the one a cycle later), block sizes
none, one and more; the wait counter wraps at 4; the block counter wraps inside a
transfer; requests end before, at and after the end of memory, wrapping over it;
three levels because two share the delay with a third that restarts it.
The encoder of `parts` has the code's sizes, since the 8-bit counters are the point.
The clocks of the time stamps and of the dispatcher run for more than one and a half
turns, so each difference is taken across a wrap. A system call on the NVM does any
part of what it is asked, and requests fall on both sides of the memory's end. The download's faults outnumber what its tries and
beginnings can absorb, so that it may fail; three blocks make a lost answer, a
repeated block and a new beginning meet in any order. Two
messages suffice for `lin_link`: only the state left behind by the previous
message can disturb one.

**Assumptions of `lin_link`.** The bus loses no FF and no SF, and the peer of a
lossy bus does not say Wait: with a lost FF the CFs of the next message can complete the
previous one (section 6, no N_Cr time-out is in use), and a Single Frame
repeated by the bus is delivered twice. `CHECK_DEADLOCK FALSE` in the runs on the
link and its encoder, in `parts` and in the downloads, for these systems end: all
messages are sent, the call has returned, the clock has reached its bound, the
download is done or given up.

For each table of `services` there are more keys than slots, and
enough steps for it to fill, to be emptied in any order, and to fill again. The
memory regions do not overlap: the code accepts overlapping ones, and then
`ReadsWhatWasWritten` fails, by the integrator's doing.

**Fairness.** `LinLink!Fairness`: weak fairness of the sender's poll, of the
frames' arrival and of the receiver's answer. It is what the header's usage asks
of both callers (`uds_lin_transport.h:340-350`: call `lin_tx_next_cf` until it
returns no frame and `lin_tx_has_more` is false) and of the bus's delivery; no fairness for losing, repeating, giving up or sending a new
message. `LinEncode`: a sequential call runs until it returns. `FairSecSpec`: the
clock runs, and the tester repeats its seed request once the time is up;
without the second nothing in the code ever looks at the timer. Keys of the
tester get none. `MC_Parts` repeats these two. `DownloadSpec`: the
simulator's loop goes on taking frames, the tester goes on sending, waiting out its
own timeouts and taking answers; losing a frame or an answer and early timeouts
get none, and `DownloadEnds` promises success only with at most `Tolerated` of them.

## 4. What is proved

All theorems hold for every value of the constants that satisfies the module's
ASSUME (positive sizes, FF payload not above the SF limit, distinct default
routines that fit the table, addresses inside the address space, messages made of
bytes, and the like). Some theorems need more, for what they state is false without it:
`FramesSurvive`, `LengthsFit`, `RegionsApart`, `OneBlockImages`, `ShortBlocks`, and that no answer
is suppressed. Four of these draw the line around a finding of section 5, whose run
is on the other side of it.
Invariants that are not inductive by themselves come with the strengthening.

**The transport layer**

* `LinRx_proofs`: `RxTypeCorrect`, `BufferAlwaysFits`. `RxInv` is both together:
  the bound on what a CF copies needs the announced length to be a number, the
  type of the buffer needs the bound. `SequenceAlwaysTracksBuffer` from `SeqInv`, which adds
  that the buffer holds an FF's payload and whole CFs until the last: `CfCountFact`
  counts them (by `DivisionUnique`) and `SeqAfterFact` steps the wrapping number.
* `LinContext_proofs`: `ContextReceives` (`ContextSpec => RxSpec`: a sender in the
  same context does not disturb the receiver); `StreamAlwaysWhole` and
  `StreamAlwaysEndsComplete`. `TxInv` says that sent and left make up the
  message, that a stream is active exactly while something is left, and which
  states it can then be in. `SplitFact`: `Taken` and `Left` divide any sequence.
  `ContextTypeCorrect` from `FcInv` (what was received of flow control) and `TxInv`;
  `SequenceAlwaysTracksStream` from `TxSeqInv`, the sender's counterpart of `SeqInv`.
* `LinLink_proofs`: `LinkDeliversInOrder`, the refinement of `FifoDelivery`, for a bus
  that loses no FF and repeats no SF (`FramesSurvive`; section 3 says why). The
  inductive invariant `LinkInv(n, p, q)` ties the two ends together through the bus:
  every frame on it is a piece of the message its history names (`IsCut`), in order;
  `q` is the last CF cut, `p` the last to leave the bus, `n` the number in the reassembly,
  and `Inv` says that some such numbers exist. As no FF is lost, a CF at the head of the bus is of
  the message being reassembled (`HeadIsOfMessage`). If a CF is missing, a later one
  is accepted in its place only when its number has come round again, and
  then it is at least two places ahead (`SeqApart`): the reassembly stays too far
  behind ever to be completed by what is left of the message (`GrownFact`). So
  what is completed is the message.

**The parts** (`Parts_proofs`)

* The one-call encoder: `PiecesAlwaysFit` and `EncodesWhole` (what the safety half
  of `ReturnsWhole` says), for lengths whose bytes and frames a
  `uint8_t` can count (`LengthsFit`; without it they are false: `lin_encode_long`).
  `EncodeInv` has where the loop stands after `n` CFs (`LoopAt`).
* The timers: `TimeoutsAlwaysExact`, by `StampInv` (a stamp is what the wrapping clock
  showed then) and `WrappedDifference`; `PoolAlwaysExclusive`. `TimerAlwaysOneShot`,
  the refinement of `OneShotTimer`: the two questions of the timer agree because rounding up
  never turns time that is left into none (`RoundedUp`).
* The UART: `StreamAlwaysConserved` from `UartInv`, by cutting and joining sequences
  at any point a system call may stop at.
* The NVM: `NvmAlwaysKeeps` from `NvmInv`: the loop of a write or an erasure stands at
  a place in its data such that what lies before it is in the file, unless a byte was
  passed over (the `continue` of section 6), and what a file that is too short does not have yet
  may be what it is filled with. It holds wherever the process dies.
* `PartsTypeCorrect`: the parts share nothing, so the types of each are those of all.

**A download from end to end** (also in `Parts_proofs`)

* `DownloadAlwaysWhole`, for any image, block size, address, faults, tries and new
  beginnings, if a block and its two header bytes fit a Single Frame (`ShortBlocks`; otherwise
  `download_long` refutes it). The request to open may take several frames:
  what the decoder makes of any of them, in whatever state its reassembly is left, is
  a request to open or nothing (`OpenFrameDecodes`), and one that is too short is refused.
* `DownloadInv` goes phase by phase through what is under way in both directions
  and what the ECU then holds (`Holds(n)`: a transfer with the first `n` blocks of the image
  in the buffer and nothing else stored). What makes it inductive is that all that is under way
  belongs to *one* request, the present one once it was sent, or else the one before: a request
  is repeated at any time, but a *new* one is sent only when nothing is under way. So
  an answer cannot be taken for that of another request of the same kind: of two blocks
  in succession the counters differ, even modulo 256 (`CounterFact`). An answer to a block
  is positive only when it was stored, and then the ECU has one block more than the tester knows
  of; the repeated request is refused (`BlockServed`). When
  a download is begun anew, an exit that is still under way can close a transfer, but
  not one opened since.
* `ConfirmedAlwaysStored`, from the same invariant: as long as the transfer is open, every
  block answered positively is in the buffer, at its place, and at most one more.

**The services**

* `UdsServices_proofs`, security: `SecTypeCorrect`, `GuessesAlwaysBounded`,
  `SecurityAlwaysCoherent`, `DelayAlwaysRefuses`. `SecInv` adds
  `GuessesCounted`, that the history of guesses *is* the attempt counter;
  without it the bound is not inductive.
  Transfer: `BytesAlwaysConserved` and `NeverAnswersSuspended` from
  `CountInv`; `TransferAlwaysInRegion` from `RegionInv` and `RangeValidIsInside`,
  which says that the check in wrapping 32-bit arithmetic means what it should.
  `TransferTypeCorrect` from `RestInv`, the types of what is not counted;
  `AlwaysStoredInOrder` from `OrderInv`: while something is still due, what is stored is
  *all* that was passed, so the next block goes where the last one ended. Once
  nothing is due the last block may have been cut, and order is all that is left.
  `OneBlockUploadFaithful`: an upload filled with no more than one block (`OneBlockImages`)
  is received as it was filled in. By `UploadInv` either nothing of it is sent or all, and the
  memmove of `transfer_upload` has nothing to move.
  Routines: `RoutineTypeCorrect`, `AlwaysOneAtATime`. `RoutineInv` needs
  the uniqueness of identifiers, on which the one-at-a-time check rests.
* `UdsTables_proofs`, trouble codes: `DtcTypeCorrect`, `AlwaysOneRecordEach` from `DtcInv` (both
  together: that a code has one record says that the record a call changes is the
  code's own), and `DtcImplementsStore`, the refinement of `DtcStore`. It needs
  `DtcInv` before and after each step, for the store shows the *one* record of a
  code, and `RoomFact`, by counting: a table with no unused record holds `DbSize`
  codes, one with a hole fewer, so the table finds room exactly when the store has it.
  Dynamic identifiers and overrides: `DynamicAlwaysMap` and `OverridesAlwaysMap`, the two
  refinements of `BoundedMap`, from the same facts about a table with holes
  (`MapShows`, `RoomInTable`, `PutSlot`, `RemoveSlot`) and `DynamicInv` and `IoInv`, that no
  identifier has two slots; an override stays one of a registered identifier because
  registering only appends (`RegisteredStays`). `DataTypeCorrect` from `DataInv`.
  Memory: `AlwaysReadsWhatWasWritten`, for regions with no address in common
  (`RegionsApart`), from `ContentInv`: what the first region of each kind holds is what
  was written, and nothing was written elsewhere. A region registered twice has a second
  buffer, which is never found: hence *first*.
* `UdsDiagnostics_proofs`: `DispatchAlwaysSound` from `ServiceInv`: the clock's value at
  the call is its value now less what the handler took, so the measured time is exact
  below one turn of the clock; an identifier has one entry.
  `DiagnosticsTypeCorrect`: as for the parts.

**The ECU** (`UdsEcu_proofs`)

* `ServerSecures`, `ServerTransfers`, `ServerRoutines`: the server
  implements each component, so what is proved of a component holds in it;
  `FlagAlwaysAgrees`, `SessionAlwaysConsistent` from `ServerInv`;
  `SecuredAlwaysAuthorised` and `TransfersAlwaysAuthorised`, which combine
  `ServerInv` with a component's invariant obtained through the refinement;
  `AnsweredSwitchRelocks`, under the assumption that no answer is suppressed
  (without it the property is false: `server_quiet_switch`). `ServerTypeCorrect`.
* `EcuServes` (`EcuSpec => ServerSpec`), `EcuStores` (`EcuSpec => DtcSpec`) and
  `EcuKeepsTables` (overrides, dynamic identifiers, memory): the services around each part
  do not disturb it, so all of the above holds of the whole ECU. A request of such a
  service also synchronises the flag, which is a stutter of the core only because
  `ServerInv` says that it agrees already. `DidsAlwaysConsistent`,
  `DefaultAlwaysReadsOnly` and `SecuredDataAlwaysAuthorised` from `EcuInv`: `ServerInv`
  with `DataInv`, `MemoryInv`, `DtcInv` and `IoInv`: that no step changes another entry than the
  one its handler was allowed to needs the shape of each table and, for
  overrides, that an identifier has one entry and so one access rule.
  `EventsAlwaysFirst` from `EventsInv`: the history of requests is never longer than the
  store, so a full store is the one in which the next request finds no slot.
  `EcuTypeCorrect` collects the types of all parts through these refinements.

**Only model-checked.** Liveness: `EveryMessageArrives`, `DelayEnds`, `DownloadEnds` and
that the encoder returns (`ReturnsWhole`), since fairness is outside the prover's reach.
Every other property that a run finds to hold is a theorem, some under the assumptions above.
The findings of section 5 are TLC's counterexamples.

## 5. Where the code does not do what it says

Each is a run that TLC ends with a counterexample, and an entry under "findings".

1. **A stream stops at the end of its first block** (`lin_stall`).
   `lin_tx_next_cf_ctx` enters BLOCK_WAIT; an FC Continue leaves only WAIT_FC.
2. **Long messages in one call** (`lin_encode_long`). With a multiple of 256 bytes
   left, `lin_tx_encode_ctx` writes empty CFs and does not come to an end.
3. **Uploads of several blocks** (`transfer_upload`) send the bytes of the next
   block, since the response points into a buffer that has been shifted.
4. **A session switch with a suppressed answer** (`server_quiet_switch`) leaves
   security unlocked.
5. **Overrides outlive the session** (`io_reset`): `uds_svc_io_reset` has no caller.
6. **Requests in several frames are dispatched frame by frame** (`download_long`):
   the decoder answers LIN_OK for an FF and every CF, and `process_lin_frame`
   dispatches what there is. A block of a download is stored in pieces.

## 6. Other observations, not turned into runs

* An FC Wait or an FC with another block size in the middle of a block: Wait is
  not honoured in state CF, and the size received last is in force at once,
  while `uds_lin_transport.h:330-332` describes a fixed block.
  `wft_counter` is never reset between messages and wraps; FC Overflow is ignored.
* A wrong sequence number is reported but does not end the reassembly, and
  nobody calls the time-out check, so the pieces of two messages can meet after
  a lost FF.
* Responses over 47 bytes are dropped after the request has taken effect.
  `serialised_len`, the capacity given to the serialiser, is not initialised
  (`main_sim.c:221,271`), so any answer may be dropped.
* `lin_tx_encode_ctx` and the streaming calls share `tx_state` and `tx_seq_num` of a
  context (`uds_lin_transport.c:159`); no caller mixes them.
* `hal_uart_receive` answers HAL_OK with fewer bytes than asked for after its time-out
  (`hal_uart_posix.c:147`), and `main_sim.c:350` takes a partly filled frame for a whole one.
* `hal_nvm_erase`: the `continue` on EINTR leaves the loop `do ... while (nwritten == 0)`
  and with it skips the byte (`hal_nvm_posix.c:214-222`). A fresh file is filled with zeros from a buffer
  named `erased_page`, while erasing writes 0xFF.
* The simulator registers no transfer region: until an integrator does, every
  download is refused.
* A routine's `session_mask` is stored and never read (`uds_svc_routine.c:202,332`).
* A full event store answers positively and drops the event; the length of an
  event's data is counted in eight bits.
* sendKey without a seed is answered 0x24 during the delay, not 0x37; the key
  after the last attempt is refused even if it is right; several levels can be
  unlocked at a time; attempts and delay are lost in a restart.
* TransferData: the counter moves even when the block is refused; bytes beyond
  those due are dropped and answered positively; a repeated block is
  refused; a session switch does not end the transfer. The handler allows the
  extended session, the dispatch table does not.
* 0x14 passes the three-byte groupOfDTC on, and `uds_dtc_clear` compares its *low*
  nibble with the group of each code (`uds_dtc.c:187`): 200000h, a chassis code,
  clears the powertrain codes, while `uds_svc_stored.h:51` promises "DTC records
  matching the given groupOfDTC". `DtcStore` only asks that whole groups go.
* reportSupportedDTC asks for any status bit, so codes with status 0 are missing,
  although `uds_svc_stored.c` says "regardless of status".
* A full DTC database drops a report without notice. Periodic schedules are never
  ended, and a repeated request takes a further slot.
* Dynamic identifiers: the offset of a source is dropped, sources are not looked
  at, and 0x22 does not know dynamic identifiers. freezeCurrentState keeps
  nothing.
* A 0x2E shorter than its identifier leaves the old tail in place. 0x23 and 0x3D
  add sizes in 16 bits, which matters from regions of 64 KiB on (not modelled), as
  do identifiers of more than 254 bytes in 0x24.
* The default routines have no stop callback and nothing else ends them: after
  one start, no routine can be started until a restart. The positive response
  of 0x31 points into the handler's own stack frame.

## 7. Not modelled, and what could follow

* The byte layout of the parser and the serialiser (`uds_core.c`): stateless. What a
  parsed request means to a handler is in the handler's model; that a response may be
  lost on its way is in `UdsDownload`.
* The FC parameters a context would send (`set_fc_params`, `lin_tx_encode_fc`,
  `lin_stmin_to_ms`): no state of the program is read back from them; the peer of
  `LinLink` chooses its FCs freely.
* The UART's receive callback: stored, never called.
* Suppressed answers of the services outside the core: they keep their effect and
  differ only in what is sent.
* The mock HAL, the test master, fuzzers and unit tests: read for how the API is
  meant to be used.
* Seeds, keys and the generator: a key is its verdict. Contents of responses beyond
  what a property compares.

Further composition: the other multi-frame services behind the receiver, as
`UdsDownload` has it for transfers, and a stream instead of the one-call encoder for
the answers, which the simulator does not use today.
