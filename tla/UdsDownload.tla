----------------------------- MODULE UdsDownload -----------------------------
(***************************************************************************)
(* A download from end to end: a tester, a bus that loses frames, and the  *)
(* ECU with its receiver (LinRx) and its transfer services (UdsTransfer)   *)
(* joined by main_sim's process_lin_frame, which answers every frame the   *)
(* receiver decodes.  The tester is external: it opens the transfer, sends *)
(* the blocks, each when the last was answered positively, and exits.  If  *)
(* no such answer comes in time, it repeats the request, and in the end    *)
(* begins anew.  Its timeout is meant for when nothing is under way, but   *)
(* may come early, which counts as a fault.                                *)
(*                                                                         *)
(* The session and the security are those a download needs throughout.     *)
(***************************************************************************)
EXTENDS LinRx, UdsTransfer

CONSTANTS
  Image,        \* what is downloaded
  Piece,        \* bytes of it in one block
  Address,      \* where to
  OpenSid, DataSid, ExitSid,  \* service identifiers
  MaxFaults,    \* bound: frames and answers lost, early timeouts
  Tolerated,    \* faults with which a download must still succeed
  MaxTries,     \* times a request is sent
  MaxRestarts   \* times the tester begins anew

ASSUME DownloadParameters ==
  /\ DataBytes \subseteq Bytes /\ Image \in Seq(DataBytes) /\ Piece \in Nat \ {0}
  /\ {OpenSid, DataSid, ExitSid} \subseteq Bytes
  /\ OpenSid # DataSid /\ OpenSid # ExitSid /\ DataSid # ExitSid
  /\ 0 .. ByteSize - 1 \subseteq Bytes
  /\ MaxFaults \in Nat /\ Tolerated \in Nat /\ MaxTries \in Nat \ {0} /\ MaxRestarts \in Nat

VARIABLES
  phase,      \* what the tester is about, or "done" or "failed"
  confirmed,  \* blocks answered positively
  tries,      \* times the present request was sent; 0: not yet
  restarts,
  requests,   \* frames under way to the ECU
  answers,    \* answers under way to the tester
  faults,
  stored      \* history: the bytes in the buffer when a transfer was last closed

testerVars   == <<phase, confirmed, tries, restarts>>
ecuVars      == <<rxVars, uploadVars, stored>>
downloadVars == <<testerVars, ecuVars, requests, answers, faults>>

DownloadInit ==
  /\ RxInit /\ expected_nad = DefaultNad
  /\ TransferInit
  /\ phase = "prepare" /\ confirmed = 0 /\ tries = 0 /\ restarts = 0
  /\ requests = <<>> /\ answers = <<>> /\ faults = 0
  /\ stored = <<>>

-----------------------------------------------------------------------------
(* The ECU: process_lin_frame. *)

\* The request of a whole RequestDownload: its parameters are given by Address
\* and Image.
OpenPdu == <<OpenSid, Pad, Pad, Pad, Pad>>

\* uds_parse_request, and the handler the service identifier selects.
Dispatch(pdu) ==
  \/ /\ pdu[1] = OpenSid
     /\ RequestTransfer("DOWNLOAD", "PROGRAMMING", TRUE, Len(pdu) >= Len(OpenPdu),
                        Address, Len(Image))
     /\ UNCHANGED stored
  \/ /\ pdu[1] = DataSid
     /\ TransferData(pdu[2], SubSeq(pdu, 3, Len(pdu)))
     /\ UNCHANGED stored
  \/ /\ pdu[1] = ExitSid
     /\ NoTransfer \/ (Len(pdu) > 1 /\ ExitWithData) \/ (Len(pdu) = 1 /\ CloseTransfer)
     /\ stored' = IF active THEN Prefix(buffer, buffer_length) ELSE stored

\* The simulator goes on with every frame that was decoded to some data, whether
\* the message is complete or not.
Answers(result) == result.status = "OK" /\ result.data # <<>>

\* The answer to a request; that to a block echoes its counter.
AnswerTo(pdu) ==
  [sid |-> pdu[1], nrc |-> rsp'.nrc,
   bsc |-> IF pdu[1] = DataSid /\ rsp'.nrc = "NONE" THEN pdu[2] ELSE 0]

CanLose == faults < MaxFaults

\* An answer may be lost on the bus, or given up: its serialisation is told an
\* uninitialized capacity, and sending may fail.
SendAnswer(pdu) ==
  \/ answers' = Append(answers, AnswerTo(pdu)) /\ UNCHANGED faults
  \/ CanLose /\ faults' = faults + 1 /\ UNCHANGED answers

ProcessFrame ==
  /\ requests # <<>>
  /\ Decode(DefaultNad, Head(requests))
  /\ IF Answers(rx_result')
     THEN Dispatch(rx_result'.data) /\ SendAnswer(rx_result'.data)
     ELSE UNCHANGED <<uploadVars, stored, answers, faults>>
  /\ requests' = Tail(requests)
  /\ UNCHANGED testerVars

LoseFrame ==
  /\ requests # <<>> /\ CanLose
  /\ requests' = Tail(requests)
  /\ faults' = faults + 1
  /\ UNCHANGED <<testerVars, ecuVars, answers>>

-----------------------------------------------------------------------------
(* The tester. *)

\* The kth CF of a request.
CfOf(pdu, k) ==
  CFrame(NextSeq(k - 1),
         Taken(SubSeq(pdu, FFPayload + (k - 1) * CFPayload + 1, Len(pdu)), CFPayload))

\* The frames of a request: without Flow Control they are sent one after another.
FramesOf(pdu) ==
  IF Len(pdu) <= SFMax THEN <<SFrame(pdu)>>
  ELSE <<FFrame(pdu)>> \o [k \in 1 .. CfCount(Len(pdu)) |-> CfOf(pdu, k)]

BlockCount == (Len(Image) + Piece - 1) \div Piece
Counter == (confirmed + 1) % ByteSize

Request ==
  CASE phase = "open" -> OpenPdu
    [] phase = "data" -> <<DataSid, Counter>>
                           \o Taken(SubSeq(Image, confirmed * Piece + 1, Len(Image)), Piece)
    [] phase \in {"exit", "abandon"} -> <<ExitSid>>

Busy == phase \in {"open", "data", "exit", "abandon"}
Quiet == requests = <<>> /\ answers = <<>>

Transmit ==
  /\ Busy /\ tries < MaxTries
  /\ requests' = requests \o FramesOf(Request)
  /\ tries' = tries + 1
  /\ UNCHANGED <<phase, confirmed, restarts, ecuVars, answers>>

\* Every try went unanswered: the transfer is abandoned and begun anew.
Restart ==
  /\ Busy /\ tries = MaxTries
  /\ IF restarts < MaxRestarts
     THEN phase' = "abandon" /\ restarts' = restarts + 1
     ELSE phase' = "failed" /\ UNCHANGED restarts
  /\ tries' = 0
  /\ UNCHANGED <<confirmed, ecuVars, requests, answers>>

SendRequest == Quiet /\ Transmit /\ UNCHANGED faults
GiveUp      == Quiet /\ Restart /\ UNCHANGED faults

\* The timeout races frames or an answer still under way.
TimeoutEarly ==
  /\ ~Quiet /\ tries > 0 /\ CanLose
  /\ Transmit \/ Restart
  /\ faults' = faults + 1

\* What a positive answer to the present request leads to.
NextPhase ==
  CASE phase = "open" -> IF BlockCount = 0 THEN "exit" ELSE "data"
    [] phase = "data" -> IF confirmed + 1 < BlockCount THEN "data" ELSE "exit"
    [] phase = "exit" -> "done"
    [] phase = "abandon" -> "open"

Expected(a) ==
  /\ Busy /\ a.sid = Request[1]
  /\ a.nrc = "NONE" \/ phase = "abandon"
  /\ phase = "data" => a.bsc = Counter

TakeAnswer ==
  /\ answers # <<>>
  /\ answers' = Tail(answers)
  /\ IF Expected(Head(answers))
     THEN /\ phase' = NextPhase
          /\ confirmed' = IF phase = "data" THEN confirmed + 1 ELSE 0
          /\ tries' = 0
     ELSE UNCHANGED <<phase, confirmed, tries>>
  /\ UNCHANGED <<restarts, ecuVars, requests, faults>>

\* The integrator registers a region before the first request; the simulator
\* itself has none.
Prepare ==
  /\ phase = "prepare" /\ phase' = "open"
  /\ \E r \in Ranges : RegisterRegion(r)
  /\ UNCHANGED <<rxVars, stored, confirmed, tries, restarts, requests, answers, faults>>

DownloadNext == Prepare \/ ProcessFrame \/ LoseFrame \/ SendRequest \/ TakeAnswer
                \/ GiveUp \/ TimeoutEarly

\* The simulator's loop and the tester go on; nothing has to be lost.
DownloadSpec ==
  /\ DownloadInit /\ [][DownloadNext]_downloadVars
  /\ WF_downloadVars(Prepare) /\ WF_downloadVars(ProcessFrame)
  /\ WF_downloadVars(TakeAnswer) /\ WF_downloadVars(SendRequest) /\ WF_downloadVars(GiveUp)

-----------------------------------------------------------------------------
\* "call repeatedly with First Frame (FF) then Consecutive Frames (CF) until the
\* full message is reassembled" (uds_lin_transport.h): a tester that has had
\* every request of a download answered positively has its image stored, whole
\* and in order, whichever frames and answers were lost or overtaken by a timeout,
\* and however often a request was repeated or the download begun anew.
DownloadWhole == phase = "done" => stored = Image

\* A download comes to an end, successfully if no more than what is tolerated
\* goes wrong: a receiver left waiting for a CF, a block answered but not heard of and a
\* transfer left open do not stand in the way of beginning anew.
DownloadEnds ==
  /\ <>(phase \in {"done", "failed"})
  /\ [](faults <= Tolerated) => <>(phase = "done")
=============================================================================
