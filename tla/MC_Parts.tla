------------------------------ MODULE MC_Parts ------------------------------
(* The parts that work on state of their own, each by itself: none of them  *)
(* shares a variable with another, so each behaviour keeps to one of them.  *)
(* The encoder has the sizes of the code (a message of up to 260 bytes      *)
(* leaves at most 255 after the FF), the others scaled ones.                *)
EXTENDS LinEncode, UdsSecurity, UdsTransfer, LinTimers, HalTimer, HalUart, HalNvm

VARIABLE family

partVars == <<encodeVars, secVars, uploadVars, timerVars, halTimerVars, uartVars, nvmVars>>
vars == <<partVars, family>>

Init ==
  /\ EncodeInit /\ SecInit /\ TransferInit /\ TimersInit
  /\ HalTimerInit /\ UartInit /\ NvmInit
  /\ family \in {"encode", "security", "transfer", "timers", "timer", "uart", "nvm"}
  /\ family # "encode" => data_len = 1 /\ max_frames = 1
  /\ family # "security" => current_level_idx = CHOOSE l \in Levels : TRUE
  /\ family # "timer" => clock_ns = 0

Next ==
  /\ \/ /\ family = "encode" /\ EncodeNext
        /\ UNCHANGED <<secVars, uploadVars, timerVars, halTimerVars, uartVars, nvmVars>>
     \/ /\ family = "security" /\ SecNext
        /\ UNCHANGED <<encodeVars, uploadVars, timerVars, halTimerVars, uartVars, nvmVars>>
     \/ /\ family = "transfer" /\ TransferNext
        /\ UNCHANGED <<encodeVars, secVars, timerVars, halTimerVars, uartVars, nvmVars>>
     \/ /\ family = "timers" /\ TimersNext
        /\ UNCHANGED <<encodeVars, secVars, uploadVars, halTimerVars, uartVars, nvmVars>>
     \/ /\ family = "timer" /\ HalTimerNext
        /\ UNCHANGED <<encodeVars, secVars, uploadVars, timerVars, uartVars, nvmVars>>
     \/ /\ family = "uart" /\ UartNext
        /\ UNCHANGED <<encodeVars, secVars, uploadVars, timerVars, halTimerVars, nvmVars>>
     \/ /\ family = "nvm" /\ NvmNext
        /\ UNCHANGED <<encodeVars, secVars, uploadVars, timerVars, halTimerVars, uartVars>>
  /\ UNCHANGED family

\* The fairness of EncodeSpec and of FairSecSpec.
Spec ==
  /\ Init /\ [][Next]_vars
  /\ WF_encodeVars(family = "encode" /\ EncodeNext)
  /\ WF_secVars(Expire)
  /\ \A l \in Levels : WF_secVars(timer = "expired" /\ RequestSeed(l))

\* The parts keep their types: above all, a transfer's counts stay in its buffer
\* and a slot of the context pool has one owner, whatever the requests, failures
\* and restarts.
TypeOK ==
  /\ SecTypeOK /\ TransferTypeOK /\ TimersTypeOK /\ PoolExclusive
  /\ HalTimerTypeOK /\ UartTypeOK /\ NvmTypeOK

MC_Messages == 0 .. 260
MC_Ranges == {[start |-> 4, end |-> 7], [start |-> 6, end |-> 7], [start |-> 3, end |-> 2]}
MC_Blocks == {<<>>, <<1>>, <<2, 1>>, <<1, 2, 2>>}
MC_Images == {<<1>>, <<1, 2>>}
MC_Outgoing == {<<1>>, <<0, 1, 1>>}
=============================================================================
