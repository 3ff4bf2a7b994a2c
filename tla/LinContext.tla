----------------------------- MODULE LinContext -----------------------------
(***************************************************************************)
(* One LIN transport context (lin_transport_ctx_t) as its callers see it:  *)
(* the streaming sender of LinTx and the receiver of LinRx share the       *)
(* address filter, the decoder and the reset.  One thread calls it.        *)
(***************************************************************************)
EXTENDS LinTx, LinRx

contextVars == <<txVars, rxVars>>

ContextInit == TxInit /\ RxInit

\* A Flow Control frame passes the address filter before it counts.
DecodeFC(nad, status, bs) ==
  /\ DecodeEmpty(nad)
  /\ RecvFc(status, bs)

\* lin_transport_reset_ctx clears both halves.
ContextReset == TxReset /\ RxReset

\* What only one half takes part in.
SendingStep ==
  /\ (\E m \in Messages : BeginStream(m)) \/ NextCf \/ AbortStream
  /\ UNCHANGED rxVars

ReceivingStep ==
  /\ \/ \E nad \in Nads, f \in Frames : Decode(nad, f)
     \/ \E nad \in Nads : RejectNad(nad) \/ SetNad(nad)
     \/ \E enable \in BOOLEAN : SetAcceptFunctional(enable)
  /\ UNCHANGED txVars

ContextNext ==
  \/ SendingStep
  \/ ReceivingStep
  \/ \E nad \in Nads, status \in FcStatus, bs \in BlockSizes : DecodeFC(nad, status, bs)
  \/ ContextReset

ContextSpec == ContextInit /\ [][ContextNext]_contextVars

-----------------------------------------------------------------------------
\* Types of both halves of the context.
ContextTypeOK == TxTypeOK /\ RxTypeOK
=============================================================================
