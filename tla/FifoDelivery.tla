--------------------------- MODULE FifoDelivery ----------------------------
(***************************************************************************)
(* What a transport connection promises: a message that is handed over is  *)
(* one that was sent, whole, at most once, and in the order of sending.    *)
(* Messages may be lost, never changed, merged, repeated or reordered.     *)
(***************************************************************************)
EXTENDS Integers, Sequences

CONSTANT Messages

VARIABLES
  sent,       \* the messages sent, in order
  delivered,  \* the messages handed over, in order
  last        \* position in sent of the last message handed over

vars == <<sent, delivered, last>>

Init == sent = <<>> /\ delivered = <<>> /\ last = 0

Send(m) ==
  /\ sent' = Append(sent, m)
  /\ UNCHANGED <<delivered, last>>

Deliver(i) ==
  /\ delivered' = Append(delivered, sent[i])
  /\ last' = i
  /\ UNCHANGED sent

Next ==
  \/ \E m \in Messages : Send(m)
  \/ \E i \in last + 1 .. Len(sent) : Deliver(i)

Spec == Init /\ [][Next]_vars
=============================================================================
