------------------------------- MODULE Delivery -------------------------------
(***************************************************************************)
(* What a sender and a receiver are promised: messages are handed over one *)
(* at a time, the next one when the last has arrived, and each arrives     *)
(* once, in order, and in the end.                                         *)
(***************************************************************************)
EXTENDS Naturals, Sequences

CONSTANT Messages   \* the sequence of messages to deliver

VARIABLES sent, delivered   \* how many were handed over, and what has arrived

deliveryVars == <<sent, delivered>>

Init == sent = 0 /\ delivered = <<>>

Send ==
    /\ sent = Len(delivered)
    /\ sent < Len(Messages)
    /\ sent' = sent + 1
    /\ delivered' = delivered

Deliver ==
    /\ Len(delivered) < sent
    /\ delivered' = Append(delivered, Messages[sent])
    /\ sent' = sent

Spec == Init /\ [][Send \/ Deliver]_deliveryVars /\ WF_deliveryVars(Send) /\ WF_deliveryVars(Deliver)
=============================================================================
