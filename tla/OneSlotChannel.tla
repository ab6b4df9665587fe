--------------------------- MODULE OneSlotChannel ---------------------------
(***************************************************************************)
(* What a shared-memory buffer promises to the handle built on it: a       *)
(* channel of whole messages that holds one message at a time and delivers *)
(* each message once, in the order of the puts.                            *)
(***************************************************************************)
EXTENDS Integers, Sequences

CONSTANT Msg \* the messages, here known by their size

VARIABLES sent, delivered

Init == sent = <<>> /\ delivered = <<>>

Send == /\ Len(sent) = Len(delivered)
        /\ \E m \in Msg : sent' = Append(sent, m)
        /\ UNCHANGED delivered

Deliver == /\ Len(delivered) < Len(sent)
           /\ delivered' = Append(delivered, sent[Len(delivered) + 1])
           /\ UNCHANGED sent

Next == Send \/ Deliver

Spec == Init /\ [][Next]_<<sent, delivered>>

=============================================================================
