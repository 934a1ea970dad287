---------------------------- MODULE MessageFlow ----------------------------
(***************************************************************************)
(* What MessageProcessor (source/processor.cpp) promises the rest of the   *)
(* station, without threads, deques or a condition variable: messages the  *)
(* terminals send are consumed one by one in the order they were received, *)
(* messages the station posts are delivered one by one in the order they   *)
(* were posted, nothing is lost, repeated or invented, and neither stream  *)
(* stalls until the processor is closed.                                   *)
(***************************************************************************)
EXTENDS Naturals, Sequences

CONSTANTS Incoming,   \* messages a terminal can send
          Outgoing    \* messages the station can post

VARIABLES received,   \* every message received so far
          consumed,   \* the part of received the processor is done with
          posted,     \* every message posted so far
          delivered,  \* the part of posted handed to the server
          closed      \* the processor has been asked to quit

vars == <<received, consumed, posted, delivered, closed>>

Init == /\ received = <<>>
        /\ consumed = <<>>
        /\ posted = <<>>
        /\ delivered = <<>>
        /\ closed = FALSE

Receive(m) == /\ ~closed
              /\ received' = Append(received, m)
              /\ UNCHANGED <<consumed, posted, delivered, closed>>

Post(m) == /\ posted' = Append(posted, m)
           /\ UNCHANGED <<received, consumed, delivered, closed>>

Consume == /\ Len(consumed) < Len(received)
           /\ consumed' = Append(consumed, received[Len(consumed) + 1])
           /\ UNCHANGED <<received, posted, delivered, closed>>

Deliver == /\ Len(delivered) < Len(posted)
           /\ delivered' = Append(delivered, posted[Len(delivered) + 1])
           /\ UNCHANGED <<received, consumed, posted, closed>>

Close == /\ ~closed
         /\ closed' = TRUE
         /\ UNCHANGED <<received, consumed, posted, delivered>>

Next == \/ \E m \in Incoming : Receive(m)
        \/ \E m \in Outgoing : Post(m)
        \/ Consume
        \/ Deliver
        \/ Close

SafeSpec == Init /\ [][Next]_vars

Spec == SafeSpec /\ WF_vars(~closed /\ Consume) /\ WF_vars(~closed /\ Deliver)
=============================================================================
