------------------------ MODULE MCMessageProcessor ------------------------
(***************************************************************************)
(* A small instance of MessageProcessor: two valid received messages that  *)
(* differ, so that an exchange shows, one that is not valid, and two       *)
(* different posted messages.                                              *)
(***************************************************************************)
EXTENDS MessageProcessor

CONSTANTS call, hangup, garbled, linking, incoming

MCIncoming == {call, hangup, garbled}
MCValid == {call, hangup}
MCOutgoing == {linking, incoming}
=============================================================================
