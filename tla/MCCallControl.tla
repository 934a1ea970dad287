--------------------------- MODULE MCCallControl ---------------------------
(***************************************************************************)
(* A small instance of CallControl: one terminal calls another.            *)
(***************************************************************************)
EXTENDS CallControl

CONSTANTS alice, bob, uuid

MCNumbers == {alice, bob}
MCCalls == {uuid}
MCCaller == [u \in Calls |-> alice]
MCCallee == [u \in Calls |-> bob]
=============================================================================
