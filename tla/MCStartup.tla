----------------------------- MODULE MCStartup -----------------------------
(***************************************************************************)
(* A small instance of Startup: eight ports, three of them tried.  The     *)
(* configured ports include 0, one whose range ends at the largest port,   *)
(* one whose range wraps, and one that does not fit in a port.             *)
(***************************************************************************)
EXTENDS Startup

MCDefault == [port |-> 3, devices |-> {"a", "b"}]
MCCustoms == {[port |-> p, devices |-> {"a"}] : p \in {0, 4, 5, 6, 10}}
=============================================================================
