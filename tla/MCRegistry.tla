----------------------------- MODULE MCRegistry -----------------------------
(***************************************************************************)
(* Small instances of Registry: two connections that may use one number,   *)
(* so that the second one is refused, or a number each, or one that is not *)
(* registered.                                                             *)
(***************************************************************************)
EXTENDS Registry

CONSTANTS c1, c2, n1, n2

TwoConns == {c1, c2}

OneNumber == {n1}
TwoNumbers == {n1, n2}
=============================================================================
