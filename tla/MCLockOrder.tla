---------------------------- MODULE MCLockOrder ----------------------------
(***************************************************************************)
(* LockOrder has no constants: its four threads and five mutexes are those *)
(* of the station.                                                         *)
(***************************************************************************)
EXTENDS LockOrder
=============================================================================
