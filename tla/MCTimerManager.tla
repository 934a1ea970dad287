--------------------------- MODULE MCTimerManager ---------------------------
(***************************************************************************)
(* A small instance of TimerManager: two timers.                           *)
(***************************************************************************)
EXTENDS TimerManager
=============================================================================
