----------------------------- MODULE AnswerTimer -----------------------------
(***************************************************************************)
(* What the answer timer of a call promises to the commands of a call: a   *)
(* timer is armed once, it fires at most once, and never after it has been *)
(* disarmed.  A callback that has begun goes on after a disarm.  A timer   *)
(* that stays armed fires, as long as the timers are served.               *)
(***************************************************************************)
CONSTANT Keys

VARIABLES armed,   \* timers that have been started and may fire
          firing,  \* timers whose callback has begun and not ended
          spent,   \* timers that have ever been armed
          open     \* the timers are being served

vars == <<armed, firing, spent, open>>

Init == /\ armed = {}
        /\ firing = {}
        /\ spent = {}
        /\ open = TRUE

Arm(k) == /\ k \notin spent
          /\ armed' = armed \cup {k}
          /\ spent' = spent \cup {k}
          /\ UNCHANGED <<firing, open>>

Disarm(k) == /\ k \in armed
             /\ armed' = armed \ {k}
             /\ UNCHANGED <<firing, spent, open>>

Fire(k) == /\ open
           /\ k \in armed
           /\ armed' = armed \ {k}
           /\ firing' = firing \cup {k}
           /\ UNCHANGED <<spent, open>>

Finish(k) == /\ k \in firing
             /\ firing' = firing \ {k}
             /\ UNCHANGED <<armed, spent, open>>

Close == /\ open
         /\ open' = FALSE
         /\ UNCHANGED <<armed, firing, spent>>

Next == \/ \E k \in Keys : Arm(k) \/ Disarm(k) \/ Fire(k) \/ Finish(k)
        \/ Close

Serve(k) == Fire(k) \/ (open /\ Finish(k))

SafeSpec == Init /\ [][Next]_vars

Spec == SafeSpec /\ \A k \in Keys : WF_vars(Serve(k))
=============================================================================
