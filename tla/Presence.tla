------------------------------ MODULE Presence ------------------------------
(***************************************************************************)
(* What the session registry (source/server.cpp, source/equipment.cpp)     *)
(* promises the rest of the station, without mutexes, handlers or timers.  *)
(* A number is reached through at most one connection, which is open and   *)
(* belongs to the terminal of that number.  A connection is online at most *)
(* once in its life: it goes offline only by ending.                       *)
(***************************************************************************)
CONSTANTS Conns,      \* connections
          Numbers,    \* numbers the station knows
          NoSession   \* stands for no connection

VARIABLES online,     \* the connection each number is reached through
          ended       \* connections that are over

vars == <<online, ended>>

IsOnline(c) == \E n \in Numbers : online[n] = c

Init == /\ online = [n \in Numbers |-> NoSession]
        /\ ended = {}

GoOnline(n, c) == /\ online[n] = NoSession
                  /\ c \notin ended
                  /\ ~IsOnline(c)
                  /\ online' = [online EXCEPT ![n] = c]
                  /\ UNCHANGED ended

\* Going offline and ending are one step: nobody reaches a number through a
\* connection that is over.
GoOffline(n) == /\ online[n] # NoSession
                /\ online' = [online EXCEPT ![n] = NoSession]
                /\ ended' = ended \cup {online[n]}

EndUnseen(c) == /\ c \notin ended
                /\ ~IsOnline(c)
                /\ ended' = ended \cup {c}
                /\ UNCHANGED online

Next == \/ \E n \in Numbers, c \in Conns : GoOnline(n, c)
        \/ \E n \in Numbers : GoOffline(n)
        \/ \E c \in Conns : EndUnseen(c)

Spec == Init /\ [][Next]_vars
=============================================================================
