---------------------------- MODULE TimerManager ----------------------------
(***************************************************************************)
(* The answer timers of calls: the classes Timer and TimerManager of       *)
(* source/timer.cpp.                                                       *)
(*                                                                         *)
(* Every operation finds its timer in m_timers under m_mutex and queues a  *)
(* handler on the strand of the timer; the worker thread runs the handlers *)
(* of all strands, one at a time.  A handler holds the timer by a weak     *)
(* pointer: it does nothing once the timer is destroyed, and keeps it from *)
(* being destroyed while it runs.  The wait of a timer that is destroyed   *)
(* or cancelled ends; its expiry, once queued on the strand, is not taken  *)
(* back.                                                                   *)
(*                                                                         *)
(* The clients are MakeCall, RecvCall, AnswerCall, HangupCall on the       *)
(* processor thread and clearCall on the network thread.  A timer is       *)
(* started once, with the callback of MakeCall, which first removes it.    *)
(* The handlers of a cancelled wait return at once and are left out.       *)
(***************************************************************************)
EXTENDS Naturals, Sequences

CONSTANTS MaxTimers,  \* bound on the timers created
          MaxCalls    \* bound on the calls of stop and reset

ASSUME ConstantsAssumption == MaxTimers \in Nat /\ MaxCalls \in Nat

Keys == 0..(MaxTimers - 1)

VARIABLES m_counter,  \* the key of the next timer
          m_timers,   \* the keys in the table
          m_running,  \* the timers whose m_running was set last
          waiting,    \* the timers with an async_wait that has not expired
          strand,     \* the handlers queued for each timer, oldest first
          worker,     \* what the worker thread is doing
          main,       \* where ~TimerManager is
          started,    \* history of the timers start was called for
          calls       \* number of calls of stop and reset so far

vars == <<m_counter, m_timers, m_running, waiting, strand, worker, main, started, calls>>

Idle == [step |-> "idle"]
At(step, k) == [step |-> step, key |-> k]

Init == /\ m_counter = 0
        /\ m_timers = {}
        /\ m_running = {}
        /\ waiting = {}
        /\ strand = [k \in Keys |-> <<>>]
        /\ worker = Idle
        /\ main = "running"
        /\ started = {}
        /\ calls = 0

\* The callback of k is running.
InCallback(k) == worker \in {At("callback", k), At("rest", k)}

\* As it would be if the handlers held their timer by a shared pointer.
AlwaysAlive(k) == TRUE

\* weak_from_this().lock() succeeds.
Alive(k) == k \in m_timers \/ InCallback(k)

\* asio::dispatch from outside of the strand.
Dispatch(k, handler) == strand' = [strand EXCEPT ![k] = Append(@, handler)]

Queued(k, handler) == \E i \in DOMAIN strand[k] : strand[k][i] = handler

\* m_running = false, and the wait ends.
Cease(k) == /\ m_running' = m_running \ {k}
            /\ waiting' = waiting \ {k}

\* The table drops its reference.  With the last one the timer is destroyed and
\* its wait ends; what was queued stays queued.
Drop(k) == /\ m_timers' = m_timers \ {k}
           /\ waiting' = IF InCallback(k) THEN waiting ELSE waiting \ {k}
-----------------------------------------------------------------------------
(* The operations, each under m_mutex.  They may come until the manager is *)
(* gone, also while it is being destroyed.                                 *)

\* As it would be if create forgot to count.
SameKey == m_counter

NextKey == m_counter + 1

MutexFree == main \notin {"erasing", "done"}

Create == /\ MutexFree
          /\ m_counter < MaxTimers
          /\ m_timers' = m_timers \cup {m_counter}
          /\ m_counter' = NextKey
          /\ UNCHANGED <<m_running, waiting, strand, worker, main, started, calls>>

Start(k) == /\ MutexFree
            /\ k \in m_timers \ started
            /\ started' = started \cup {k}
            /\ Dispatch(k, "start")
            /\ UNCHANGED <<m_counter, m_timers, m_running, waiting, worker, main, calls>>

\* stop and reset: nothing for a key that is not in the table any more.
StopOrReset(k, handler) ==
    /\ MutexFree
    /\ k \in started
    /\ calls < MaxCalls
    /\ calls' = calls + 1
    /\ IF k \in m_timers THEN Dispatch(k, handler) ELSE UNCHANGED strand
    /\ UNCHANGED <<m_counter, m_timers, m_running, waiting, worker, main, started>>

Stop(k) == StopOrReset(k, "stop")

Reset(k) == StopOrReset(k, "reset")

\* The handler of stop that remove queues finds the timer destroyed.
Remove(k) == /\ MutexFree
             /\ k \in started \cap m_timers
             /\ Drop(k)
             /\ Dispatch(k, "stop")
             /\ UNCHANGED <<m_counter, m_running, worker, main, started, calls>>
-----------------------------------------------------------------------------
(* The worker thread.                                                      *)

\* It runs the context between two handlers.
Serving == worker = Idle /\ main = "running"

\* The wait of a timer ends and its handler is queued on the strand.
Expire(k) == /\ Serving
             /\ k \in waiting
             /\ waiting' = waiting \ {k}
             /\ Dispatch(k, "expired")
             /\ UNCHANGED <<m_counter, m_timers, m_running, worker, main, started, calls>>

\* The oldest handler of a strand.
Takes(k, handler) == /\ Serving
                     /\ strand[k] # <<>>
                     /\ Head(strand[k]) = handler
                     /\ strand' = [strand EXCEPT ![k] = Tail(@)]
                     /\ UNCHANGED <<m_counter, m_timers, main, started, calls>>

\* m_timer.cancel() and m_timer.expires_after(): a wait that is pending ends.
Schedule(k) == waiting' = waiting \cup {k}

\* As it would be if reset only cancelled.
CancelOnly(k) == waiting' = waiting \ {k}

\* The timer of a running call waits from the start again.
Again(k) == Schedule(k)

HandleDead(k) == /\ ~Alive(k)
                 /\ \E handler \in {"start", "stop", "reset", "expired"} : Takes(k, handler)
                 /\ UNCHANGED <<m_running, waiting, worker>>

HandleStart(k) == /\ Alive(k)
                  /\ Takes(k, "start")
                  /\ m_running' = m_running \cup {k}
                  /\ Schedule(k)
                  /\ UNCHANGED worker

HandleStop(k) == /\ Alive(k)
                 /\ Takes(k, "stop")
                 /\ Cease(k)
                 /\ UNCHANGED worker

HandleReset(k) == /\ Alive(k)
                  /\ Takes(k, "reset")
                  /\ IF k \in m_running THEN Again(k) ELSE UNCHANGED waiting
                  /\ UNCHANGED <<m_running, worker>>

\* The handler of the wait: the callback of a timer that is running begins.
HandleExpired(k) == /\ Alive(k)
                    /\ Takes(k, "expired")
                    /\ worker' = IF k \in m_running THEN At("callback", k) ELSE Idle
                    /\ UNCHANGED <<m_running, waiting>>

\* remove, called in the callback: the dispatched stop runs at once, because this
\* is the strand, if the key is still in the table.
CallbackRemove(k) == /\ worker = At("callback", k)
                     /\ MutexFree
                     /\ \/ k \in m_timers /\ m_timers' = m_timers \ {k} /\ Cease(k)
                        \/ k \notin m_timers /\ UNCHANGED <<m_timers, m_running, waiting>>
                     /\ worker' = At("rest", k)
                     /\ UNCHANGED <<m_counter, strand, main, started, calls>>

\* The end of the handler: m_running is cleared and the last reference dropped.
EndCallback(k) == /\ worker = At("rest", k)
                  /\ Cease(k)
                  /\ worker' = Idle
                  /\ UNCHANGED <<m_counter, m_timers, strand, main, started, calls>>
-----------------------------------------------------------------------------
(* ~TimerManager, on the main thread.                                      *)

\* m_worker.reset() and m_context.stop(): no further handler is run.
StopContext == /\ main = "running"
               /\ main' = "stopping"
               /\ UNCHANGED <<m_counter, m_timers, m_running, waiting, strand, worker, started, calls>>

\* m_thread.join().
Join == /\ main = "stopping"
        /\ worker = Idle
        /\ main' = "joined"
        /\ UNCHANGED <<m_counter, m_timers, m_running, waiting, strand, worker, started, calls>>

\* The mutex is taken for the loop that erases every timer.
BeginErase == /\ main = "joined"
              /\ main' = "erasing"
              /\ UNCHANGED <<m_counter, m_timers, m_running, waiting, strand, worker, started, calls>>

\* The handler of stop is queued for a context that does not run any more.
Erase(k) == /\ main = "erasing"
            /\ k \in m_timers
            /\ Drop(k)
            /\ Dispatch(k, "stop")
            /\ UNCHANGED <<m_counter, m_running, worker, main, started, calls>>

EndErase == /\ main = "erasing"
            /\ m_timers = {}
            /\ main' = "done"
            /\ UNCHANGED <<m_counter, m_timers, m_running, waiting, strand, worker, started, calls>>

Gone == main = "done" /\ UNCHANGED vars
-----------------------------------------------------------------------------
Handle(k) == \/ HandleDead(k) \/ HandleStart(k) \/ HandleStop(k) \/ HandleReset(k)
             \/ HandleExpired(k)

Callback(k) == CallbackRemove(k) \/ EndCallback(k)

Client(k) == Start(k) \/ Stop(k) \/ Reset(k) \/ Remove(k)

Destructor == Join \/ BeginErase \/ EndErase \/ \E k \in Keys : Erase(k)

Next == \/ Create \/ StopContext \/ Destructor \/ Gone
        \/ \E k \in Keys : Client(k) \/ Expire(k) \/ Handle(k) \/ Callback(k)

SafeSpec == Init /\ [][Next]_vars

\* A wait expires, the worker thread runs what is queued, each strand in its turn,
\* and ~TimerManager goes on once begun.  No client has to call anything.
Spec == /\ SafeSpec
        /\ \A k \in Keys : WF_vars(Expire(k)) /\ WF_vars(Handle(k)) /\ WF_vars(Callback(k))
        /\ WF_vars(Destructor)
-----------------------------------------------------------------------------
(* Properties.                                                             *)

Handlers == {"start", "stop", "reset", "expired"}

\* Type invariant.
TypeOK == /\ m_counter \in 0..MaxTimers
          /\ m_timers \subseteq 0..(m_counter - 1)
          /\ started \subseteq 0..(m_counter - 1)
          /\ m_running \subseteq started
          /\ waiting \subseteq started
          /\ strand \in [Keys -> Seq(Handlers)]
          /\ worker \in {Idle} \cup {At(step, k) : step \in {"callback", "rest"}, k \in started}
          /\ main \in {"running", "stopping", "joined", "erasing", "done"}
          /\ calls \in 0..MaxCalls

\* A wait belongs to a timer that exists and runs, so nothing is left to expire
\* when a timer has been removed; and a timer that runs is never forgotten: it
\* waits or its expiry is queued, also when a reset replaces the wait just as it
\* expires (start, stop, reset, schedule of timer.cpp).
WaitsAndRuns ==
    /\ \A k \in waiting : Alive(k) /\ k \in m_running
    /\ \A k \in m_running \cap m_timers :
          k \in waiting \/ Queued(k, "expired") \/ InCallback(k)

\* The timers implement the promise the commands of a call rely on: they fire at
\* most once, never begin to fire after remove has returned or a stop was
\* handled, and fire if they are left alone.
Timers == INSTANCE AnswerTimer
          WITH armed  <- {k \in m_timers : /\ ~InCallback(k)
                                           /\ k \in m_running \/ Queued(k, "start")},
               firing <- {k \in Keys : InCallback(k)},
               spent  <- started,
               open   <- main = "running"

AnswerTimerSpec == Timers!Spec
=============================================================================
