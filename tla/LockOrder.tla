------------------------------ MODULE LockOrder ------------------------------
(***************************************************************************)
(* The mutexes of the station and the threads that take them inside one    *)
(* another, with the joins of Server::close and of the destructors: does   *)
(* any set of threads ever wait for one another?                           *)
(*                                                                         *)
(* A mutex has the name of the class that has it.  All are held by a       *)
(* lock_guard for the length of a block, so a thread gives back first what *)
(* it took last.  What a thread does with a mutex is in the modules of the *)
(* components; here it is only which mutex it may take with which one      *)
(* held.  A session that is destroyed inside a block was closed before     *)
(* (Registry), so ~Session takes no mutex there but that of the Logger.    *)
(* The sleep of fetch(), which gives the mutex of MessageProcessor back,   *)
(* is in MessageProcessor.                                                 *)
(***************************************************************************)
EXTENDS Naturals, Sequences

Mutexes == {"Server", "EquipmentManager", "TimerManager", "MessageProcessor", "Logger"}

Workers == {"network", "timer", "processor"}

Threads == Workers \cup {"main"}

VARIABLES stack,    \* the mutexes each thread holds, the one taken last at the end
          want,     \* the mutex each thread is waiting for
          joining,  \* the thread main is waiting for
          told,     \* the workers that have been told to stop
          ended     \* the workers that have returned

vars == <<stack, want, joining, told, ended>>

None == "none"

\* If Server::listen found no port the network thread is never started.
Init == /\ stack = [t \in Threads |-> <<>>]
        /\ want = [t \in Threads |-> None]
        /\ joining = None
        /\ told = {}
        /\ ended \in {{}, {"network"}}

\* The mutexes a thread takes with none held.
Outer == [network   |-> {"Server", "EquipmentManager", "MessageProcessor", "Logger"},
          timer     |-> {"TimerManager", "MessageProcessor", "Logger"},
          processor |-> Mutexes,
          main      |-> {"Server", "EquipmentManager", "TimerManager", "Logger"}]

\* As it would be if remove ran the handler of stop, and through it the callback,
\* with the mutex of TimerManager held.
InnerOfCallback(m) ==
    {n \in Mutexes : \/ m = "Server" /\ n \in {"EquipmentManager", "Logger"}
                     \/ m = "EquipmentManager" /\ n \in {"TimerManager", "Logger"}
                     \/ m = "TimerManager" /\ n \in {"MessageProcessor", "EquipmentManager", "Logger"}}

\* The mutexes taken while m is the last one taken: Server::send, append and clear
\* use the EquipmentManager, a logout removes the timers of calls, and all log.
Inner(m) ==
    {n \in Mutexes : \/ m = "Server" /\ n \in {"EquipmentManager", "Logger"}
                     \/ m = "EquipmentManager" /\ n \in {"TimerManager", "Logger"}
                     \/ m = "TimerManager" /\ n = "Logger"}

MayTake(t) == IF stack[t] = <<>> THEN Outer[t] ELSE Inner(stack[t][Len(stack[t])])

Holds(t, m) == \E i \in DOMAIN stack[t] : stack[t][i] = m

\* As it would be with a lock that does not exclude.
FreeAlways(m) == TRUE

Free(m) == \A t \in Threads : ~Holds(t, m)

Running(t) == t \notin ended /\ want[t] = None /\ (t = "main" => joining = None)

\* lock(): the thread waits until the mutex is free.
Ask(t, m) == /\ Running(t)
             /\ m \in MayTake(t)
             /\ want' = [want EXCEPT ![t] = m]
             /\ UNCHANGED <<stack, joining, told, ended>>

Lock(t) == /\ want[t] # None
           /\ Free(want[t])
           /\ stack' = [stack EXCEPT ![t] = Append(@, want[t])]
           /\ want' = [want EXCEPT ![t] = None]
           /\ UNCHANGED <<joining, told, ended>>

Unlock(t) == /\ Running(t)
             /\ stack[t] # <<>>
             /\ stack' = [stack EXCEPT ![t] = SubSeq(@, 1, Len(@) - 1)]
             /\ UNCHANGED <<want, joining, told, ended>>

\* The function of a thread returns: the context is stopped, or m_quit is seen.
End(t) == /\ Running(t)
          /\ t \in told
          /\ stack[t] = <<>>
          /\ ended' = ended \cup {t}
          /\ UNCHANGED <<stack, want, joining, told>>

\* As it would be if the destructors locked first and joined then.
JoinAnywhere == TRUE

\* Server::close and the destructors of the singletons join before they lock.
JoinOutside == stack["main"] = <<>>

\* The network thread is joined by Server::close, the timer thread and then the
\* processor thread by the destructors of what they made the first use of, in
\* reverse order.
JoinedBefore == [network   |-> {},
                 timer     |-> {"network"},
                 processor |-> {"network", "timer"}]

Join(t) == /\ Running("main")
           /\ JoinOutside
           /\ told = JoinedBefore[t]
           /\ told' = told \cup {t}
           /\ joining' = t
           /\ UNCHANGED <<stack, want, ended>>

Joined == /\ joining \in ended
          /\ joining' = None
          /\ UNCHANGED <<stack, want, told, ended>>

\* main returns with every worker joined.
Return == /\ Running("main")
          /\ told = Workers
          /\ UNCHANGED vars

Next == \/ \E t \in Threads : \/ Lock(t) \/ Unlock(t)
                              \/ \E m \in Mutexes : Ask(t, m)
        \/ \E t \in Workers : End(t) \/ Join(t)
        \/ Joined \/ Return

SafeSpec == Init /\ [][Next]_vars
-----------------------------------------------------------------------------
(* Properties.                                                             *)

\* Type invariant, with mutual exclusion: a mutex is held by one thread, once.
TypeOK == /\ stack \in [Threads -> Seq(Mutexes)]
          /\ want \in [Threads -> Mutexes \cup {None}]
          /\ joining \in Workers \cup {None}
          /\ told \subseteq Workers
          /\ ended \subseteq Workers
          /\ \A t, u \in Threads : \A i \in DOMAIN stack[t], j \in DOMAIN stack[u] :
                stack[t][i] = stack[u][j] => t = u /\ i = j

Level == [Server |-> 1, EquipmentManager |-> 2, TimerManager |-> 3, MessageProcessor |-> 4,
          Logger |-> 4]

\* The mutexes have an order that every thread keeps, also through the calls that
\* cross components (send, append, clear, logout, clearCall), so a thread never
\* takes again what it holds.
InOrder ==
    \A t \in Threads : \A i \in DOMAIN stack[t] :
        /\ \A j \in DOMAIN stack[t] : i < j => Level[stack[t][i]] < Level[stack[t][j]]
        /\ want[t] # None => Level[stack[t][i]] < Level[want[t]]

\* t cannot go on before u has done something.
WaitsFor(t, u) == \/ want[t] # None /\ Holds(u, want[t])
                  \/ t = "main" /\ joining = u /\ u \notin ended

\* No threads ever wait for one another in a circle: neither for their mutexes
\* nor, in Server::close and the destructors of the singletons, for their end.
NoDeadlock ==
    \A S \in (SUBSET Threads) \ {{}} : \E t \in S : \A u \in S : ~WaitsFor(t, u)
=============================================================================
