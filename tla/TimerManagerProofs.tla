-------------------------- MODULE TimerManagerProofs --------------------------
(***************************************************************************)
(* Proofs about TimerManager, for any number of timers and of calls: type  *)
(* correctness, that waits belong to running timers and no running timer   *)
(* is forgotten, and that the timers, strands and worker implement         *)
(* AnswerTimer.                                                            *)
(*                                                                         *)
(* All three rest on what the queues may contain (StrandsBegin): the       *)
(* handler of start is the first a strand ever gets, so once a handler of  *)
(* stop is taken no start is behind it that would arm the timer again.     *)
(***************************************************************************)
EXTENDS TimerManager, TLAPS

\* What a strand has queued before its timer was started, only the end of the
\* manager can have put there; and nothing is queued in front of a start.
StrandsBegin ==
    /\ \A k \in Keys \ started : strand[k] # <<>> => main \in {"erasing", "done"}
    /\ \A k \in Keys : \A i \in DOMAIN strand[k] : strand[k][i] = "start" => i = 1

\* A callback that has got past its remove is of a timer which is not in the table.
RestIsRemoved == \A k \in Keys : worker = At("rest", k) => k \notin m_timers

IInv == TypeOK /\ StrandsBegin /\ RestIsRemoved
-----------------------------------------------------------------------------
(* Keys, callbacks and strands.                                            *)

LEMMA KeysAreNumbers ==
  ASSUME TypeOK
  PROVE  /\ m_counter \in Nat
         /\ m_counter < MaxTimers => m_counter \in Keys
         /\ m_timers \subseteq Keys /\ started \subseteq Keys
         /\ m_counter \notin m_timers /\ m_counter \notin started
         /\ \A k \in m_timers \cup started : k \in 0..m_counter
  BY ConstantsAssumption DEF TypeOK, Keys

LEMMA StartedKeys ==
  ASSUME TypeOK
  PROVE  /\ m_running \subseteq Keys /\ waiting \subseteq Keys
         /\ \A k : InCallback(k) => k \in started
  BY KeysAreNumbers DEF TypeOK, InCallback, At, Idle

LEMMA OneCallback ==
  /\ worker = Idle => \A k : ~InCallback(k)
  /\ \A j, k : InCallback(j) /\ InCallback(k) => j = k
  /\ \A k : At("callback", k) # Idle /\ At("rest", k) # Idle
  BY DEF InCallback, Idle, At

LEMMA Dispatched ==
  ASSUME TypeOK, NEW k \in Keys, NEW handler \in Handlers, Dispatch(k, handler)
  PROVE  /\ strand' \in [Keys -> Seq(Handlers)]
         /\ \A j \in Keys \ {k} : strand'[j] = strand[j]
         /\ strand'[k] # <<>>
         /\ \A i \in DOMAIN strand'[k] :
               \/ i \in DOMAIN strand[k] /\ strand'[k][i] = strand[k][i]
               \/ i = Len(strand[k]) + 1 /\ strand'[k][i] = handler
         /\ \A j \in Keys : \A h : Queued(j, h)' <=> Queued(j, h) \/ (j = k /\ h = handler)
<1>1. strand[k] \in Seq(Handlers) /\ strand'[k] = Append(strand[k], handler)
  BY DEF TypeOK, Dispatch
<1>2. /\ strand' \in [Keys -> Seq(Handlers)]
      /\ \A j \in Keys \ {k} : strand'[j] = strand[j]
  BY <1>1 DEF TypeOK, Dispatch
<1>3. /\ DOMAIN strand'[k] = 1..(Len(strand[k]) + 1) /\ DOMAIN strand[k] = 1..Len(strand[k])
      /\ Len(strand[k]) \in Nat
      /\ \A i \in 1..Len(strand[k]) : strand'[k][i] = strand[k][i]
      /\ strand'[k][Len(strand[k]) + 1] = handler
  BY <1>1
<1>4. strand'[k] # <<>>
  BY <1>3
<1>5. \A h : Queued(k, h)' <=> Queued(k, h) \/ h = handler
  BY <1>3 DEF Queued
<1>6. \A j \in Keys \ {k} : \A h : Queued(j, h)' <=> Queued(j, h)
  BY <1>2 DEF Queued
<1> QED  BY <1>2, <1>3, <1>4, <1>5, <1>6

LEMMA TakenOut ==
  ASSUME TypeOK, NEW k \in Keys, NEW handler, Takes(k, handler)
  PROVE  /\ strand' \in [Keys -> Seq(Handlers)]
         /\ \A j \in Keys \ {k} : strand'[j] = strand[j]
         /\ strand[k] # <<>> /\ 1 \in DOMAIN strand[k] /\ strand[k][1] = handler
         /\ \A i \in DOMAIN strand'[k] :
               i \in Nat \ {0} /\ i + 1 \in DOMAIN strand[k] /\ strand'[k][i] = strand[k][i + 1]
         /\ \A j \in Keys : \A h : Queued(j, h)' => Queued(j, h)
         /\ \A j \in Keys : \A h : Queued(j, h) => Queued(j, h)' \/ (j = k /\ h = handler)
<1>1. strand[k] \in Seq(Handlers) /\ strand[k] # <<>> /\ strand'[k] = Tail(strand[k])
  BY DEF TypeOK, Takes
<1>2. /\ strand' \in [Keys -> Seq(Handlers)]
      /\ \A j \in Keys \ {k} : strand'[j] = strand[j]
  BY <1>1 DEF TypeOK, Takes
<1>3. /\ Len(strand[k]) \in Nat \ {0} /\ DOMAIN strand[k] = 1..Len(strand[k])
      /\ DOMAIN strand'[k] = 1..(Len(strand[k]) - 1)
      /\ \A i \in 1..(Len(strand[k]) - 1) : strand'[k][i] = strand[k][i + 1]
      /\ strand[k][1] = Head(strand[k])
  BY <1>1
<1>4. strand[k][1] = handler
  BY <1>3 DEF Takes
<1>5. ASSUME NEW h, Queued(k, h)'
      PROVE  Queued(k, h)
  <2>1. PICK i \in DOMAIN strand'[k] : strand'[k][i] = h
    BY <1>5 DEF Queued
  <2>2. i + 1 \in DOMAIN strand[k] /\ strand[k][i + 1] = h
    BY <1>3, <2>1
  <2> QED  BY <2>2 DEF Queued
<1>6. ASSUME NEW h, Queued(k, h), h # handler
      PROVE  Queued(k, h)'
  <2>1. PICK i \in DOMAIN strand[k] : strand[k][i] = h
    BY <1>6 DEF Queued
  <2>2. i - 1 \in DOMAIN strand'[k] /\ strand'[k][i - 1] = h
    BY <1>3, <1>4, <1>6, <2>1
  <2> QED  BY <2>2 DEF Queued
<1>7. \A j \in Keys \ {k} : \A h : Queued(j, h)' <=> Queued(j, h)
  BY <1>2 DEF Queued
<1>8. \A i \in DOMAIN strand'[k] :
         i \in Nat \ {0} /\ i + 1 \in DOMAIN strand[k] /\ strand'[k][i] = strand[k][i + 1]
  BY <1>3
<1> QED  BY <1>1, <1>2, <1>3, <1>4, <1>5, <1>6, <1>7, <1>8

\* A handler that is run is of a timer that was started, and a timer that is alive
\* then is in the table.
LEMMA HandledIsStarted ==
  ASSUME IInv, NEW k \in Keys, NEW handler, Takes(k, handler)
  PROVE  k \in started /\ worker = Idle /\ main = "running" /\ (Alive(k) => k \in m_timers)
<1>1. worker = Idle /\ main = "running" /\ strand[k] # <<>>
  BY DEF Takes, Serving
<1> QED  BY <1>1, OneCallback DEF IInv, StrandsBegin, Alive
-----------------------------------------------------------------------------
(* Type correctness.                                                       *)

LEMMA InitIInv == Init => IInv
  BY ConstantsAssumption DEF Init, IInv, TypeOK, StrandsBegin, RestIsRemoved, Idle, At

LEMMA DispatchKeepsStrands ==
  ASSUME IInv, NEW k \in Keys, NEW handler \in Handlers \ {"start"}, Dispatch(k, handler),
         k \in started' \/ main' \in {"erasing", "done"}, started' = started, main' = main
  PROVE  StrandsBegin'
<1>1. \A j \in Keys \ started' : strand'[j] # <<>> => main' \in {"erasing", "done"}
  BY Dispatched DEF IInv, StrandsBegin
<1>2. \A i \in DOMAIN strand'[k] : strand'[k][i] = "start" => i = 1
  BY Dispatched DEF IInv, StrandsBegin
<1> QED  BY <1>1, <1>2, Dispatched DEF IInv, StrandsBegin

LEMMA TakesKeepsStrands ==
  ASSUME IInv, NEW k \in Keys, NEW handler, Takes(k, handler)
  PROVE  StrandsBegin'
<1>1. UNCHANGED <<started, main>> /\ k \in started
  BY HandledIsStarted DEF Takes
<1>2. \A i \in DOMAIN strand'[k] : strand'[k][i] # "start"
  <2> SUFFICES ASSUME NEW i \in DOMAIN strand'[k], strand[k][i + 1] = "start" PROVE FALSE
    BY TakenOut DEF IInv
  <2>1. i \in Nat \ {0} /\ i + 1 \in DOMAIN strand[k]
    BY TakenOut DEF IInv
  <2>2. i + 1 = 1
    BY <2>1 DEF IInv, StrandsBegin
  <2> QED  BY <2>1, <2>2
<1>3. \A j \in Keys \ {k} : strand'[j] = strand[j]
  BY TakenOut DEF IInv
<1> QED  BY <1>1, <1>2, <1>3 DEF IInv, StrandsBegin

LEMMA StartKeeps ==
  ASSUME IInv, NEW k \in Keys, Start(k)
  PROVE  IInv'
<1>1. TypeOK /\ "start" \in Handlers /\ Dispatch(k, "start")
  BY DEF IInv, Start, Handlers
<1>2. TypeOK'
  BY <1>1, Dispatched DEF Start, TypeOK
<1>3. strand[k] = <<>>
  BY DEF IInv, StrandsBegin, Start, MutexFree
<1>4. \A i \in DOMAIN strand'[k] : i = 1
  BY <1>1, <1>3, Dispatched
<1>5. StrandsBegin'
  BY <1>1, <1>4, Dispatched DEF IInv, StrandsBegin, Start
<1>6. RestIsRemoved'
  BY DEF IInv, RestIsRemoved, Start
<1> QED  BY <1>2, <1>5, <1>6 DEF IInv

LEMMA StopOrResetKeeps ==
  ASSUME IInv, NEW k \in Keys, NEW handler \in {"stop", "reset"}, StopOrReset(k, handler)
  PROVE  IInv'
<1>1. TypeOK /\ handler \in Handlers \ {"start"} /\ k \in started
  BY DEF IInv, StopOrReset, Handlers
<1>2. RestIsRemoved'
  BY DEF IInv, RestIsRemoved, StopOrReset
<1>3. calls' \in 0..MaxCalls
  BY ConstantsAssumption, <1>1 DEF StopOrReset, TypeOK
<1>4. CASE Dispatch(k, handler)
  <2>1. TypeOK'
    BY <1>1, <1>3, <1>4, Dispatched DEF StopOrReset, TypeOK
  <2>2. StrandsBegin'
    BY <1>1, <1>4, DispatchKeepsStrands DEF StopOrReset
  <2> QED  BY <1>2, <2>1, <2>2 DEF IInv
<1>5. CASE UNCHANGED strand
  BY <1>2, <1>3, <1>5 DEF IInv, StopOrReset, TypeOK, StrandsBegin
<1> QED  BY <1>4, <1>5 DEF StopOrReset

LEMMA DropKeeps ==
  ASSUME IInv, NEW k \in Keys, Remove(k) \/ Erase(k)
  PROVE  IInv'
<1>1. TypeOK /\ "stop" \in Handlers \ {"start"} /\ Dispatch(k, "stop") /\ Drop(k)
      /\ UNCHANGED <<m_counter, m_running, worker, main, started, calls>>
  BY DEF IInv, Remove, Erase, Handlers
<1>2. TypeOK'
  <2>1. strand' \in [Keys -> Seq(Handlers)]
    BY <1>1, Dispatched
  <2>2. m_timers' \subseteq m_timers /\ waiting' \subseteq waiting
    BY <1>1 DEF Drop
  <2> QED  BY <1>1, <2>1, <2>2 DEF TypeOK
<1>3. StrandsBegin'
  BY <1>1, DispatchKeepsStrands DEF Remove, Erase
<1>4. RestIsRemoved'
  BY <1>1 DEF IInv, RestIsRemoved, Drop
<1> QED  BY <1>2, <1>3, <1>4 DEF IInv

LEMMA ExpireKeeps ==
  ASSUME IInv, NEW k \in Keys, Expire(k)
  PROVE  IInv'
<1>1. TypeOK /\ "expired" \in Handlers \ {"start"} /\ k \in started
  BY DEF IInv, Expire, Handlers, TypeOK
<1>2. TypeOK'
  BY <1>1, Dispatched DEF Expire, TypeOK
<1>3. StrandsBegin'
  BY <1>1, DispatchKeepsStrands DEF Expire
<1>4. RestIsRemoved'
  BY DEF IInv, RestIsRemoved, Expire
<1> QED  BY <1>2, <1>3, <1>4 DEF IInv

LEMMA HandleKeeps ==
  ASSUME IInv, NEW k \in Keys, Handle(k)
  PROVE  IInv'
<1>1. PICK handler \in {"start", "stop", "reset", "expired"} : Takes(k, handler)
  BY DEF Handle, HandleDead, HandleStart, HandleStop, HandleReset, HandleExpired
<1>2. k \in started /\ worker = Idle /\ strand' \in [Keys -> Seq(Handlers)]
      /\ UNCHANGED <<m_counter, m_timers, main, started, calls>>
  BY <1>1, HandledIsStarted, TakenOut DEF IInv, Takes
<1>3. m_running' \subseteq started /\ waiting' \subseteq started
  BY <1>2 DEF IInv, TypeOK, Handle, HandleDead, HandleStart, HandleStop, HandleReset,
              HandleExpired, Cease, Schedule, Again
<1>4. worker' = Idle \/ worker' = At("callback", k)
  BY <1>2 DEF Handle, HandleDead, HandleStart, HandleStop, HandleReset, HandleExpired
<1>5. TypeOK'
  BY <1>2, <1>3, <1>4 DEF IInv, TypeOK
<1>6. RestIsRemoved'
  BY <1>4 DEF RestIsRemoved, At, Idle
<1> QED  BY <1>1, <1>5, <1>6, TakesKeepsStrands DEF IInv

LEMMA CallbackKeeps ==
  ASSUME IInv, NEW k \in Keys, Callback(k)
  PROVE  IInv'
<1>1. k \in started
  BY StartedKeys DEF IInv, Callback, CallbackRemove, EndCallback, InCallback
<1>2. TypeOK'
  BY <1>1 DEF IInv, TypeOK, Callback, CallbackRemove, EndCallback, Cease
<1>3. StrandsBegin'
  BY DEF IInv, StrandsBegin, Callback, CallbackRemove, EndCallback
<1>4. RestIsRemoved'
  BY DEF RestIsRemoved, Callback, CallbackRemove, EndCallback, At, Idle
<1> QED  BY <1>2, <1>3, <1>4 DEF IInv

LEMMA NextIInv == IInv /\ [Next]_vars => IInv'
<1> SUFFICES ASSUME IInv, [Next]_vars PROVE IInv'
  OBVIOUS
<1>1. CASE Create
  <2>1. TypeOK'
    BY <1>1, ConstantsAssumption DEF IInv, TypeOK, Create, NextKey
  <2>2. RestIsRemoved'
    <3>1. \A k \in Keys : worker = At("rest", k) => k \in started
      BY StartedKeys DEF IInv, InCallback
    <3> QED  BY <1>1, <3>1, KeysAreNumbers DEF IInv, RestIsRemoved, Create
  <2> QED  BY <1>1, <2>1, <2>2 DEF IInv, StrandsBegin, Create
<1>2. CASE StopContext \/ Join \/ BeginErase \/ EndErase \/ UNCHANGED vars
  BY <1>2 DEF IInv, TypeOK, StrandsBegin, RestIsRemoved, StopContext, Join, BeginErase, EndErase,
              vars
<1>3. ASSUME NEW k \in Keys, Stop(k) \/ Reset(k)
      PROVE  IInv'
  BY <1>3, StopOrResetKeeps DEF Stop, Reset
<1> QED  BY <1>1, <1>2, <1>3, StartKeeps, DropKeeps, ExpireKeeps, HandleKeeps, CallbackKeeps
         DEF Next, Client, Destructor, Gone

LEMMA Invariant == SafeSpec => []IInv
  BY InitIInv, NextIInv, PTL DEF SafeSpec

\* Every variable keeps its type: only timers that were started run, wait or call
\* back (timer.cpp).
THEOREM Typing == SafeSpec => []TypeOK
<1>1. IInv => TypeOK
  BY DEF IInv
<1> QED  BY <1>1, Invariant, PTL
-----------------------------------------------------------------------------
(* Waits and runs.                                                         *)

\* The two halves of WaitsAndRuns.
WaitsRun == \A k \in waiting : Alive(k) /\ k \in m_running

RunsWait == \A k \in m_running \cap m_timers :
               k \in waiting \/ Queued(k, "expired") \/ InCallback(k)

LEMMA ClientWaits ==
  ASSUME IInv, WaitsRun, RunsWait, NEW k \in Keys, Client(k) \/ Erase(k)
  PROVE  WaitsRun' /\ RunsWait'
<1>1. UNCHANGED <<m_running, worker>> /\ \A j : InCallback(j)' <=> InCallback(j)
  BY DEF Client, Start, Stop, Reset, StopOrReset, Remove, Erase, InCallback
<1>2. \A j \in Keys : \A h : Queued(j, h) => Queued(j, h)'
  <2>1. TypeOK /\ {"start", "stop", "reset"} \subseteq Handlers
    BY DEF IInv, Handlers
  <2>2. CASE UNCHANGED strand
    BY <2>2 DEF Queued
  <2> QED  BY <2>1, <2>2, Dispatched
           DEF Client, Start, Stop, Reset, StopOrReset, Remove, Erase
<1>3. CASE UNCHANGED <<m_timers, waiting>>
  BY <1>1, <1>2, <1>3, KeysAreNumbers DEF IInv, WaitsRun, RunsWait, Alive
<1>4. CASE Drop(k)
  BY <1>1, <1>2, <1>4, KeysAreNumbers DEF IInv, Drop, WaitsRun, RunsWait, Alive
<1> QED  BY <1>3, <1>4 DEF Client, Start, Stop, Reset, StopOrReset, Remove, Erase

LEMMA ExpireWaits ==
  ASSUME IInv, WaitsRun, RunsWait, NEW k \in Keys, Expire(k)
  PROVE  WaitsRun' /\ RunsWait'
<1>1. TypeOK /\ "expired" \in Handlers /\ Dispatch(k, "expired") /\ waiting' = waiting \ {k}
      /\ UNCHANGED <<m_timers, m_running, worker>>
  BY DEF IInv, Expire, Handlers
<1>2. \A j \in Keys : /\ Queued(j, "expired") => Queued(j, "expired")'
                     /\ Queued(k, "expired")'
  BY <1>1, Dispatched
<1> QED  BY <1>1, <1>2, KeysAreNumbers DEF WaitsRun, RunsWait, Alive, InCallback

LEMMA HandleWaits ==
  ASSUME IInv, WaitsRun, RunsWait, NEW k \in Keys, Handle(k)
  PROVE  WaitsRun' /\ RunsWait'
<1>1. PICK handler \in {"start", "stop", "reset", "expired"} : Takes(k, handler)
  BY DEF Handle, HandleDead, HandleStart, HandleStop, HandleReset, HandleExpired
<1>2. m_timers' = m_timers /\ m_timers \subseteq Keys /\ worker = Idle
      /\ (Alive(k) => k \in m_timers)
  BY <1>1, HandledIsStarted, KeysAreNumbers DEF IInv, Takes
<1>3. \A j : ~InCallback(j)
  BY <1>2, OneCallback
<1>4. \A j \in Keys : \A h : Queued(j, h) => Queued(j, h)' \/ (j = k /\ h = handler)
  BY <1>1, TakenOut DEF IInv
<1>5. \A j \in waiting : j \in m_timers /\ j \in m_running
  BY <1>3 DEF WaitsRun, Alive
<1>6. \A j \in m_running \cap m_timers : j \in waiting \/ Queued(j, "expired")
  BY <1>3 DEF RunsWait
<1>7. CASE HandleDead(k)
  BY <1>2, <1>4, <1>5, <1>6, <1>7 DEF HandleDead, Alive, WaitsRun, RunsWait
<1>8. CASE HandleStart(k)
  <2>1. handler = "start"
    BY <1>1, <1>8 DEF HandleStart, Takes
  <2> QED  BY <1>2, <1>4, <1>5, <1>6, <1>8, <2>1
           DEF HandleStart, Schedule, Alive, WaitsRun, RunsWait
<1>9. CASE HandleStop(k)
  <2>1. handler = "stop"
    BY <1>1, <1>9 DEF HandleStop, Takes
  <2> QED  BY <1>2, <1>4, <1>5, <1>6, <1>9, <2>1
           DEF HandleStop, Cease, Alive, WaitsRun, RunsWait
<1>10. CASE HandleReset(k)
  <2>1. handler = "reset"
    BY <1>1, <1>10 DEF HandleReset, Takes
  <2> QED  BY <1>2, <1>4, <1>5, <1>6, <1>10, <2>1
           DEF HandleReset, Again, Schedule, Alive, WaitsRun, RunsWait
<1>11. CASE HandleExpired(k)
  <2>1. handler = "expired"
    BY <1>1, <1>11 DEF HandleExpired, Takes
  <2>2. k \in m_running => InCallback(k)'
    BY <1>11 DEF HandleExpired, InCallback
  <2> QED  BY <1>2, <1>4, <1>5, <1>6, <1>11, <2>1, <2>2
           DEF HandleExpired, Alive, WaitsRun, RunsWait
<1> QED  BY <1>7, <1>8, <1>9, <1>10, <1>11 DEF Handle

LEMMA CallbackWaits ==
  ASSUME IInv, WaitsRun, RunsWait, NEW k \in Keys, Callback(k)
  PROVE  WaitsRun' /\ RunsWait'
<1>1. InCallback(k) /\ \A j : InCallback(j) => j = k
  BY OneCallback DEF Callback, CallbackRemove, EndCallback, InCallback
<1>2. UNCHANGED strand
  BY DEF Callback, CallbackRemove, EndCallback
<1>3. CASE CallbackRemove(k)
  <2>1. InCallback(k)'
    BY <1>3 DEF CallbackRemove, InCallback
  <2> QED  BY <1>1, <1>2, <1>3, <2>1
           DEF CallbackRemove, Cease, WaitsRun, RunsWait, Alive, Queued
<1>4. CASE EndCallback(k)
  BY <1>1, <1>2, <1>4 DEF EndCallback, Cease, WaitsRun, RunsWait, Alive, Queued
<1> QED  BY <1>3, <1>4 DEF Callback

LEMMA NextWaits == IInv /\ WaitsRun /\ RunsWait /\ [Next]_vars => WaitsRun' /\ RunsWait'
<1> SUFFICES ASSUME IInv, WaitsRun, RunsWait, [Next]_vars PROVE WaitsRun' /\ RunsWait'
  OBVIOUS
<1>1. CASE Create
  <2>1. m_counter \notin m_running
    BY KeysAreNumbers DEF IInv, TypeOK
  <2> QED  BY <1>1, <2>1 DEF Create, WaitsRun, RunsWait, Alive, InCallback, Queued
<1>2. CASE StopContext \/ Join \/ BeginErase \/ EndErase \/ UNCHANGED vars
  BY <1>2 DEF StopContext, Join, BeginErase, EndErase, vars, WaitsRun, RunsWait, Alive,
              InCallback, Queued
<1> QED  BY <1>1, <1>2, ClientWaits, ExpireWaits, HandleWaits, CallbackWaits
         DEF Next, Destructor, Gone

\* A wait belongs to a timer that exists and runs, so nothing is left to expire
\* when a timer has been removed; and a timer that runs is never forgotten: it
\* waits or its expiry is queued, also when a reset replaces the wait just as it
\* expires (start, stop, reset, schedule of timer.cpp).
THEOREM NoTimerIsForgotten == SafeSpec => []WaitsAndRuns
<1>1. Init => WaitsRun /\ RunsWait
  BY DEF Init, WaitsRun, RunsWait
<1>2. WaitsRun /\ RunsWait => WaitsAndRuns
  BY DEF WaitsRun, RunsWait, WaitsAndRuns
<1> QED  BY <1>1, <1>2, Invariant, NextWaits, PTL DEF SafeSpec
-----------------------------------------------------------------------------
(* TimerManager implements AnswerTimer.                                    *)

MayFire(k) == k \in m_timers /\ ~InCallback(k) /\ (k \in m_running \/ Queued(k, "start"))

Armed == {k \in m_timers : ~InCallback(k) /\ (k \in m_running \/ Queued(k, "start"))}

Firing == {k \in Keys : InCallback(k)}

LEMMA InitTimers == Init => Timers!Init
  BY DEF Init, Timers!Init, InCallback, Idle, At

\* A step that does none of the four to any timer, and does not close the timers.
LEMMA TimersStutter ==
  ASSUME \A j \in Keys : (MayFire(j)' <=> MayFire(j)) /\ (InCallback(j)' <=> InCallback(j)),
         m_timers \subseteq Keys, m_timers' \subseteq Keys,
         started' = started, (main' = "running") = (main = "running")
  PROVE  UNCHANGED Timers!vars
<1>1. Armed' = Armed /\ Firing' = Firing
  BY DEF Armed, Firing, MayFire
<1> QED  BY <1>1 DEF Timers!vars, Armed, Firing

\* k, and no other timer, may not fire any more.
LEMMA TimersDisarm ==
  ASSUME NEW k \in Keys, ~MayFire(k)',
         \A j \in Keys \ {k} : MayFire(j)' <=> MayFire(j),
         \A j \in Keys : InCallback(j)' <=> InCallback(j),
         m_timers \subseteq Keys, m_timers' \subseteq Keys,
         started' = started, (main' = "running") = (main = "running")
  PROVE  [Timers!Next]_(Timers!vars)
<1>1. CASE MayFire(k)
  <2>1. Armed' = Armed \ {k} /\ Firing' = Firing /\ k \in Armed
    BY <1>1 DEF Armed, Firing, MayFire
  <2>2. Timers!Disarm(k)
    BY <2>1 DEF Timers!Disarm, Armed, Firing
  <2> QED  BY <2>2 DEF Timers!Next
<1>2. CASE ~MayFire(k)
  BY <1>2, TimersStutter
<1> QED  BY <1>1, <1>2

LEMMA ClientSteps ==
  ASSUME IInv, NEW k \in Keys, Client(k) \/ Erase(k)
  PROVE  [Timers!Next]_(Timers!vars)
<1>1. /\ TypeOK /\ {"start", "stop", "reset"} \subseteq Handlers
      /\ m_timers \subseteq Keys /\ started \subseteq Keys
  BY KeysAreNumbers DEF IInv, Handlers
<1>2. UNCHANGED <<m_running, worker, main>> /\ \A j : InCallback(j)' <=> InCallback(j)
  BY DEF Client, Start, Stop, Reset, StopOrReset, Remove, Erase, InCallback
<1>3. CASE Start(k)
  <2>1. k \notin started /\ started' = started \cup {k} /\ k \in m_timers /\ m_timers' = m_timers
    BY <1>3 DEF Start
  <2>2. ~InCallback(k)
    BY <1>1, <2>1, StartedKeys
  <2>3. \A j \in Keys : Queued(j, "start")' <=> Queued(j, "start") \/ j = k
    BY <1>1, <1>3, Dispatched DEF Start
  <2>4. Armed' = Armed \cup {k} /\ Firing' = Firing
    BY <1>1, <1>2, <2>1, <2>2, <2>3 DEF Armed, Firing
  <2>5. Timers!Arm(k)
    BY <1>2, <2>1, <2>4 DEF Timers!Arm, Armed, Firing
  <2> QED  BY <2>5 DEF Timers!Next
<1>4. ASSUME NEW handler \in {"stop", "reset"}, StopOrReset(k, handler)
      PROVE  UNCHANGED Timers!vars
  <2>1. \A j \in Keys : Queued(j, "start")' <=> Queued(j, "start")
    <3>1. CASE Dispatch(k, handler)
      BY <1>1, <1>4, <3>1, Dispatched
    <3>2. CASE UNCHANGED strand
      BY <3>2 DEF Queued
    <3> QED  BY <1>4, <3>1, <3>2 DEF StopOrReset
  <2>2. UNCHANGED <<m_timers, started>>
    BY <1>4 DEF StopOrReset
  <2>3. \A j \in Keys : MayFire(j)' <=> MayFire(j)
    BY <1>2, <2>1, <2>2 DEF MayFire
  <2> QED  BY <1>1, <1>2, <2>2, <2>3, TimersStutter
<1>5. CASE Remove(k) \/ Erase(k)
  <2>1. Dispatch(k, "stop") /\ m_timers' = m_timers \ {k} /\ started' = started
    BY <1>5 DEF Remove, Erase, Drop
  <2>2. \A j \in Keys : Queued(j, "start")' <=> Queued(j, "start")
    BY <1>1, <2>1, Dispatched
  <2>3. \A j \in Keys \ {k} : MayFire(j)' <=> MayFire(j)
    BY <1>2, <2>1, <2>2 DEF MayFire
  <2>4. ~MayFire(k)'
    BY <2>1 DEF MayFire
  <2> QED  BY <1>1, <1>2, <2>1, <2>3, <2>4, TimersDisarm
<1> QED  BY <1>3, <1>4, <1>5 DEF Client, Stop, Reset

\* Once a handler is taken that is no start, none is behind it.
LEMMA NoStartBehind ==
  ASSUME IInv, NEW k \in Keys, NEW handler, Takes(k, handler)
  PROVE  ~Queued(k, "start")' /\ (handler # "start" => ~Queued(k, "start"))
<1>1. strand[k][1] = handler
  BY TakenOut DEF IInv
<1>2. ASSUME NEW i \in DOMAIN strand[k], strand[k][i] = "start"
      PROVE  i = 1
  BY <1>2 DEF IInv, StrandsBegin
<1>3. ASSUME NEW i \in DOMAIN strand'[k], strand'[k][i] = "start"
      PROVE  FALSE
  <2>1. i \in Nat \ {0} /\ i + 1 \in DOMAIN strand[k] /\ strand[k][i + 1] = "start"
    BY <1>3, TakenOut DEF IInv
  <2>2. i + 1 = 1
    BY <1>2, <2>1
  <2> QED  BY <2>1, <2>2
<1> QED  BY <1>1, <1>2, <1>3 DEF Queued

LEMMA HandleSteps ==
  ASSUME IInv, NEW k \in Keys, Handle(k)
  PROVE  [Timers!Next]_(Timers!vars)
<1>1. PICK handler \in {"start", "stop", "reset", "expired"} : Takes(k, handler)
  BY DEF Handle, HandleDead, HandleStart, HandleStop, HandleReset, HandleExpired
<1>2. /\ UNCHANGED <<m_timers, started, main>> /\ m_timers \subseteq Keys
      /\ worker = Idle /\ main = "running" /\ (Alive(k) => k \in m_timers)
  BY <1>1, HandledIsStarted, KeysAreNumbers DEF IInv, Takes
<1>3. \A j : ~InCallback(j)
  BY <1>2, OneCallback
<1>4. \A j \in Keys \ {k} : Queued(j, "start")' <=> Queued(j, "start")
  BY <1>1, TakenOut DEF IInv
<1>5. ~Queued(k, "start")'
  BY <1>1, NoStartBehind
<1>6. \A j \in Keys \ {k} : j \in m_running' <=> j \in m_running
  BY DEF Handle, HandleDead, HandleStart, HandleStop, HandleReset, HandleExpired, Cease
<1>7. worker' = worker => \A j : ~InCallback(j)'
  BY <1>3 DEF InCallback
<1>8. CASE HandleDead(k) \/ HandleStart(k) \/ HandleReset(k)
  <2>1. worker' = worker
    BY <1>8 DEF HandleDead, HandleStart, HandleReset
  <2>2. MayFire(k)' <=> MayFire(k)
    <3>1. CASE HandleDead(k)
      BY <1>2, <3>1 DEF HandleDead, MayFire, Alive
    <3>2. CASE HandleStart(k)
      <4>1. Queued(k, "start")
        BY <3>2, TakenOut DEF HandleStart, IInv, Queued
      <4> QED  BY <1>2, <1>3, <1>7, <2>1, <3>2, <4>1 DEF HandleStart, MayFire
    <3>3. CASE HandleReset(k)
      <4>1. ~Queued(k, "start")
        BY <3>3, NoStartBehind DEF HandleReset
      <4> QED  BY <1>2, <1>3, <1>5, <1>7, <2>1, <3>3, <4>1 DEF HandleReset, MayFire
    <3> QED  BY <1>8, <3>1, <3>2, <3>3
  <2>3. \A j \in Keys : MayFire(j)' <=> MayFire(j)
    BY <1>2, <1>3, <1>4, <1>6, <1>7, <2>1, <2>2 DEF MayFire
  <2> QED  BY <1>2, <1>3, <1>7, <2>1, <2>3, TimersStutter
<1>9. CASE HandleStop(k)
  <2>1. worker' = worker /\ k \notin m_running'
    BY <1>9 DEF HandleStop, Cease
  <2>2. ~MayFire(k)' /\ \A j \in Keys \ {k} : MayFire(j)' <=> MayFire(j)
    BY <1>2, <1>3, <1>4, <1>5, <1>6, <1>7, <2>1 DEF MayFire
  <2> QED  BY <1>2, <1>3, <1>7, <2>1, <2>2, TimersDisarm
<1>10. CASE HandleExpired(k)
  <2>1. ~Queued(k, "start") /\ m_running' = m_running /\ k \in m_timers
    BY <1>2, <1>10, NoStartBehind DEF HandleExpired
  <2>2. CASE k \in m_running
    <3>1. worker' = At("callback", k)
      BY <1>10, <2>2 DEF HandleExpired
    <3>2. \A j : InCallback(j)' <=> j = k
      BY <3>1 DEF InCallback, At
    <3>3. k \in Armed /\ Armed' = Armed \ {k} /\ Firing' = Firing \cup {k}
      BY <1>2, <1>3, <1>4, <2>1, <2>2, <3>2 DEF Armed, Firing
    <3>4. Timers!Fire(k)
      BY <1>2, <3>3 DEF Timers!Fire, Armed, Firing
    <3> QED  BY <3>4 DEF Timers!Next
  <2>3. CASE k \notin m_running
    <3>1. worker' = worker
      BY <1>2, <1>10, <2>3 DEF HandleExpired
    <3>2. \A j \in Keys : MayFire(j)' <=> MayFire(j)
      BY <1>2, <1>3, <1>4, <1>5, <1>6, <1>7, <2>1, <2>3, <3>1 DEF MayFire
    <3> QED  BY <1>2, <1>3, <1>7, <3>1, <3>2, TimersStutter
  <2> QED  BY <2>2, <2>3
<1> QED  BY <1>8, <1>9, <1>10 DEF Handle

LEMMA CallbackSteps ==
  ASSUME IInv, NEW k \in Keys, Callback(k)
  PROVE  [Timers!Next]_(Timers!vars)
<1>1. InCallback(k) /\ \A j : InCallback(j) => j = k
  BY OneCallback DEF Callback, CallbackRemove, EndCallback, InCallback
<1>2. /\ UNCHANGED <<strand, started, main>> /\ m_timers \subseteq Keys
      /\ m_timers' \in {m_timers, m_timers \ {k}}
      /\ m_running' \in {m_running, m_running \ {k}}
  BY KeysAreNumbers DEF IInv, Callback, CallbackRemove, EndCallback, Cease
<1>3. \A j, h : Queued(j, h)' <=> Queued(j, h)
  BY <1>2 DEF Queued
<1>4. CASE CallbackRemove(k)
  <2>1. \A j : InCallback(j)' <=> j = k
    BY <1>4 DEF CallbackRemove, InCallback, At
  <2>2. ~MayFire(k) /\ ~MayFire(k)'
    BY <1>1, <2>1 DEF MayFire
  <2>3. \A j \in Keys \ {k} : MayFire(j)' <=> MayFire(j)
    BY <1>1, <1>2, <1>3, <2>1 DEF MayFire
  <2> QED  BY <1>1, <1>2, <2>1, <2>2, <2>3, TimersStutter
<1>5. CASE EndCallback(k)
  <2>1. \A j : ~InCallback(j)'
    BY <1>5, OneCallback DEF EndCallback, InCallback
  <2>2. k \notin m_timers /\ m_timers' = m_timers
    BY <1>5 DEF EndCallback, IInv, RestIsRemoved
  <2>3. Armed' = Armed /\ k \in Firing /\ Firing' = Firing \ {k}
    BY <1>1, <1>2, <1>3, <2>1, <2>2 DEF Armed, Firing
  <2>4. Timers!Finish(k)
    BY <1>2, <2>3 DEF Timers!Finish, Armed, Firing
  <2> QED  BY <2>4 DEF Timers!Next
<1> QED  BY <1>4, <1>5 DEF Callback

LEMMA StepTimers ==
  ASSUME IInv, [Next]_vars
  PROVE  [Timers!Next]_(Timers!vars)
<1>1. CASE Create
  <2>1. m_counter \in Keys /\ m_counter \notin m_running /\ m_counter \notin started
        /\ m_timers \subseteq Keys
    BY <1>1, KeysAreNumbers DEF Create, IInv, TypeOK
  <2>2. ~Queued(m_counter, "start")
    <3>1. strand[m_counter] = <<>>
      BY <1>1, <2>1 DEF Create, MutexFree, IInv, StrandsBegin
    <3> QED  BY <3>1 DEF Queued
  <2>3. /\ UNCHANGED <<started, main>>
        /\ \A j : InCallback(j)' <=> InCallback(j)
        /\ \A j, h : Queued(j, h)' <=> Queued(j, h)
    BY <1>1 DEF Create, InCallback, Queued
  <2>4. \A j \in Keys : MayFire(j)' <=> MayFire(j)
    BY <1>1, <2>1, <2>2, <2>3 DEF Create, MayFire
  <2>5. m_timers' \subseteq Keys
    BY <1>1, <2>1 DEF Create
  <2> QED  BY <2>1, <2>3, <2>4, <2>5, TimersStutter
<1>2. CASE StopContext
  <2>1. Armed' = Armed /\ Firing' = Firing
    BY <1>2 DEF StopContext, Armed, Firing, InCallback, Queued
  <2>2. Timers!Close
    BY <1>2, <2>1 DEF StopContext, Timers!Close, Armed, Firing
  <2> QED  BY <2>2 DEF Timers!Next
<1>3. CASE Join \/ BeginErase \/ EndErase \/ UNCHANGED vars
  BY <1>3 DEF Join, BeginErase, EndErase, vars, Timers!vars, InCallback, Queued
<1>4. ASSUME NEW k \in Keys, Expire(k)
      PROVE  UNCHANGED Timers!vars
  <2>1. TypeOK /\ "expired" \in Handlers /\ Dispatch(k, "expired") /\ m_timers \subseteq Keys
        /\ UNCHANGED <<m_timers, m_running, worker, main, started>>
    BY <1>4, KeysAreNumbers DEF IInv, Expire, Handlers
  <2>2. \A j \in Keys : Queued(j, "start")' <=> Queued(j, "start")
    BY <2>1, Dispatched
  <2>3. \A j \in Keys : (MayFire(j)' <=> MayFire(j)) /\ (InCallback(j)' <=> InCallback(j))
    BY <2>1, <2>2 DEF MayFire, InCallback
  <2> QED  BY <2>1, <2>3, TimersStutter
<1> QED  BY <1>1, <1>2, <1>3, <1>4, ClientSteps, HandleSteps, CallbackSteps
         DEF Next, Destructor, Gone

\* The timers, their strands and the worker thread implement the safety of
\* AnswerTimer: a timer fires at most once, and never begins to after remove has
\* returned or a stop was handled (timer.cpp).
THEOREM ImplementsAnswerTimer == SafeSpec => Timers!SafeSpec
  BY InitTimers, Invariant, StepTimers, PTL DEF SafeSpec, Timers!SafeSpec
=============================================================================
