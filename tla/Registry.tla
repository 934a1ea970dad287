------------------------------ MODULE Registry ------------------------------
(***************************************************************************)
(* Who is online: classes Server and Session of source/server.cpp with     *)
(* classes Equipment and EquipmentManager of source/equipment.cpp.         *)
(*                                                                         *)
(* A connection is accepted into Server::m_sessions.  Its first heartbeat  *)
(* moves it to the equipment of its number, or has it closed when the      *)
(* number is not registered or already has a session.  It ends by a        *)
(* disconnect, a failed write or 9 seconds without a heartbeat.            *)
(*                                                                         *)
(* The network thread runs one handler at a time, each broken here where   *)
(* it gives up the mutex of Server or of EquipmentManager.  The processor  *)
(* thread sends between those steps.  The main thread stops the server: it *)
(* stops the context, joins the network thread and clears both tables.     *)
(* Handlers hold a weak pointer to their session: when neither table has   *)
(* it any more they return at once.                                        *)
(*                                                                         *)
(* A terminal uses one number for the life of a connection.  A message     *)
(* that is not a heartbeat changes nothing here (see MessageProcessor) and *)
(* has no action.                                                          *)
(***************************************************************************)
CONSTANTS Conns,         \* connections that may come, each with its own key
          Numbers,       \* the numbers of configure.json
          Unregistered,  \* a number that is not in configure.json
          NoNumber,      \* the empty string
          NoSession,     \* the null session pointer
          MayFallSilent  \* bound: connections whose peer may fall silent

ASSUME ConstantsAssumption == /\ Unregistered \notin Numbers
                              /\ NoNumber \notin Numbers \cup {Unregistered}
                              /\ NoSession \notin Conns
                              /\ MayFallSilent \subseteq Conns

VARIABLES m_sessions,    \* Server: connections without a number yet
          m_equipments,  \* EquipmentManager: the numbers in its table
          m_session,     \* Equipment: the session each number is held by
          m_state,       \* Equipment: Offline, Online or Shutdown
          status,        \* Session: new, open, or closed (m_closed)
          m_number,      \* Session: the number it has logged in
          armed,         \* sessions whose timer is waiting
          due,           \* sessions whose expiry handler is queued
          stale,         \* those of due that got a heartbeat since then
          reading,       \* sessions with an outstanding async_read
          writing,       \* sessions with an outstanding async_write
          terminal,      \* the number the peer of a connection uses
          silent,        \* connections whose peer has stopped sending
          io,            \* what the network thread is doing, and to whom
          main           \* how far the main thread is in Server::close

vars == <<m_sessions, m_equipments, m_session, m_state, status, m_number, armed, due,
          stale, reading, writing, terminal, silent, io, main>>

tables == <<m_sessions, m_equipments, m_session, m_state>>
timers == <<armed, due, stale>>
peers == <<terminal, silent>>

Idle == [step |-> "idle", session |-> NoSession, reason |-> "Manual"]

Init == /\ m_sessions = {}
        /\ m_equipments = Numbers
        /\ m_session = [n \in Numbers |-> NoSession]
        /\ m_state = [n \in Numbers |-> "Offline"]
        /\ status = [c \in Conns |-> "new"]
        /\ m_number = [c \in Conns |-> NoNumber]
        /\ armed = {} /\ due = {} /\ stale = {}
        /\ reading = {} /\ writing = {}
        /\ terminal = [c \in Conns |-> NoNumber]
        /\ silent = {}
        /\ io = Idle
        /\ main = "running"

\* One of the tables still has a shared pointer to the session.
Alive(c) == c \in m_sessions \/ \E n \in m_equipments : m_session[n] = c

\* The network thread takes a handler from its queue.
CanRun == io.step = "idle" /\ main = "running"

At(step) == io.step = step

Begin(step, c, reason) == io' = [step |-> step, session |-> c, reason |-> reason]

Continue(step) == io' = [io EXCEPT !.step = step]

\* Session::do_close(reason) begins, unless the session is closed already.
BeginClose(c, reason) ==
    \/ status[c] = "closed" /\ io' = Idle
    \/ status[c] # "closed" /\ Begin("remove", c, reason)

\* Session::close(): the second call returns at once.
CloseSession(c) == /\ status' = [status EXCEPT ![c] = "closed"]
                   /\ armed' = armed \ {c}
-----------------------------------------------------------------------------
(* Handlers of the network thread.                                         *)

\* As it would be if start() did not call do_timeout().
StartUntimed(c) == /\ reading' = reading \cup {c}
                   /\ UNCHANGED armed

\* Session::start(): do_timeout() and do_receive().
Start(c) == /\ armed' = armed \cup {c}
            /\ reading' = reading \cup {c}

\* The handler of Server::accept: a session is created under a fresh key, cached
\* and started, which arms its timer and starts reading.
Accept(c) == /\ CanRun
             /\ status[c] = "new"
             /\ status' = [status EXCEPT ![c] = "open"]
             /\ m_sessions' = m_sessions \cup {c}
             /\ Start(c)
             /\ \E n \in Numbers \cup {Unregistered} :
                  terminal' = [terminal EXCEPT ![c] = n]
             /\ UNCHANGED <<m_equipments, m_session, m_state, m_number, due, stale,
                            writing, silent, io, main>>

\* As it would be without the test of m_session in Equipment::login.
CanLoginAgain(n) == n \in m_equipments

\* EquipmentManager::login and Equipment::login would succeed.
CanLogin(n) == n \in m_equipments /\ m_session[n] = NoSession

Login(n, c) == /\ m_session' = [m_session EXCEPT ![n] = c]
               /\ m_state' = [m_state EXCEPT ![n] = "Online"]

\* As it would be if append found the session but did not erase it.
TakeOutNothing(c) == UNCHANGED m_sessions

TakeOut(c) == m_sessions' = m_sessions \ {c}

\* The handler of Session::do_receive gets a heartbeat: Server::append takes the
\* session out of m_sessions and logs it in.  A session that is there no longer
\* has logged in before, and append returns true.
ReceiveHeart(c) ==
    /\ CanRun
    /\ c \in reading \ silent
    /\ Alive(c)
    /\ reading' = reading \ {c}
    /\ TakeOut(c)
    /\ \/ /\ c \in m_sessions /\ CanLogin(terminal[c])
          /\ Login(terminal[c], c)
          /\ Begin("accepted", c, "Manual")
       \/ /\ c \in m_sessions /\ ~CanLogin(terminal[c])
          /\ Begin("rejected", c, "Manual")
          /\ UNCHANGED <<m_session, m_state>>
       \/ /\ c \notin m_sessions
          /\ Begin("accepted", c, "Manual")
          /\ UNCHANGED <<m_session, m_state>>
    /\ UNCHANGED <<m_equipments, status, m_number, timers, writing, peers, main>>

\* As it would be if the timer were set anew without a new async_wait.
DoTimeoutUnawaited(c) == /\ armed' = armed \ {c}
                         /\ stale' = stale \cup (due \cap {c})
                         /\ UNCHANGED due

\* Session::do_timeout(): the wait that is pending is replaced, the expiry that
\* is already queued is not.
DoTimeout(c) == /\ armed' = armed \cup {c}
                /\ stale' = stale \cup (due \cap {c})
                /\ UNCHANGED due

\* As it would be if m_number were set whatever append returned.
NumberAlways(c) == m_number' = [m_number EXCEPT ![c] = terminal[c]]

NumberIf(c) ==
    m_number' = [m_number EXCEPT ![c] = IF At("accepted") THEN terminal[c] ELSE NoNumber]

\* The rest of the handler: an accepted session reads on, another is closed.
NoteHeart ==
    LET c == io.session IN
    /\ At("accepted") \/ At("rejected")
    /\ NumberIf(c)
    /\ DoTimeout(c)
    /\ \/ /\ At("accepted")
          /\ reading' = reading \cup {c}
          /\ io' = Idle
       \/ /\ At("rejected")
          /\ BeginClose(c, "Manual")
          /\ UNCHANGED reading
    /\ UNCHANGED <<tables, status, writing, peers, main>>

\* The handler of do_receive gets an error: do_disconnect.
ReadFails(c, reason) ==
    /\ CanRun
    /\ c \in reading
    /\ Alive(c)
    /\ reading' = reading \ {c}
    /\ BeginClose(c, reason)
    /\ UNCHANGED <<tables, status, m_number, timers, writing, peers, main>>

\* The handler of do_write.
WriteEnds(c) ==
    /\ CanRun
    /\ c \in writing
    /\ Alive(c)
    /\ writing' = writing \ {c}
    /\ \/ UNCHANGED io
       \/ \E reason \in {"Reset", "Error"} : BeginClose(c, reason)
    /\ UNCHANGED <<tables, status, m_number, timers, reading, peers, main>>

\* Nine seconds have passed: the wait completes and its handler is queued.
Expire(c) == /\ c \in armed \ due
             /\ main = "running"
             /\ armed' = armed \ {c}
             /\ due' = due \cup {c}
             /\ UNCHANGED <<tables, status, m_number, stale, reading, writing, peers, io, main>>

\* The handler of do_timeout.
Timeout(c) == /\ CanRun
              /\ c \in due
              /\ Alive(c)
              /\ due' = due \ {c}
              /\ stale' = stale \ {c}
              /\ BeginClose(c, "Manual")
              /\ UNCHANGED <<tables, status, m_number, armed, reading, writing, peers, main>>

\* A handler whose weak pointer is dead returns.
DeadHandler(c) == /\ CanRun
                  /\ ~Alive(c)
                  /\ c \in reading \cup writing \cup due
                  /\ reading' = reading \ {c}
                  /\ writing' = writing \ {c}
                  /\ due' = due \ {c}
                  /\ stale' = stale \ {c}
                  /\ UNCHANGED <<tables, status, m_number, armed, peers, io, main>>
-----------------------------------------------------------------------------
(* Session::do_close(reason): remove, logout, close.                       *)

\* Server::remove(m_key).
Remove == /\ At("remove")
          /\ m_sessions' = m_sessions \ {io.session}
          /\ Continue("logout")
          /\ UNCHANGED <<m_equipments, m_session, m_state, status, m_number, timers,
                         reading, writing, peers, main>>

\* As it would be if the reason were passed on as the state.
LogoutStateIsReason(reason) == reason

LogoutState(reason) == IF reason = "Clean" THEN "Shutdown" ELSE "Offline"

\* Equipment::logout(state) closes and drops the session the equipment holds.
Logout(n, state) == /\ CloseSession(m_session[n])
                    /\ m_session' = [m_session EXCEPT ![n] = NoSession]
                    /\ m_state' = [m_state EXCEPT ![n] = state]

HasSession(n) == n \in m_equipments /\ m_session[n] # NoSession

\* EquipmentManager::logout(m_number, result).
DoLogout ==
    LET n == m_number[io.session] IN
    /\ At("logout")
    /\ \/ /\ HasSession(n)
          /\ Logout(n, LogoutState(io.reason))
       \/ /\ ~HasSession(n)
          /\ UNCHANGED <<m_session, m_state, status, armed>>
    /\ Continue("close")
    /\ UNCHANGED <<m_sessions, m_equipments, m_number, due, stale, reading, writing,
                   peers, main>>

DoClose == /\ At("close")
           /\ CloseSession(io.session)
           /\ io' = Idle
           /\ UNCHANGED <<tables, m_number, due, stale, reading, writing, peers, main>>
-----------------------------------------------------------------------------
(* The processor thread: Server::send to one number, under both mutexes.   *)

Send(n) == /\ main # "clearing"
           /\ HasSession(n)
           /\ writing' = writing \cup {m_session[n]}
           /\ UNCHANGED <<tables, status, m_number, timers, reading, peers, io, main>>
-----------------------------------------------------------------------------
(* The main thread: Server::close.                                         *)

\* m_context.stop(): the network thread takes no further handler.
StopContext == /\ main = "running"
               /\ main' = "stopping"
               /\ UNCHANGED <<tables, status, m_number, timers, reading, writing, peers, io>>

\* m_thread.join() waits for the handler that is running.  Server::clear takes
\* the mutex of Server, which keeps the processor thread out until it is done.
Join == /\ main = "stopping"
        /\ io.step = "idle"
        /\ main' = "clearing"
        /\ UNCHANGED <<tables, status, m_number, timers, reading, writing, peers, io>>

\* Server::clear, first loop.
ClearSession(c) == /\ main = "clearing"
                   /\ c \in m_sessions
                   /\ CloseSession(c)
                   /\ m_sessions' = m_sessions \ {c}
                   /\ UNCHANGED <<m_equipments, m_session, m_state, m_number, due, stale,
                                  reading, writing, peers, io, main>>

\* As it would be if EquipmentManager::clear only erased.
EraseWithoutLogout(n) == UNCHANGED <<m_session, m_state, status, armed>>

LogoutIfHeld(n) == \/ HasSession(n) /\ Logout(n, "Offline")
                   \/ ~HasSession(n) /\ UNCHANGED <<m_session, m_state, status, armed>>

\* EquipmentManager::clear.
ClearEquipment(n) == /\ main = "clearing"
                     /\ m_sessions = {}
                     /\ n \in m_equipments
                     /\ LogoutIfHeld(n)
                     /\ m_equipments' = m_equipments \ {n}
                     /\ UNCHANGED <<m_sessions, m_number, due, stale, reading, writing,
                                    peers, io, main>>

EndClear == /\ main = "clearing"
            /\ m_sessions = {}
            /\ m_equipments = {}
            /\ main' = "closed"
            /\ UNCHANGED <<tables, status, m_number, timers, reading, writing, peers, io>>

\* A second Server::close finds m_closed and returns: nothing more happens.
Closed == main = "closed" /\ UNCHANGED vars
-----------------------------------------------------------------------------
(* The terminal at the other end stops sending, without disconnecting.     *)

GoSilent(c) == /\ c \in MayFallSilent
               /\ status[c] = "open"
               /\ c \notin silent
               /\ silent' = silent \cup {c}
               /\ UNCHANGED <<tables, status, m_number, timers, reading, writing, terminal,
                              io, main>>
-----------------------------------------------------------------------------
Handler(c) == \/ Accept(c) \/ ReceiveHeart(c) \/ WriteEnds(c) \/ Timeout(c) \/ DeadHandler(c)
              \/ \E reason \in {"Clean", "Reset", "Error"} : ReadFails(c, reason)

HandlerRest == NoteHeart \/ Remove \/ DoLogout \/ DoClose

Closing == \/ Join \/ EndClear
           \/ \E c \in Conns : ClearSession(c)
           \/ \E n \in Numbers : ClearEquipment(n)

Next == \/ \E c \in Conns : Handler(c) \/ Expire(c) \/ GoSilent(c)
        \/ \E n \in Numbers : Send(n)
        \/ HandlerRest \/ StopContext \/ Closing \/ Closed

SafeSpec == Init /\ [][Next]_vars

\* A handler that has begun goes on, and so does Server::close.  Time passes, so
\* the wait of a session that gets no heartbeat completes; handlers are run in
\* the order they were queued, so whatever else the terminals send, the handler
\* of an expiry gets its turn.
Spec == /\ SafeSpec
        /\ WF_vars(HandlerRest)
        /\ WF_vars(Closing)
        /\ \A c \in Conns : /\ WF_vars(Expire(c) /\ c \in silent)
                            /\ SF_vars(Timeout(c))
-----------------------------------------------------------------------------
(* Properties.                                                             *)

Steps == {"idle", "accepted", "rejected", "remove", "logout", "close"}

Reasons == {"Clean", "Reset", "Error", "Manual"}

\* Type invariant.  Only Equipment states get into m_state, and the network
\* thread has a session exactly while it is in the middle of a handler.
TypeOK == /\ m_sessions \subseteq Conns
          /\ m_equipments \subseteq Numbers
          /\ m_session \in [Numbers -> Conns \cup {NoSession}]
          /\ m_state \in [Numbers -> {"Offline", "Online", "Shutdown"}]
          /\ status \in [Conns -> {"new", "open", "closed"}]
          /\ m_number \in [Conns -> Numbers \cup {Unregistered, NoNumber}]
          /\ armed \subseteq Conns
          /\ due \subseteq Conns
          /\ stale \subseteq due
          /\ reading \subseteq Conns
          /\ writing \subseteq Conns
          /\ terminal \in [Conns -> Numbers \cup {Unregistered, NoNumber}]
          /\ silent \subseteq Conns
          /\ io \in [step : Steps, session : Conns \cup {NoSession}, reason : Reasons]
          /\ io.session = NoSession <=> io.step = "idle"
          /\ main \in {"running", "stopping", "clearing", "closed"}

Held(c) == \E n \in Numbers : m_session[n] = c

\* A session waiting for its first heartbeat is open and nobody's.
CachedAreFresh == \A c \in m_sessions : status[c] = "open" /\ m_number[c] = NoNumber /\ ~Held(c)

\* What an equipment holds is an open session of its own terminal that will log
\* it out when it ends, because it knows the number.
HeldAreOpen ==
    \A n \in Numbers : m_session[n] # NoSession =>
        LET c == m_session[n] IN
        /\ n \in m_equipments
        /\ status[c] = "open"
        /\ terminal[c] = n
        /\ m_number[c] = n \/ (At("accepted") /\ io.session = c)

\* No open session has dropped out of both tables.
OpenAreKept == \A c \in Conns : status[c] = "open" /\ io.session # c => Alive(c)

OnlineIffHeld == \A n \in Numbers : m_state[n] = "Online" <=> m_session[n] # NoSession

\* Every open session is in exactly one of Server::m_sessions and the equipment
\* of its number, except while its own handler is moving it; what an equipment
\* holds is open and knows its number (append, do_receive and do_close of
\* server.cpp, login and logout of equipment.cpp).
Ownership == /\ CachedAreFresh
             /\ HeldAreOpen
             /\ OnlineIffHeld
             /\ OpenAreKept

\* Every open session has a read outstanding and a timeout that is running or
\* queued, so no terminal is kept that could neither be heard nor expire
\* (start, do_receive and do_timeout of server.cpp).
Attended == main = "running" =>
    \A c \in Conns : status[c] = "open" /\ io.session # c => c \in reading /\ c \in armed \cup due

\* A number loses its session only by the end of that very session or when the
\* server closes: a second connection of the same number, which is refused, does
\* not put the first one offline (do_receive and do_close of server.cpp).
OnlyOwnEndLogsOut ==
    [][\A n \in Numbers : m_session[n] # NoSession /\ m_session'[n] # m_session[n]
          => io.session = m_session[n] \/ main = "clearing"]_vars

\* The tables, handlers and timers implement Presence.
Directory == INSTANCE Presence WITH online <- m_session,
                                    ended <- {c \in Conns : status[c] = "closed"}

DirectorySpec == Directory!Spec

\* A terminal that falls silent without disconnecting does not stay online: its
\* session is closed in the end, whatever the other terminals do (do_timeout of
\* server.cpp).
SilentEnds == \A c \in Conns : c \in silent ~> status[c] = "closed"

\* Server::close ends, and leaves no session open (close and clear of server.cpp,
\* clear of equipment.cpp).
StopClosesAll == main # "running" ~> main = "closed" /\ \A c \in Conns : status[c] # "open"

\* An expiry that was queued before a heartbeat was handled does not close the
\* session after it: the heartbeat is what says that the terminal is online
\* (do_timeout of server.cpp).
HeartbeatKeepsOnline == [][\A c \in stale : c \in stale' \/ status[c] = "closed"]_vars
=============================================================================
