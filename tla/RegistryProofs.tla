--------------------------- MODULE RegistryProofs ---------------------------
(***************************************************************************)
(* Proofs about Registry, for any number of connections and numbers: type  *)
(* correctness, ownership of the open sessions, that a number loses its    *)
(* session only by that session's own end, and that the tables and         *)
(* handlers implement Presence.                                            *)
(*                                                                         *)
(* Ownership is not inductive.  What a handler does with its session       *)
(* depends on what its earlier steps have established (Handling), and a    *)
(* logout is by number, so it must be known that an open session that      *)
(* remembers a number is the one which holds it (NumbersKept).             *)
(***************************************************************************)
EXTENDS Registry, TLAPS

LEMMA InitType == Init => TypeOK
  BY ConstantsAssumption DEF Init, TypeOK, Idle, Steps, Reasons

IoType == /\ io \in [step : Steps, session : Conns \cup {NoSession}, reason : Reasons]
          /\ io.session = NoSession <=> io.step = "idle"

LEMMA IdleType == io' = Idle => IoType'
  BY DEF IoType, Idle, Steps, Reasons

LEMMA BeginType ==
  ASSUME NEW step \in Steps \ {"idle"}, NEW c \in Conns, NEW reason \in Reasons,
         Begin(step, c, reason)
  PROVE  IoType'
  BY ConstantsAssumption DEF IoType, Begin, Steps

LEMMA BeginCloseType ==
  ASSUME NEW c \in Conns, NEW reason \in Reasons, BeginClose(c, reason)
  PROVE  IoType'
<1>1. "remove" \in Steps \ {"idle"}
  BY DEF Steps
<1> QED  BY <1>1, IdleType, BeginType DEF BeginClose

LEMMA NextType == TypeOK /\ [Next]_vars => TypeOK'
<1> SUFFICES ASSUME TypeOK, [Next]_vars
             PROVE  TypeOK'
  OBVIOUS
<1> USE ConstantsAssumption DEF TypeOK, tables, timers, peers
<1>1. ASSUME NEW c \in Conns, Accept(c)
      PROVE  TypeOK'
  BY <1>1 DEF Accept, Start
<1>2. ASSUME NEW c \in Conns, ReceiveHeart(c)
      PROVE  TypeOK'
  <2>1. m_session' \in [Numbers -> Conns \cup {NoSession}]
    BY <1>2 DEF ReceiveHeart, Login
  <2>2. m_state' \in [Numbers -> {"Offline", "Online", "Shutdown"}]
    BY <1>2 DEF ReceiveHeart, Login
  <2>3. IoType'
    <3>1. "Manual" \in Reasons /\ {"accepted", "rejected"} \subseteq Steps \ {"idle"}
      BY DEF Steps, Reasons
    <3> QED  BY <1>2, <3>1, BeginType DEF ReceiveHeart
  <2> QED  BY <1>2, <2>1, <2>2, <2>3 DEF ReceiveHeart, TakeOut, IoType
<1>3. CASE NoteHeart
  <2> DEFINE c == io.session
  <2>1. c \in Conns
    BY <1>3 DEF NoteHeart, At
  <2>2. IoType'
    <3>1. "Manual" \in Reasons
      BY DEF Reasons
    <3>2. io' = Idle \/ BeginClose(io.session, "Manual")
      BY <1>3 DEF NoteHeart
    <3> QED  BY <2>1, <3>1, <3>2, IdleType, BeginCloseType
  <2>3. reading' \subseteq Conns
    BY <1>3, <2>1 DEF NoteHeart
  <2>4. armed' \subseteq Conns /\ due' \subseteq Conns /\ stale' \subseteq due'
    BY <1>3, <2>1 DEF NoteHeart, DoTimeout
  <2>5. m_number' \in [Conns -> Numbers \cup {Unregistered, NoNumber}]
    BY <1>3, <2>1 DEF NoteHeart, NumberIf, At
  <2> QED  BY <1>3, <2>2, <2>3, <2>4, <2>5 DEF NoteHeart, IoType
<1>4. ASSUME NEW c \in Conns, NEW reason \in {"Clean", "Reset", "Error"}, ReadFails(c, reason)
      PROVE  TypeOK'
  <2>1. reason \in Reasons
    BY DEF Reasons
  <2> QED  BY <1>4, <2>1, BeginCloseType DEF ReadFails, IoType
<1>5. ASSUME NEW c \in Conns, WriteEnds(c)
      PROVE  TypeOK'
  <2>1. IoType'
    <3>1. {"Reset", "Error"} \subseteq Reasons
      BY DEF Reasons
    <3>2. UNCHANGED io \/ \E reason \in {"Reset", "Error"} : BeginClose(c, reason)
      BY <1>5 DEF WriteEnds
    <3>3. UNCHANGED io => IoType'
      BY DEF IoType
    <3> QED  BY <3>1, <3>2, <3>3, BeginCloseType
  <2> QED  BY <1>5, <2>1 DEF WriteEnds, IoType
<1>6. ASSUME NEW c \in Conns, Expire(c)
      PROVE  TypeOK'
  BY <1>6 DEF Expire
<1>7. ASSUME NEW c \in Conns, Timeout(c)
      PROVE  TypeOK'
  <2>1. IoType'
    <3>1. "Manual" \in Reasons
      BY DEF Reasons
    <3> QED  BY <1>7, <3>1, BeginCloseType DEF Timeout
  <2> QED  BY <1>7, <2>1 DEF Timeout, IoType
<1>8. ASSUME NEW c \in Conns, DeadHandler(c)
      PROVE  TypeOK'
  BY <1>8 DEF DeadHandler
<1>9. CASE Remove
  BY <1>9 DEF Remove, Continue, At, Steps
<1>10. CASE DoLogout
  <2>1. io' \in [step : Steps, session : Conns \cup {NoSession}, reason : Reasons]
    BY <1>10 DEF DoLogout, Continue, Steps
  <2>2. io'.session = NoSession <=> io'.step = "idle"
    BY <1>10 DEF DoLogout, Continue, At
  <2> QED  BY <1>10, <2>1, <2>2 DEF DoLogout, Logout, CloseSession, HasSession, LogoutState
<1>11. CASE DoClose
  <2>1. IoType'
    BY <1>11, IdleType DEF DoClose
  <2> QED  BY <1>11, <2>1 DEF DoClose, CloseSession, At, IoType
<1>12. ASSUME NEW n \in Numbers, Send(n)
       PROVE  TypeOK'
  BY <1>12 DEF Send, HasSession
<1>13. CASE StopContext \/ Join \/ EndClear
  BY <1>13 DEF StopContext, Join, EndClear
<1>14. ASSUME NEW c \in Conns, ClearSession(c)
       PROVE  TypeOK'
  BY <1>14 DEF ClearSession, CloseSession
<1>15. ASSUME NEW n \in Numbers, ClearEquipment(n)
       PROVE  TypeOK'
  BY <1>15 DEF ClearEquipment, LogoutIfHeld, Logout, CloseSession, HasSession
<1>16. ASSUME NEW c \in Conns, GoSilent(c)
       PROVE  TypeOK'
  BY <1>16 DEF GoSilent
<1>17. CASE UNCHANGED vars
  BY <1>17 DEF vars
<1> QED
  BY <1>1, <1>2, <1>3, <1>4, <1>5, <1>6, <1>7, <1>8, <1>9, <1>10, <1>11, <1>12, <1>13,
     <1>14, <1>15, <1>16, <1>17
  DEF Next, Handler, HandlerRest, Closing, Closed

\* Every variable of the registry keeps its type: only Equipment states get into
\* m_state, and the network thread is given back its idle state by every handler
\* (server.cpp, equipment.cpp).
THEOREM Typing == SafeSpec => []TypeOK
<1> QED  BY InitType, NextType, PTL DEF SafeSpec
-----------------------------------------------------------------------------
(***************************************************************************)
(* Ownership.                                                              *)
(***************************************************************************)

\* What the earlier steps of the handler that is running have established.
Handling ==
    LET c == io.session IN
    ~At("idle") =>
        /\ status[c] # "new"
        /\ ~At("close") => status[c] = "open"
        /\ main \in {"running", "stopping"}
        /\ At("accepted") => terminal[c] \in Numbers /\ m_session[terminal[c]] = c
        /\ At("rejected") => c \notin m_sessions /\ ~Held(c)
        /\ At("logout") => c \notin m_sessions
        /\ At("close") => c \notin m_sessions /\ ~Held(c)

\* An open session that remembers a number is the one which holds it.
NumbersKept ==
    \A c \in Conns : m_number[c] # NoNumber =>
        /\ status[c] # "new"
        /\ status[c] = "open" => m_number[c] \in Numbers /\ m_session[m_number[c]] = c

IInv == Ownership /\ Handling /\ NumbersKept

\* Each kind of step keeps the invariant, one conjunct after the other.
LEMMA AcceptKeeps ==
  ASSUME TypeOK, IInv, NEW c \in Conns, Accept(c)
  PROVE  IInv'
<1>1. CachedAreFresh'
  BY ConstantsAssumption DEF TypeOK, IInv, Ownership, CachedAreFresh, HeldAreOpen, Held,
                             NumbersKept, Accept
<1>2. HeldAreOpen'
  BY DEF TypeOK, IInv, Ownership, HeldAreOpen, Accept, CanRun
<1>3. OnlineIffHeld'
  BY DEF IInv, Ownership, OnlineIffHeld, Accept
<1>4. OpenAreKept'
  BY DEF IInv, Ownership, OpenAreKept, Alive, Accept
<1>5. Handling'
  BY DEF IInv, Held, Handling, Accept, At
<1>6. NumbersKept'
  BY DEF IInv, NumbersKept, Accept
<1> QED  BY <1>1, <1>2, <1>3, <1>4, <1>5, <1>6 DEF IInv, Ownership

LEMMA ReceiveHeartKeeps ==
  ASSUME TypeOK, IInv, NEW c \in Conns, ReceiveHeart(c)
  PROVE  IInv'
<1>1. CachedAreFresh'
  BY DEF TypeOK, IInv, Ownership, CachedAreFresh, Held, ReceiveHeart, TakeOut, Login
<1>2. HeldAreOpen'
  BY DEF TypeOK, IInv, Ownership, CachedAreFresh, HeldAreOpen, ReceiveHeart, CanRun, At,
         CanLogin, Login, Begin, peers
<1>3. OnlineIffHeld'
  BY DEF TypeOK, IInv, Ownership, CachedAreFresh, OnlineIffHeld, Held, ReceiveHeart, CanLogin,
         Login
<1>4. OpenAreKept'
  BY ConstantsAssumption DEF TypeOK, IInv, Ownership, OpenAreKept, Alive, ReceiveHeart, CanRun,
                             TakeOut, CanLogin, Login, Begin
<1>5. Handling'
  BY ConstantsAssumption DEF TypeOK, IInv, Ownership, CachedAreFresh, HeldAreOpen, Alive, Held,
                             Handling, ReceiveHeart, CanRun, At, TakeOut, CanLogin, Login, Begin,
                             peers
<1>6. NumbersKept'
  BY ConstantsAssumption DEF TypeOK, IInv, NumbersKept, ReceiveHeart, CanLogin, Login
<1> QED  BY <1>1, <1>2, <1>3, <1>4, <1>5, <1>6 DEF IInv, Ownership

LEMMA NoteHeartKeeps ==
  ASSUME TypeOK, IInv, NoteHeart
  PROVE  IInv'
<1>1. CachedAreFresh'
  BY DEF IInv, Ownership, CachedAreFresh, Held, Handling, NoteHeart, At, NumberIf, tables
<1>2. HeldAreOpen'
  BY DEF TypeOK, IInv, Ownership, HeldAreOpen, Held, Handling, NoteHeart, At, NumberIf, tables,
         peers
<1>3. OnlineIffHeld'
  BY DEF IInv, Ownership, OnlineIffHeld, NoteHeart, tables
<1>4. OpenAreKept'
  BY DEF TypeOK, IInv, Ownership, HeldAreOpen, OpenAreKept, Alive, Handling, NoteHeart, At,
         BeginClose, Begin, tables
<1>5. Handling'
  BY DEF IInv, Handling, NoteHeart, At, BeginClose, Begin, Idle
<1>6. NumbersKept'
  BY DEF IInv, Handling, NumbersKept, NoteHeart, At, NumberIf, tables
<1> QED  BY <1>1, <1>2, <1>3, <1>4, <1>5, <1>6 DEF IInv, Ownership

\* ReadFails, WriteEnds and Timeout: a handler that may begin to close its session.
LEMMA BeginCloseKeeps ==
  ASSUME TypeOK, IInv, NEW c \in Conns, NEW reason \in Reasons,
         io.step = "idle", main = "running", Alive(c), BeginClose(c, reason),
         UNCHANGED <<tables, status, m_number, terminal, main>>
  PROVE  IInv'
<1>1. CachedAreFresh'
  BY DEF IInv, Ownership, CachedAreFresh, Held, tables
<1>2. HeldAreOpen'
  BY DEF TypeOK, IInv, Ownership, HeldAreOpen, tables
<1>3. OnlineIffHeld'
  BY DEF IInv, Ownership, OnlineIffHeld, tables
<1>4. OpenAreKept'
  BY ConstantsAssumption DEF TypeOK, IInv, Ownership, OpenAreKept, Alive, tables
<1>5. Handling'
  BY ConstantsAssumption DEF TypeOK, IInv, Ownership, CachedAreFresh, HeldAreOpen, Alive,
                             Handling, BeginClose, Begin, At
<1>6. NumbersKept'
  BY DEF IInv, NumbersKept, tables
<1> QED  BY <1>1, <1>2, <1>3, <1>4, <1>5, <1>6 DEF IInv, Ownership

LEMMA RemoveKeeps ==
  ASSUME TypeOK, IInv, Remove
  PROVE  IInv'
<1>1. CachedAreFresh'
  BY DEF IInv, Ownership, CachedAreFresh, Held, Remove
<1>2. HeldAreOpen'
  BY DEF IInv, Ownership, HeldAreOpen, Remove, At, peers
<1>3. OnlineIffHeld'
  BY DEF IInv, Ownership, OnlineIffHeld, Remove
<1>4. OpenAreKept'
  BY DEF IInv, Ownership, OpenAreKept, Alive, Remove, Continue
<1>5. Handling'
  BY DEF IInv, Handling, Remove, At, Continue
<1>6. NumbersKept'
  BY DEF IInv, NumbersKept, Remove
<1> QED  BY <1>1, <1>2, <1>3, <1>4, <1>5, <1>6 DEF IInv, Ownership

LEMMA DoLogoutKeeps ==
  ASSUME TypeOK, IInv, DoLogout
  PROVE  IInv'
<1>1. CachedAreFresh'
  BY ConstantsAssumption DEF TypeOK, IInv, Ownership, CachedAreFresh, Held, DoLogout,
                             HasSession, Logout, CloseSession
<1>2. HeldAreOpen'
  BY DEF TypeOK, IInv, Ownership, HeldAreOpen, DoLogout, At, HasSession, Logout, CloseSession,
         peers
<1>3. OnlineIffHeld'
  BY DEF TypeOK, IInv, Ownership, OnlineIffHeld, DoLogout, Logout, LogoutState
<1>4. OpenAreKept'
  BY DEF TypeOK, IInv, Ownership, OpenAreKept, Alive, DoLogout, Continue, Logout, CloseSession
<1>5. Handling'
  BY DEF TypeOK, IInv, Ownership, HeldAreOpen, Held, Handling, DoLogout, At, Continue,
         HasSession, Logout, CloseSession
<1>6. NumbersKept'
  BY DEF TypeOK, IInv, NumbersKept, DoLogout, Logout, CloseSession
<1> QED  BY <1>1, <1>2, <1>3, <1>4, <1>5, <1>6 DEF IInv, Ownership

LEMMA DoCloseKeeps ==
  ASSUME TypeOK, IInv, DoClose
  PROVE  IInv'
<1>1. CachedAreFresh'
  BY DEF IInv, Ownership, CachedAreFresh, Held, Handling, DoClose, At, CloseSession, tables
<1>2. HeldAreOpen'
  BY DEF IInv, Ownership, HeldAreOpen, Held, Handling, DoClose, At, CloseSession, tables, peers
<1>3. OnlineIffHeld'
  BY DEF IInv, Ownership, OnlineIffHeld, DoClose, tables
<1>4. OpenAreKept'
  BY DEF TypeOK, IInv, Ownership, OpenAreKept, Alive, DoClose, CloseSession, tables
<1>5. Handling'
  BY DEF Handling, DoClose, At, Idle
<1>6. NumbersKept'
  BY DEF IInv, NumbersKept, DoClose, CloseSession, tables
<1> QED  BY <1>1, <1>2, <1>3, <1>4, <1>5, <1>6 DEF IInv, Ownership

LEMMA ClearSessionKeeps ==
  ASSUME TypeOK, IInv, NEW c \in Conns, ClearSession(c)
  PROVE  IInv'
<1>1. CachedAreFresh'
  BY DEF IInv, Ownership, CachedAreFresh, Held, ClearSession, CloseSession
<1>2. HeldAreOpen'
  BY DEF IInv, Ownership, CachedAreFresh, HeldAreOpen, Held, ClearSession, CloseSession, At, peers
<1>3. OnlineIffHeld'
  BY DEF IInv, Ownership, OnlineIffHeld, ClearSession
<1>4. OpenAreKept'
  BY DEF TypeOK, IInv, Ownership, OpenAreKept, Alive, ClearSession, CloseSession
<1>5. Handling'
  BY DEF IInv, Handling, ClearSession, At
<1>6. NumbersKept'
  BY DEF IInv, NumbersKept, ClearSession, CloseSession
<1> QED  BY <1>1, <1>2, <1>3, <1>4, <1>5, <1>6 DEF IInv, Ownership

LEMMA ClearEquipmentKeeps ==
  ASSUME TypeOK, IInv, NEW n \in Numbers, ClearEquipment(n)
  PROVE  IInv'
<1>1. CachedAreFresh'
  BY DEF CachedAreFresh, ClearEquipment
<1>2. HeldAreOpen'
  BY DEF TypeOK, IInv, Ownership, HeldAreOpen, ClearEquipment, LogoutIfHeld, HasSession, Logout,
         CloseSession, At, peers
<1>3. OnlineIffHeld'
  BY DEF TypeOK, IInv, Ownership, OnlineIffHeld, ClearEquipment, LogoutIfHeld, Logout
<1>4. OpenAreKept'
  BY DEF TypeOK, IInv, Ownership, OpenAreKept, Alive, Handling, ClearEquipment, LogoutIfHeld,
         HasSession, Logout, CloseSession, At
<1>5. Handling'
  BY DEF IInv, Handling, ClearEquipment, At
<1>6. NumbersKept'
  BY DEF TypeOK, IInv, NumbersKept, ClearEquipment, LogoutIfHeld, Logout, CloseSession
<1> QED  BY <1>1, <1>2, <1>3, <1>4, <1>5, <1>6 DEF IInv, Ownership

\* Steps that touch only timers, reads and writes, or how far Server::close is.
LEMMA QuietKeeps ==
  ASSUME TypeOK, IInv,
         UNCHANGED <<tables, status, m_number, terminal, io>>,
         main' \in {main, "stopping"} \/ At("idle")
  PROVE  IInv'
<1>1. CachedAreFresh'
  BY DEF IInv, Ownership, CachedAreFresh, Held, tables
<1>2. HeldAreOpen'
  BY DEF IInv, Ownership, HeldAreOpen, At, tables
<1>3. OnlineIffHeld'
  BY DEF IInv, Ownership, OnlineIffHeld, tables
<1>4. OpenAreKept'
  BY DEF IInv, Ownership, OpenAreKept, Alive, tables
<1>5. Handling'
  BY DEF IInv, Held, Handling, At, tables
<1>6. NumbersKept'
  BY DEF IInv, NumbersKept, tables
<1> QED  BY <1>1, <1>2, <1>3, <1>4, <1>5, <1>6 DEF IInv, Ownership

LEMMA InitIInv == Init => IInv
  BY ConstantsAssumption
  DEF Init, IInv, Ownership, CachedAreFresh, HeldAreOpen, OnlineIffHeld, OpenAreKept, Handling,
      NumbersKept, At, Idle

LEMMA NextIInv == TypeOK /\ IInv /\ [Next]_vars => IInv'
<1> SUFFICES ASSUME TypeOK, IInv, [Next]_vars
             PROVE  IInv'
  OBVIOUS
<1>1. ASSUME NEW c \in Conns, NEW reason \in {"Clean", "Reset", "Error"}, ReadFails(c, reason)
      PROVE  IInv'
  <2>1. reason \in Reasons
    BY DEF Reasons
  <2> QED  BY <1>1, <2>1, BeginCloseKeeps DEF ReadFails, CanRun, peers
<1>2. ASSUME NEW c \in Conns, WriteEnds(c)
      PROVE  IInv'
  <2>1. CASE UNCHANGED io
    BY <1>2, <2>1, QuietKeeps DEF WriteEnds, peers
  <2>2. CASE \E reason \in {"Reset", "Error"} : BeginClose(c, reason)
    <3>1. PICK reason \in {"Reset", "Error"} : BeginClose(c, reason)
      BY <2>2
    <3>2. reason \in Reasons
      BY DEF Reasons
    <3> QED  BY <1>2, <3>1, <3>2, BeginCloseKeeps DEF WriteEnds, CanRun, peers
  <2> QED  BY <1>2, <2>1, <2>2 DEF WriteEnds
<1>3. ASSUME NEW c \in Conns, Timeout(c)
      PROVE  IInv'
  <2>1. "Manual" \in Reasons
    BY DEF Reasons
  <2> QED  BY <1>3, <2>1, BeginCloseKeeps DEF Timeout, CanRun, peers
<1>4. ASSUME NEW c \in Conns, Expire(c) \/ DeadHandler(c) \/ GoSilent(c)
      PROVE  IInv'
  BY <1>4, QuietKeeps DEF Expire, DeadHandler, GoSilent, peers
<1>5. ASSUME NEW n \in Numbers, Send(n)
      PROVE  IInv'
  BY <1>5, QuietKeeps DEF Send, peers
<1>6. CASE StopContext \/ Join
  BY <1>6, QuietKeeps DEF StopContext, Join, At, peers
<1>7. CASE EndClear
  <2>1. At("idle")
    BY <1>7 DEF EndClear, IInv, Handling
  <2> QED  BY <1>7, <2>1, QuietKeeps DEF EndClear, peers
<1>8. CASE UNCHANGED vars
  BY <1>8, QuietKeeps DEF vars, tables
<1> QED
  BY <1>1, <1>2, <1>3, <1>4, <1>5, <1>6, <1>7, <1>8, AcceptKeeps, ReceiveHeartKeeps,
     NoteHeartKeeps, RemoveKeeps, DoLogoutKeeps, DoCloseKeeps, ClearSessionKeeps,
     ClearEquipmentKeeps
  DEF Next, Handler, HandlerRest, Closing, Closed

LEMMA Invariant == SafeSpec => [](TypeOK /\ IInv)
<1> QED  BY InitType, NextType, InitIInv, NextIInv, PTL DEF SafeSpec

\* Every open session is in exactly one of Server::m_sessions and the equipment
\* of its number, except while its own handler is moving it; what an equipment
\* holds is open and knows its number (append, do_receive and do_close of
\* server.cpp, login and logout of equipment.cpp).
THEOREM SessionsAreOwned == SafeSpec => []Ownership
<1>1. IInv => Ownership
  BY DEF IInv
<1> QED  BY <1>1, Invariant, PTL
-----------------------------------------------------------------------------
(***************************************************************************)
(* Attended: IInv keeps a session from being forgotten by all of the       *)
(* tables, so what DeadHandler discards was no open session's.             *)
(***************************************************************************)
LEMMA NextAttended == TypeOK /\ IInv /\ Attended /\ [Next]_vars => Attended'
<1> SUFFICES ASSUME TypeOK, IInv, Attended, [Next]_vars, main' = "running"
             PROVE  \A c \in Conns : status'[c] = "open" /\ io'.session # c
                                     => c \in reading' /\ c \in armed' \cup due'
  BY DEF Attended
<1>1. main = "running"
  BY DEF Next, Handler, HandlerRest, Closing, Closed, Accept, ReceiveHeart, WriteEnds, Timeout,
         DeadHandler, ReadFails, NoteHeart, Remove, DoLogout, DoClose, Join, EndClear,
         ClearSession, ClearEquipment, Expire, GoSilent, Send, StopContext, vars
<1>2. \A d \in Conns : status[d] = "open" /\ io.session # d
                         => d \in reading /\ d \in armed \cup due
  BY <1>1 DEF Attended
<1>3. At("idle") => io.session = NoSession
  BY DEF At, TypeOK
<1> USE <1>2 DEF TypeOK, tables, timers, peers
<1>4. ASSUME NEW c \in Conns, Accept(c)
      PROVE  Attended'
  BY <1>4 DEF Attended, Accept, Start
<1>5. ASSUME NEW c \in Conns, ReceiveHeart(c)
      PROVE  Attended'
  BY <1>5, <1>3, ConstantsAssumption DEF Attended, ReceiveHeart, Begin, CanRun, At
<1>6. CASE NoteHeart
  BY <1>6 DEF Attended, NoteHeart, DoTimeout, BeginClose, Begin, Idle, IInv, Handling, At
<1>7. ASSUME NEW c \in Conns, NEW reason \in {"Clean", "Reset", "Error"}, ReadFails(c, reason)
      PROVE  Attended'
  BY <1>7, <1>3, ConstantsAssumption DEF Attended, ReadFails, BeginClose, Begin, CanRun, At, Idle
<1>8. ASSUME NEW c \in Conns, WriteEnds(c)
      PROVE  Attended'
  BY <1>8, <1>3, ConstantsAssumption DEF Attended, WriteEnds, BeginClose, Begin, CanRun, At, Idle
<1>9. ASSUME NEW c \in Conns, Timeout(c)
      PROVE  Attended'
  BY <1>9, <1>3, ConstantsAssumption DEF Attended, Timeout, BeginClose, Begin, CanRun, At, Idle
<1>10. ASSUME NEW c \in Conns, DeadHandler(c)
       PROVE  Attended'
  <2>1. status[c] # "open"
    BY <1>10, <1>3, ConstantsAssumption DEF DeadHandler, CanRun, At, IInv, Ownership, OpenAreKept
  <2> QED  BY <1>10, <2>1 DEF Attended, DeadHandler
<1>11. ASSUME NEW c \in Conns, Expire(c) \/ GoSilent(c)
       PROVE  Attended'
  BY <1>11 DEF Attended, Expire, GoSilent
<1>12. CASE Remove
  BY <1>12 DEF Attended, Remove, Continue
<1>13. CASE DoLogout
  <2>1. \A d \in Conns : status'[d] = "open" => status[d] = "open" /\ (d \in armed => d \in armed')
    BY <1>13 DEF DoLogout, Logout, CloseSession
  <2> QED  BY <1>13, <2>1 DEF Attended, DoLogout, Continue
<1>14. CASE DoClose
  BY <1>14 DEF Attended, DoClose, CloseSession
<1>15. ASSUME NEW n \in Numbers, Send(n)
       PROVE  Attended'
  BY <1>15 DEF Attended, Send
<1>16. CASE UNCHANGED vars
  BY <1>16 DEF Attended, vars
<1> QED
  BY <1>1, <1>4, <1>5, <1>6, <1>7, <1>8, <1>9, <1>10, <1>11, <1>12, <1>13, <1>14, <1>15, <1>16
  DEF Attended, Next, Handler, HandlerRest, Closing, Closed, StopContext, Join, EndClear,
      ClearSession, ClearEquipment

\* Every open session has a read outstanding and a timeout that is running or
\* queued, so no terminal is kept that could neither be heard nor expire
\* (start, do_receive and do_timeout of server.cpp).
THEOREM NobodyIsForgotten == SafeSpec => []Attended
<1>1. Init => Attended
  BY DEF Init, Attended
<1> QED  BY <1>1, NextAttended, Invariant, PTL DEF SafeSpec
-----------------------------------------------------------------------------
(***************************************************************************)
(* What a step may do to a number that is online.                          *)
(***************************************************************************)

\* The steps which leave m_session alone.
LEMMA OtherStepsKeepSessions ==
  ASSUME [Next]_vars,
         ~(\E c \in Conns : ReceiveHeart(c)), ~DoLogout, ~(\E n \in Numbers : ClearEquipment(n))
  PROVE  UNCHANGED m_session
  BY DEF Next, Handler, HandlerRest, Closing, Closed, vars, tables, Accept, WriteEnds, Timeout,
         DeadHandler, ReadFails, NoteHeart, Remove, DoClose, Join, EndClear, ClearSession, Expire,
         GoSilent, Send, StopContext

\* A logout is by number, and takes the session that is ending.
LEMMA LogoutIsOwn ==
  ASSUME TypeOK, IInv, DoLogout, HasSession(m_number[io.session])
  PROVE  m_session[m_number[io.session]] = io.session
<1>1. io.session \in Conns /\ status[io.session] = "open"
  BY DEF DoLogout, At, TypeOK, IInv, Handling
<1>2. m_number[io.session] # NoNumber
  BY ConstantsAssumption DEF HasSession, TypeOK
<1> QED  BY <1>1, <1>2 DEF IInv, NumbersKept

LEMMA StepLogsOutOwn ==
  ASSUME TypeOK, IInv, [Next]_vars,
         NEW n \in Numbers, m_session[n] # NoSession, m_session'[n] # m_session[n]
  PROVE  io.session = m_session[n] \/ main = "clearing"
<1>1. ASSUME NEW c \in Conns, ReceiveHeart(c)
      PROVE  FALSE
  BY <1>1 DEF ReceiveHeart, Login, CanLogin, TypeOK
<1>2. CASE DoLogout
  BY <1>2, LogoutIsOwn DEF DoLogout, Logout, TypeOK
<1>3. ASSUME NEW k \in Numbers, ClearEquipment(k)
      PROVE  main = "clearing"
  BY <1>3 DEF ClearEquipment
<1> QED  BY <1>1, <1>2, <1>3, OtherStepsKeepSessions

\* A number loses its session only by the end of that very session or when the
\* server closes: a second connection of the same number, which is refused, does
\* not put the first one offline (do_receive and do_close of server.cpp).
THEOREM OthersAreUndisturbed == SafeSpec => OnlyOwnEndLogsOut
<1>1. TypeOK /\ IInv /\ [Next]_vars =>
        [\A n \in Numbers : m_session[n] # NoSession /\ m_session'[n] # m_session[n]
           => io.session = m_session[n] \/ main = "clearing"]_vars
  BY StepLogsOutOwn
<1> QED  BY <1>1, Invariant, PTL DEF SafeSpec, OnlyOwnEndLogsOut
-----------------------------------------------------------------------------
(***************************************************************************)
(* Registry implements Presence.                                           *)
(***************************************************************************)
Ended == {c \in Conns : status[c] = "closed"}

LEMMA InitPresence == Init => Directory!Init
  BY DEF Init, Directory!Init

\* A session that is closed while an equipment holds it goes offline by that.
LEMMA LogoutGoesOffline ==
  ASSUME TypeOK, NEW n \in Numbers, NEW state, m_session[n] # NoSession, Logout(n, state)
  PROVE  Directory!GoOffline(n)
<1>1. m_session[n] \in Conns
  BY DEF TypeOK
<1>2. Ended' = Ended \cup {m_session[n]}
  BY <1>1 DEF Logout, CloseSession, TypeOK, Ended
<1> QED  BY <1>2 DEF Logout, Directory!GoOffline, Ended

LEMMA CloseEndsUnseen ==
  ASSUME TypeOK, NEW c \in Conns, ~Held(c), CloseSession(c), UNCHANGED m_session
  PROVE  Directory!EndUnseen(c) \/ UNCHANGED Directory!vars
<1>1. Ended' = Ended \cup {c}
  BY DEF CloseSession, TypeOK, Ended
<1>2. CASE status[c] = "closed"
  BY <1>1, <1>2 DEF Directory!vars, Ended
<1>3. CASE status[c] # "closed"
  BY <1>1, <1>3 DEF Directory!EndUnseen, Directory!IsOnline, Held, Ended
<1> QED  BY <1>2, <1>3

LEMMA StepPresence ==
  ASSUME TypeOK, IInv, [Next]_vars
  PROVE  [Directory!Next]_(Directory!vars)
<1>1. ASSUME NEW c \in Conns, Accept(c)
      PROVE  UNCHANGED Directory!vars
  BY <1>1 DEF Accept, TypeOK, Directory!vars
<1>2. ASSUME NEW c \in Conns, ReceiveHeart(c)
      PROVE  [Directory!Next]_(Directory!vars)
  <2>1. UNCHANGED status
    BY <1>2 DEF ReceiveHeart
  <2>2. CASE c \in m_sessions /\ CanLogin(terminal[c]) /\ Login(terminal[c], c)
    <3>1. terminal[c] \in Numbers
      BY <2>2 DEF CanLogin, TypeOK
    <3>2. status[c] # "closed" /\ ~Held(c)
      BY <2>2 DEF IInv, Ownership, CachedAreFresh
    <3>3. Directory!GoOnline(terminal[c], c)
      BY <2>1, <2>2, <3>1, <3>2
      DEF Login, CanLogin, Held, Directory!GoOnline, Directory!IsOnline
    <3> QED  BY <3>1, <3>3 DEF Directory!Next
  <2>3. CASE UNCHANGED m_session
    BY <2>1, <2>3 DEF Directory!vars
  <2> QED  BY <1>2, <2>2, <2>3 DEF ReceiveHeart
<1>3. CASE DoLogout
  <2>1. CASE HasSession(m_number[io.session])
    <3>1. PICK n \in Numbers : n = m_number[io.session] /\ m_session[n] # NoSession
      BY <2>1 DEF HasSession, TypeOK
    <3>2. Directory!GoOffline(n)
      BY <1>3, <2>1, <3>1, LogoutGoesOffline DEF DoLogout
    <3> QED  BY <3>2 DEF Directory!Next
  <2>2. CASE ~HasSession(m_number[io.session])
    BY <1>3, <2>2 DEF DoLogout, Directory!vars
  <2> QED  BY <2>1, <2>2
<1>4. CASE DoClose
  <2>1. io.session \in Conns /\ ~Held(io.session)
    BY <1>4 DEF DoClose, At, TypeOK, IInv, Handling
  <2> QED  BY <1>4, <2>1, CloseEndsUnseen DEF DoClose, tables, Directory!Next
<1>5. ASSUME NEW c \in Conns, ClearSession(c)
      PROVE  [Directory!Next]_(Directory!vars)
  <2>1. ~Held(c)
    BY <1>5 DEF ClearSession, IInv, Ownership, CachedAreFresh
  <2> QED  BY <1>5, <2>1, CloseEndsUnseen DEF ClearSession, Directory!Next
<1>6. ASSUME NEW n \in Numbers, ClearEquipment(n)
      PROVE  [Directory!Next]_(Directory!vars)
  <2>1. CASE HasSession(n)
    BY <1>6, <2>1, LogoutGoesOffline DEF ClearEquipment, LogoutIfHeld, HasSession, Directory!Next
  <2>2. CASE ~HasSession(n)
    BY <1>6, <2>2 DEF ClearEquipment, LogoutIfHeld, Directory!vars
  <2> QED  BY <2>1, <2>2
<1>7. ASSUME NEW c \in Conns,
             \/ WriteEnds(c) \/ Timeout(c) \/ DeadHandler(c) \/ Expire(c) \/ GoSilent(c)
             \/ \E reason \in {"Clean", "Reset", "Error"} : ReadFails(c, reason)
      PROVE  UNCHANGED Directory!vars
  BY <1>7 DEF WriteEnds, Timeout, DeadHandler, Expire, GoSilent, ReadFails, tables, Directory!vars
<1>8. CASE NoteHeart \/ Remove \/ StopContext \/ Join \/ EndClear \/ UNCHANGED vars
  BY <1>8 DEF NoteHeart, Remove, StopContext, Join, EndClear, vars, tables, Directory!vars
<1>9. ASSUME NEW n \in Numbers, Send(n)
      PROVE  UNCHANGED Directory!vars
  BY <1>9 DEF Send, tables, Directory!vars
<1> QED  BY <1>1, <1>2, <1>3, <1>4, <1>5, <1>6, <1>7, <1>8, <1>9
         DEF Next, Handler, HandlerRest, Closing, Closed

\* The handlers, timers and tables of server.cpp and equipment.cpp implement
\* Presence: a number is reached through one open connection at most, and goes
\* offline only together with the end of that connection.
THEOREM ImplementsPresence == SafeSpec => DirectorySpec
<1>1. TypeOK /\ IInv /\ [Next]_vars => [Directory!Next]_(Directory!vars)
  BY StepPresence
<1> QED  BY <1>1, InitPresence, Invariant, PTL DEF SafeSpec, DirectorySpec, Directory!Spec
=============================================================================
