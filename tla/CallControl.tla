---------------------------- MODULE CallControl ----------------------------
(***************************************************************************)
(* A voice call from dialling to its end: the commands of                  *)
(* source/cmdcall.cpp, the table of calls of class Equipment and the       *)
(* answer timer of each call.                                              *)
(*                                                                         *)
(* Three threads work on a call.  The processor thread runs the commands,  *)
(* one message after the other, and delivers what they post.  The timer    *)
(* thread runs the callback of an expired answer timer.  The network       *)
(* thread logs terminals in and out, and a logout drops the calls of that  *)
(* terminal.  Each is broken where it gives up a mutex or touches a table  *)
(* of calls, which no mutex protects: two threads about to use the same    *)
(* table are a data race, whose outcome here is that the station stops.    *)
(*                                                                         *)
(* A call is named by its uuid, which a terminal uses once, and has a      *)
(* caller and a callee; its timer key is written as the call itself.  The  *)
(* terminals are the environment: they follow the protocol of the README,  *)
(* each sending a message at most once and only after what prompts it.     *)
(* A command that is running is assumed to end within the 30 seconds of    *)
(* the answer timer it started.                                            *)
(***************************************************************************)
EXTENDS Naturals, Sequences, Functions

CONSTANTS Numbers,    \* registered terminals
          Calls,      \* uuids
          Caller,     \* the number that dials a call
          Callee,     \* the number it dials
          MaxLogouts  \* bound on the logouts

ASSUME ConstantsAssumption == /\ Caller \in [Calls -> Numbers]
                              /\ DOMAIN Callee = Calls
                              /\ MaxLogouts \in Nat

VARIABLES online,    \* Equipment: the terminals that are logged in
          m_calls,   \* Equipment: the calls in the table of each number
          m_timers,  \* TimerManager: the calls whose answer timer is waiting
          m_recv,    \* messages received and not yet processed
          m_send,    \* messages posted and not yet delivered
          cmd,       \* the command the processor thread is running
          callback,  \* the callback the timer thread is running
          io,        \* the number the network thread is logging out
          crashed,   \* a data race has stopped the station
          heard,     \* the state of each call each terminal was last told
          sent,      \* history of the messages the terminals sent
          posted,    \* history of the messages the commands and callbacks posted
          dropped,   \* history of the calls a logout has dropped
          logouts    \* number of logouts so far

vars == <<online, m_calls, m_timers, m_recv, m_send, cmd, callback, io, crashed,
          heard, sent, posted, dropped, logouts>>

environment == <<heard, sent, dropped, logouts>>
network == <<online, io, dropped, logouts>>

Parties(u) == {Caller[u], Callee[u]}

Other(u, n) == IF n = Caller[u] THEN Callee[u] ELSE Caller[u]

\* A message of a terminal, and a message of the station.
Request(func, u, from) == [func |-> func, call |-> u, from |-> from]
Notice(state, u, to) == [state |-> state, call |-> u, to |-> to]

NoCommand == [step |-> "idle"]
Command(step, message) == [step |-> step, message |-> message]
NoCallback == [step |-> "idle"]
Callback(step, u) == [step |-> step, call |-> u]
NoLogout == [step |-> "idle"]

Init == /\ online = Numbers
        /\ m_calls = [n \in Numbers |-> {}]
        /\ m_timers = {}
        /\ m_recv = <<>>
        /\ m_send = <<>>
        /\ cmd = NoCommand
        /\ callback = NoCallback
        /\ io = NoLogout
        /\ crashed = FALSE
        /\ heard = [n \in Numbers |-> [u \in Calls |-> "IDLE"]]
        /\ sent = {}
        /\ posted = {}
        /\ dropped = {}
        /\ logouts = 0

\* MessageProcessor::append(Send, ...).
Post(state, u, to) == /\ m_send' = Append(m_send, Notice(state, u, to))
                      /\ posted' = posted \cup {Notice(state, u, to)}

-----------------------------------------------------------------------------
(* The terminals, through Session::do_receive on the network thread.       *)

SendRequest(func, u, from) ==
    /\ io.step = "idle"
    /\ from \in online
    /\ Request(func, u, from) \notin sent
    /\ sent' = sent \cup {Request(func, u, from)}
    /\ m_recv' = Append(m_recv, Request(func, u, from))
    /\ UNCHANGED <<online, m_calls, m_timers, m_send, cmd, callback, io, heard, posted,
                   dropped, logouts>>

Dial(u) == SendRequest("MAKE_CALL", u, Caller[u])

Incoming(u) == Callee[u] \in Numbers /\ heard[Callee[u]][u] = "INCOMING"

Alert(u) == Incoming(u) /\ SendRequest("RECV_CALL", u, Callee[u])

PickUp(u) == /\ Incoming(u)
             /\ Request("RECV_CALL", u, Callee[u]) \in sent
             /\ SendRequest("ANSWER_CALL", u, Callee[u])

PutDown(u, n) == /\ n \in Parties(u) \cap Numbers
                 /\ heard[n][u] \in {"LINKING", "INCOMING", "RINGING", "ACTIVE"}
                 /\ SendRequest("HANGUP_CALL", u, n)
-----------------------------------------------------------------------------
(* The processor thread.                                                   *)

\* Goes on with the next step of its command.
Go(step) == cmd' = Command(step, cmd.message)

AtStep(step) == cmd.step = step

message == cmd.message

\* fetch(Recv): the command of the oldest message begins.
Fetch == /\ AtStep("idle")
         /\ m_recv # <<>>
         /\ cmd' = Command(Head(m_recv).func, Head(m_recv))
         /\ m_recv' = Tail(m_recv)
         /\ UNCHANGED <<m_calls, m_timers, m_send, callback, posted, network, heard, sent>>

\* fetch(Send) and Server::send, which needs the mutex of EquipmentManager: what
\* is sent to a terminal that is not logged in is lost.
Deliver ==
    /\ AtStep("idle")
    /\ io.step = "idle"
    /\ m_send # <<>>
    /\ m_send' = Tail(m_send)
    /\ LET notice == Head(m_send) IN
         \/ /\ notice.to \in online
            /\ heard' = [heard EXCEPT ![notice.to][notice.call] = notice.state]
         \/ /\ notice.to \notin online
            /\ UNCHANGED heard
    /\ UNCHANGED <<m_calls, m_timers, m_recv, cmd, callback, posted, network, sent>>

\* What MakeCall answers instead of making the call.
Refusal(u) == CASE Callee[u] = Caller[u]      -> "IMS_REJECTED"
                [] Callee[u] \notin Numbers   -> "EMPTY_NUMBER"
                [] OTHER                      -> "OFFLINE"

CanCall(u) == Callee[u] # Caller[u] /\ Callee[u] \in online

MakeCall == LET u == message.call IN
            /\ AtStep("MAKE_CALL")
            /\ \/ /\ CanCall(u)
                  /\ m_timers' = m_timers \cup {u}
                  /\ Go("appendCall")
                  /\ UNCHANGED <<m_send, posted>>
               \/ /\ ~CanCall(u)
                  /\ Post(Refusal(u), u, Caller[u])
                  /\ cmd' = NoCommand
                  /\ UNCHANGED m_timers
            /\ UNCHANGED <<m_calls, m_recv, callback, network, heard, sent>>

\* As it would be if MakeCall appended the call to the equipment of from.
HolderIsCaller(u) == Caller[u]

\* Whose table of calls has the call.
Holder(u) == Callee[u]

\* Equipment::appendCall.
AppendCall == LET u == message.call IN
              /\ AtStep("appendCall")
              /\ m_calls' = [m_calls EXCEPT ![Holder(u)] = @ \cup {u}]
              /\ Go("linking")
              /\ UNCHANGED <<m_timers, m_recv, m_send, callback, posted, network, heard, sent>>

\* The messages a command posts last: to whom, and what comes next.
Posts(step) ==
    LET u == message.call
        n == message.from
    IN  CASE step = "linking"  -> [state |-> "LINKING",  to |-> Caller[u],   next |-> "incoming"]
          [] step = "incoming" -> [state |-> "INCOMING", to |-> Callee[u],   next |-> "idle"]
          [] step = "ringing"  -> [state |-> "RINGING",  to |-> Caller[u],   next |-> "idle"]
          [] step = "answered" -> [state |-> "ACTIVE",   to |-> n,           next |-> "active"]
          [] step = "active"   -> [state |-> "ACTIVE",   to |-> Other(u, n), next |-> "idle"]
          [] step = "released" -> [state |-> "HANGUP",   to |-> n,           next |-> "hangup"]
          [] step = "hangup"   -> [state |-> "HANGUP",   to |-> Other(u, n), next |-> "idle"]

PostSteps == {"linking", "incoming", "ringing", "answered", "active", "released", "hangup"}

PostNext == /\ cmd.step \in PostSteps
            /\ LET post == Posts(cmd.step) IN
                 /\ Post(post.state, message.call, post.to)
                 /\ cmd' = IF post.next = "idle" THEN NoCommand ELSE Command(post.next, message)
            /\ UNCHANGED <<m_calls, m_timers, m_recv, callback, network, heard, sent>>

\* Whose table a command searches: the sender's own for RECV_CALL and
\* ANSWER_CALL, the other party's and then the sender's for HANGUP_CALL.
Searched == IF cmd.step \in {"HANGUP_CALL", "find"} /\ message.func = "HANGUP_CALL"
            THEN Other(message.call, message.from)
            ELSE message.from

\* EquipmentManager::equipment and state(): the command ends when the terminal is
\* not online.
CheckOnline ==
    /\ cmd.step \in {"RECV_CALL", "ANSWER_CALL", "HANGUP_CALL", "retry"}
    /\ \/ /\ Searched \in online
          /\ Go(IF AtStep("retry") THEN "findOwn" ELSE "find")
       \/ /\ Searched \notin online
          /\ cmd' = NoCommand
    /\ UNCHANGED <<m_calls, m_timers, m_recv, m_send, callback, posted, network, heard, sent>>

\* Equipment::findCall.
FindCall ==
    /\ cmd.step \in {"find", "findOwn"}
    /\ \/ /\ message.call \in m_calls[Searched]
          /\ Go("timer")
       \/ /\ message.call \notin m_calls[Searched]
          /\ IF AtStep("find") /\ message.func = "HANGUP_CALL" THEN Go("retry")
             ELSE cmd' = NoCommand
    /\ UNCHANGED <<m_calls, m_timers, m_recv, m_send, callback, posted, network, heard, sent>>

\* As it would be if the answer timer were left running.
KeepTimer(u) == UNCHANGED m_timers

\* TimerManager::remove.
StopTimer(u) == m_timers' = m_timers \ {u}

\* As it would be if the timer were created and started again.
RearmTimer(u) == m_timers' = m_timers \cup {u}

\* TimerManager::reset: a timer that waits goes on waiting, one that is gone or
\* whose callback has begun is left alone.
ResetTimer(u) == UNCHANGED m_timers

\* RecvCall sets the timer anew; AnswerCall and HangupCall remove it.
HandleTimer ==
    /\ AtStep("timer")
    /\ \/ message.func = "RECV_CALL" /\ Go("ringing") /\ ResetTimer(message.call)
       \/ message.func = "ANSWER_CALL" /\ Go("answered") /\ StopTimer(message.call)
       \/ message.func = "HANGUP_CALL" /\ Go("released") /\ StopTimer(message.call)
    /\ UNCHANGED <<m_calls, m_recv, m_send, callback, posted, network, heard, sent>>
-----------------------------------------------------------------------------
(* The timer thread: the callback MakeCall installs.                       *)

ToStep(step) == callback' = Callback(step, callback.call)

\* The timer of a call expires.  Its own MakeCall has ended by then.
Expire(u) == /\ callback.step = "idle"
             /\ u \in m_timers
             /\ cmd.step \in {"appendCall", "linking", "incoming"} => message.call # u
             /\ callback' = Callback("remove", u)
             /\ UNCHANGED <<m_calls, m_timers, m_recv, m_send, cmd, posted, network, heard, sent>>

\* TimerManager::remove, in the callback.
CallbackRemove == /\ callback.step = "remove"
                  /\ m_timers' = m_timers \ {callback.call}
                  /\ ToStep("removeCall")
                  /\ UNCHANGED <<m_calls, m_recv, m_send, cmd, posted, network, heard, sent>>

\* Equipment::removeCall.
RemoveCall == /\ callback.step = "removeCall"
              /\ m_calls' = [m_calls EXCEPT ![Holder(callback.call)] = @ \ {callback.call}]
              /\ ToStep("from")
              /\ UNCHANGED <<m_timers, m_recv, m_send, cmd, posted, network, heard, sent>>

\* As it would be if both notices were addressed to from.
NoAnswerToCaller == Caller[callback.call]

NoAnswerTo ==
    IF callback.step = "from" THEN Caller[callback.call] ELSE Callee[callback.call]

PostNoAnswer == /\ callback.step \in {"from", "to"}
                /\ Post("NO_ANSWER", callback.call, NoAnswerTo)
                /\ callback' = IF callback.step = "from" THEN Callback("to", callback.call)
                               ELSE NoCallback
                /\ UNCHANGED <<m_calls, m_timers, m_recv, cmd, network, heard, sent>>
-----------------------------------------------------------------------------
(* The network thread: EquipmentManager::logout and login.                 *)

\* Equipment::logout drops the session, with the mutex of EquipmentManager held
\* until its calls are cleared.
BeginLogout(n) == /\ io.step = "idle"
                  /\ n \in online
                  /\ logouts < MaxLogouts
                  /\ online' = online \ {n}
                  /\ logouts' = logouts + 1
                  /\ io' = [step |-> "clear", number |-> n]
                  /\ UNCHANGED <<m_calls, m_timers, m_recv, m_send, cmd, callback, heard,
                                 sent, posted, dropped>>

\* As it would be if clearCall did not remove the timers.
ClearOnlyCall(u, n) == /\ m_calls' = [m_calls EXCEPT ![n] = @ \ {u}]
                       /\ UNCHANGED m_timers

Clear(u, n) == /\ m_calls' = [m_calls EXCEPT ![n] = @ \ {u}]
               /\ m_timers' = m_timers \ {u}

\* Equipment::clearCall, one call at a time.
ClearCall(u) == /\ io.step = "clear"
                /\ u \in m_calls[io.number]
                /\ Clear(u, io.number)
                /\ dropped' = dropped \cup {u}
                /\ UNCHANGED <<online, m_recv, m_send, cmd, callback, io, heard, sent,
                               posted, logouts>>

EndLogout == /\ io.step = "clear"
             /\ m_calls[io.number] = {}
             /\ io' = NoLogout
             /\ UNCHANGED <<online, m_calls, m_timers, m_recv, m_send, cmd, callback, heard,
                            sent, posted, dropped, logouts>>

Login(n) == /\ io.step = "idle"
            /\ n \notin online
            /\ online' = online \cup {n}
            /\ UNCHANGED <<m_calls, m_timers, m_recv, m_send, cmd, callback, io, heard, sent,
                           posted, dropped, logouts>>
-----------------------------------------------------------------------------
(* The data races on Equipment::m_calls.                                   *)

\* The tables of calls each thread is about to use.
ProcessorUses == CASE AtStep("appendCall")           -> {Holder(message.call)}
                   [] cmd.step \in {"find", "findOwn"} -> {Searched}
                   [] OTHER                          -> {}
TimerUses == IF callback.step = "removeCall" THEN {Holder(callback.call)} ELSE {}
NetworkUses == IF io.step = "clear" THEN {io.number} ELSE {}

\* Two accesses of one unordered_map, at least one of which changes it.
Crash == /\ \/ ProcessorUses \cap TimerUses # {}
            \/ ProcessorUses \cap NetworkUses # {}
            \/ TimerUses \cap NetworkUses # {}
         /\ crashed' = TRUE
         /\ UNCHANGED <<online, m_calls, m_timers, m_recv, m_send, cmd, callback, io, heard,
                        sent, posted, dropped, logouts>>
-----------------------------------------------------------------------------
Terminal == \E u \in Calls : \/ Dial(u) \/ Alert(u) \/ PickUp(u)
                             \/ \E n \in Numbers : PutDown(u, n)

Processor == \/ Fetch \/ Deliver \/ MakeCall \/ AppendCall \/ PostNext \/ CheckOnline
             \/ FindCall \/ HandleTimer

CallbackRest == CallbackRemove \/ RemoveCall \/ PostNoAnswer

LogoutRest == EndLogout \/ \E u \in Calls : ClearCall(u)

Step == \/ Terminal \/ Processor \/ CallbackRest \/ LogoutRest
        \/ \E u \in Calls : Expire(u)
        \/ \E n \in Numbers : BeginLogout(n) \/ Login(n)

Runs(A) == ~crashed /\ A /\ UNCHANGED crashed

Next == Runs(Step) \/ (~crashed /\ Crash)

SafeSpec == Init /\ [][Next]_vars

\* The three threads keep running, and an answer timer that is not removed
\* expires.  No terminal has to answer, hang up, log in or log out.
Spec == /\ SafeSpec
        /\ WF_vars(Runs(Processor))
        /\ WF_vars(Runs(CallbackRest))
        /\ WF_vars(Runs(LogoutRest))
        /\ \A u \in Calls : WF_vars(Runs(Expire(u)))
-----------------------------------------------------------------------------
(* Properties.                                                             *)

Messages == [func : {"MAKE_CALL", "RECV_CALL", "ANSWER_CALL", "HANGUP_CALL"},
             call : Calls, from : Numbers]

Steps == {"MAKE_CALL", "appendCall", "RECV_CALL", "ANSWER_CALL", "HANGUP_CALL", "retry",
          "find", "findOwn", "timer"} \cup PostSteps

Refusals == {"IMS_REJECTED", "EMPTY_NUMBER", "OFFLINE"}

States == {"LINKING", "INCOMING", "RINGING", "ACTIVE", "HANGUP", "NO_ANSWER"} \cup Refusals

Notices == [state : States, call : Calls, to : Numbers]

\* Calls that two different registered terminals can have.
Possible == {u \in Calls : Callee[u] \in Numbers \ {Caller[u]}}

\* Type invariant.  Only possible calls have a timer or are in a table, and that
\* of the callee; every message is for a registered terminal.
TypeOK == /\ online \subseteq Numbers
          /\ m_calls \in [Numbers -> SUBSET Possible]
          /\ \A n \in Numbers : \A u \in m_calls[n] : Callee[u] = n
          /\ m_timers \subseteq Possible
          /\ m_recv \in Seq(Messages)
          /\ m_send \in Seq(Notices)
          /\ cmd = NoCommand \/ \E step \in Steps, m \in Messages : cmd = Command(step, m)
          /\ \/ callback = NoCallback
             \/ \E step \in {"remove", "removeCall", "from", "to"}, u \in Possible :
                  callback = Callback(step, u)
          /\ io = NoLogout \/ \E n \in Numbers : io = [step |-> "clear", number |-> n]
          /\ crashed \in BOOLEAN
          /\ heard \in [Numbers -> [Calls -> States \cup {"IDLE"}]]
          /\ sent \subseteq Messages
          /\ posted \subseteq Notices
          /\ dropped \subseteq Calls
          /\ logouts \in 0..MaxLogouts

\* No answer timer outlives its call: while one is waiting the callee's table has
\* the call, or MakeCall is about to put it there, whatever the timer thread and a
\* logout do at the same time (MakeCall of cmdcall.cpp, clearCall of
\* equipment.cpp).
TimersHaveCalls ==
    \A u \in m_timers : u \in m_calls[Callee[u]] \/ (AtStep("appendCall") /\ message.call = u)

Posted(u, states) == \E notice \in posted : notice.call = u /\ notice.state \in states

\* The callback of a call begins; a command finds a call in the table it searches.
Begins(u) == callback' = Callback("remove", u) /\ callback' # callback
Finds(u) == cmd.step \in {"find", "findOwn"} /\ cmd'.step = "timer" /\ message.call = u

\* A call is either settled by a command or ends unanswered, unless the two overlap:
\* no callback begins once the call is announced as answered or ended, and no command
\* finds the call once its callback has announced that nobody answers (AnswerCall,
\* HangupCall and the callback of MakeCall in cmdcall.cpp).  A callback that has begun
\* before a command removes the timer does run on and contradicts it: AnsweredIsFinal.
SettledOrExpired ==
    [][\A u \in Calls : /\ Begins(u) => ~Posted(u, {"ACTIVE", "HANGUP"})
                        /\ Finds(u) => ~Posted(u, {"NO_ANSWER"})]_vars

\* A terminal that was told that its call is active is not told afterwards that nobody
\* answers: AnswerCall deletes the timer ("Delete timer now") before it says so.
AnsweredIsFinal ==
    [][\A u \in Calls : \A n \in Numbers :
          heard[n][u] = "ACTIVE" => heard'[n][u] # "NO_ANSWER"]_vars

\* The timers of the calls are used as AnswerTimer has it, which TimerManager
\* implements: each is armed once, by MakeCall, and fires at most once, not after a
\* command or a logout has removed it, and RECV_CALL does not bring it back.
AnswerTimers ==
    INSTANCE AnswerTimer
    WITH Keys   <- Calls,
         armed  <- {u \in m_timers : callback = NoCallback \/ callback.call # u},
         firing <- {u \in Calls : callback # NoCallback /\ callback.call = u},
         spent  <- {u \in Calls : \/ Posted(u, {"LINKING"})
                                  \/ cmd.step \in {"appendCall", "linking"} /\ message.call = u},
         open   <- ~crashed

AnswerTimerSpec == AnswerTimers!Spec

\* What a terminal hears of a call that rang.
Outcomes == {"ACTIVE", "HANGUP", "NO_ANSWER"}

Hears(n, u) == heard[n][u] \in Outcomes

\* The terminal is away after the call was announced, and loses what is sent to it.
Misses(n, u) == Posted(u, {"LINKING"}) /\ n \notin online

\* A call that has been announced does not ring forever: each of its parties gets the
\* message that it is answered, ended or not answered, unless that party is away, or
\* the callee has left while it rang (the answer timer of MakeCall).  Which of them it
\* gets, and that it is the last word, is not said here: AnsweredIsFinal and
\* EndedStaysEnded are about that.
BothPartiesHear ==
    \A u \in Calls : \A n \in Parties(u) \cap Numbers :
        <>Posted(u, {"LINKING"}) => <>(Hears(n, u) \/ Misses(n, u) \/ u \in dropped \/ crashed)

\* The caller of a call that has been announced hears how it goes on unless it is away
\* itself, whatever the callee does, also when it leaves: the README has the caller
\* wait for the callee only until the response times out.
CallerHears ==
    \A u \in Calls :
        <>Posted(u, {"LINKING"}) => <>(Hears(Caller[u], u) \/ Misses(Caller[u], u) \/ crashed)

\* A call that has ended for both parties is not answered afterwards: AnswerCall
\* looks for the call and refuses what "has ended or never existed".
EndedStaysEnded ==
    [][\A u \in Calls : (\A n \in Parties(u) : Notice("HANGUP", u, n) \in posted) =>
          \A n \in Parties(u) : Notice("ACTIVE", u, n) \in posted' => Notice("ACTIVE", u, n) \in posted]_vars
=============================================================================
