-------------------------- MODULE CallControlProofs --------------------------
(***************************************************************************)
(* Proofs about CallControl, for any number of terminals and of calls:     *)
(* type correctness, that no answer timer outlives its call, that a call   *)
(* is settled and expires only when a command and the callback overlap,    *)
(* and that the answer timers are used as AnswerTimer has it.              *)
(*                                                                         *)
(* The argument turns on a call being made once.  Until its MAKE_CALL has  *)
(* been executed nothing in the station knows the call (Unmade), so that   *)
(* command finds no timer, callback or notice of it; afterwards a timer    *)
(* that is removed is not armed again (Removed).                           *)
(***************************************************************************)
EXTENDS CallControl, TLAPS

Funcs == {"MAKE_CALL", "RECV_CALL", "ANSWER_CALL", "HANGUP_CALL"}

\* The steps at which a command is known to be about a call that can be made.
KnownSteps == {"appendCall", "timer"} \cup PostSteps

\* A command begins with the step of its name, searches tables that exist, and gets
\* to act on a call only if it is a possible one.
CommandFits ==
    /\ cmd.step \in Funcs => cmd.step = message.func
    /\ cmd.step \in KnownSteps => message.call \in Possible
    /\ cmd.step = "find" => Searched \in Numbers
-----------------------------------------------------------------------------
(* Type correctness.                                                       *)

LEMMA Parties2 == \A u \in Possible : /\ u \in Calls
                                      /\ Caller[u] \in Numbers /\ Callee[u] \in Numbers
                                      /\ \A n : Other(u, n) \in Numbers
  BY ConstantsAssumption DEF Possible, Other

LEMMA CallersAreNumbers == \A u \in Calls : Caller[u] \in Numbers
  BY ConstantsAssumption

LEMMA StepNames == /\ "idle" \notin Steps /\ Funcs \subseteq Steps /\ KnownSteps \subseteq Steps
                   /\ {"retry", "find", "findOwn"} \subseteq Steps
                   /\ Funcs \cap KnownSteps = {} /\ "find" \notin Funcs \cup KnownSteps
                   /\ "findOwn" \notin Funcs \cup KnownSteps /\ "retry" \notin Funcs \cup KnownSteps
  BY DEF Steps, Funcs, KnownSteps, PostSteps

\* cmd is idle or has a step and a message.
CmdType == cmd = NoCommand \/ \E step \in Steps, m \in Messages : cmd = Command(step, m)

LEMMA CmdParts ==
  ASSUME CmdType
  PROVE  /\ cmd.step = "idle" => cmd = NoCommand
         /\ cmd.step # "idle" => /\ cmd.step \in Steps /\ message \in Messages
                                 /\ message.call \in Calls /\ message.from \in Numbers
                                 /\ message.func \in Funcs
                                 /\ cmd = Command(cmd.step, message)
  BY StepNames DEF CmdType, NoCommand, Command, message, Messages, Funcs

LEMMA NewCommand ==
  ASSUME NEW step \in Steps, NEW m \in Messages, cmd' = Command(step, m)
  PROVE  CmdType' /\ cmd'.step = step /\ message' = m
  BY DEF CmdType, Command, message

LEMMA Ended ==
  ASSUME cmd' = NoCommand
  PROVE  CmdType' /\ CommandFits'
  BY StepNames DEF CmdType, CommandFits, NoCommand, Funcs, KnownSteps, PostSteps

\* A command goes on to a step at which it is about a possible call.
LEMMA GoesOn ==
  ASSUME CmdType, NEW step \in KnownSteps, cmd' = Command(step, message), cmd.step # "idle",
         message.call \in Possible
  PROVE  CmdType' /\ CommandFits'
<1>1. step \in Steps /\ step \notin Funcs /\ step # "find"
  BY StepNames
<1> QED  BY <1>1, CmdParts, NewCommand DEF CommandFits

CallbackType == \/ callback = NoCallback
                \/ \E step \in {"remove", "removeCall", "from", "to"}, u \in Possible :
                     callback = Callback(step, u)

LEMMA CallbackParts ==
  ASSUME CallbackType
  PROVE  /\ callback.step = "idle" <=> callback = NoCallback
         /\ callback # NoCallback => /\ callback.step \in {"remove", "removeCall", "from", "to"}
                                     /\ callback.call \in Possible
                                     /\ callback = Callback(callback.step, callback.call)
  BY DEF CallbackType, NoCallback, Callback

LEMMA NewCallback ==
  ASSUME NEW step \in {"remove", "removeCall", "from", "to"}, NEW u \in Possible,
         callback' = Callback(step, u)
  PROVE  CallbackType' /\ callback'.step = step /\ callback'.call = u /\ callback' # NoCallback
  BY DEF CallbackType, NoCallback, Callback

LEMMA PostType ==
  ASSUME TypeOK, NEW state \in States, NEW u \in Calls, NEW to \in Numbers, Post(state, u, to)
  PROVE  m_send' \in Seq(Notices) /\ posted' \subseteq Notices
<1>1. Notice(state, u, to) \in Notices
  BY DEF Notice, Notices
<1> QED  BY <1>1 DEF TypeOK, Post

LEMMA TypeParts == TypeOK => CmdType /\ CallbackType
  BY DEF TypeOK, CmdType, CallbackType

\* What a message of the processor that is posted last says.
LEMMA PostsWhat ==
  ASSUME CmdType, CommandFits, cmd.step \in PostSteps
  PROVE  LET post == Posts(cmd.step) IN
         /\ post.state \in States /\ post.to \in Numbers
         /\ post.next \in {"idle", "incoming", "active", "hangup"}
         /\ post.state = "LINKING" <=> cmd.step = "linking"
         /\ post.state \in {"ACTIVE", "HANGUP"} <=>
              cmd.step \in {"answered", "active", "released", "hangup"}
         /\ post.next \in {"active", "hangup"} =>
              cmd.step \in {"answered", "released"}
<1>1. message.call \in Possible /\ message.from \in Numbers
  <2>1. cmd.step \in KnownSteps /\ cmd.step # "idle"
    BY DEF KnownSteps, PostSteps
  <2> QED  BY <2>1, CmdParts DEF CommandFits
<1>2. Caller[message.call] \in Numbers /\ Callee[message.call] \in Numbers
      /\ Other(message.call, message.from) \in Numbers
  BY <1>1, Parties2
<1> QED  BY <1>1, <1>2 DEF Posts, PostSteps, States, Refusals
TypedFits == TypeOK /\ CommandFits

LEMMA SendKeepsType ==
  ASSUME TypedFits, NEW func \in Funcs, NEW u \in Calls, NEW from \in Numbers,
         SendRequest(func, u, from), UNCHANGED crashed
  PROVE  TypedFits'
<1>1. Request(func, u, from) \in Messages
  BY DEF Request, Messages, Funcs
<1>2. m_recv' \in Seq(Messages) /\ sent' \subseteq Messages
  BY <1>1 DEF SendRequest, TypedFits, TypeOK
<1>3. CommandFits'
  BY DEF SendRequest, TypedFits, CommandFits, message, Searched
<1> QED  BY <1>2, <1>3 DEF SendRequest, TypedFits, TypeOK

LEMMA TerminalIsSending ==
  ASSUME Terminal
  PROVE  \E func \in Funcs, u \in Calls, from \in Numbers :
           /\ SendRequest(func, u, from)
           /\ func = "MAKE_CALL" => from = Caller[u]
  BY CallersAreNumbers
     DEF Terminal, Dial, Alert, PickUp, PutDown, Incoming, Funcs

\* What a step of the processor may change.
LEMMA ProcessorType ==
  ASSUME TypedFits, UNCHANGED <<callback, network, sent, crashed>>,
         CmdType', CommandFits',
         m_calls' \in [Numbers -> SUBSET Possible],
         \A n \in Numbers : \A u \in m_calls'[n] : Callee[u] = n,
         m_timers' \subseteq Possible, m_recv' \in Seq(Messages), m_send' \in Seq(Notices),
         heard' \in [Numbers -> [Calls -> States \cup {"IDLE"}]], posted' \subseteq Notices
  PROVE  TypedFits'
  BY DEF TypedFits, TypeOK, CmdType, network

LEMMA FetchType ==
  ASSUME TypedFits, Fetch, UNCHANGED crashed
  PROVE  TypedFits'
<1>1. Head(m_recv) \in Messages /\ m_recv' \in Seq(Messages)
  BY DEF Fetch, TypedFits, TypeOK
<1>2. Head(m_recv).func \in Funcs
  BY <1>1 DEF Messages, Funcs
<1>3. CmdType' /\ cmd'.step = Head(m_recv).func /\ message' = Head(m_recv)
  BY <1>1, <1>2, NewCommand, StepNames DEF Fetch
<1>4. CommandFits'
  BY <1>2, <1>3, StepNames DEF CommandFits
<1> QED  BY <1>1, <1>3, <1>4, ProcessorType DEF Fetch, TypedFits, TypeOK

LEMMA DeliverType ==
  ASSUME TypedFits, Deliver, UNCHANGED crashed
  PROVE  TypedFits'
<1>1. Head(m_send) \in Notices /\ m_send' \in Seq(Notices)
  BY DEF Deliver, TypedFits, TypeOK
<1>2. Head(m_send).state \in States /\ Head(m_send).call \in Calls /\ Head(m_send).to \in Numbers
  BY <1>1 DEF Notices
<1>3. heard' \in [Numbers -> [Calls -> States \cup {"IDLE"}]]
  <2> DEFINE notice == Head(m_send)
  <2>1. heard \in [Numbers -> [Calls -> States \cup {"IDLE"}]]
    BY DEF TypedFits, TypeOK
  <2>2. CASE heard' = [heard EXCEPT ![notice.to] =
                         [heard[notice.to] EXCEPT ![notice.call] = notice.state]]
    <3>1. [heard[notice.to] EXCEPT ![notice.call] = notice.state]
            \in [Calls -> States \cup {"IDLE"}]
      BY <1>2, <2>1
    <3> HIDE DEF notice
    <3> QED  BY <1>2, <2>1, <2>2, <3>1
  <2> QED  BY <2>1, <2>2 DEF Deliver
<1>4. CmdType' /\ CommandFits'
  BY DEF Deliver, TypedFits, TypeOK, CmdType, CommandFits, message, Searched
<1> QED  BY <1>1, <1>3, <1>4, ProcessorType DEF Deliver, TypedFits, TypeOK

LEMMA MakeCallType ==
  ASSUME TypedFits, MakeCall, UNCHANGED crashed
  PROVE  TypedFits'
<1> DEFINE u == message.call
<1>1. cmd.step # "idle" /\ CmdType
  BY TypeParts DEF MakeCall, AtStep, TypedFits
<1>2. u \in Calls /\ message \in Messages /\ Caller[u] \in Numbers
  BY <1>1, CmdParts, CallersAreNumbers
<1>3. CASE CanCall(u) /\ Go("appendCall") /\ m_timers' = m_timers \cup {u}
           /\ UNCHANGED <<m_send, posted>>
  <2>1. u \in Possible
    BY <1>2, <1>3 DEF CanCall, Possible, TypedFits, TypeOK
  <2>2. CmdType' /\ CommandFits'
    BY <1>1, <1>3, <2>1, GoesOn DEF Go, message, KnownSteps
  <2>3. m_timers' \subseteq Possible
    BY <1>3, <2>1 DEF TypedFits, TypeOK
  <2> QED  BY <1>3, <2>2, <2>3, ProcessorType DEF MakeCall, TypedFits, TypeOK
<1>4. CASE ~CanCall(u) /\ Post(Refusal(u), u, Caller[u]) /\ cmd' = NoCommand
           /\ UNCHANGED m_timers
  <2>1. Refusal(u) \in States
    BY DEF Refusal, States, Refusals
  <2>2. m_send' \in Seq(Notices) /\ posted' \subseteq Notices
    BY <1>2, <1>4, <2>1, PostType DEF TypedFits
  <2>3. CmdType' /\ CommandFits'
    BY <1>4, Ended
  <2> QED  BY <1>4, <2>2, <2>3, ProcessorType DEF MakeCall, TypedFits, TypeOK
<1> QED  BY <1>3, <1>4 DEF MakeCall

LEMMA AppendCallType ==
  ASSUME TypedFits, AppendCall, UNCHANGED crashed
  PROVE  TypedFits'
<1> DEFINE u == message.call
<1>1. cmd.step # "idle" /\ CmdType /\ cmd.step \in KnownSteps /\ u \in Possible
  BY TypeParts DEF AppendCall, AtStep, TypedFits, CommandFits, KnownSteps
<1>2. CmdType' /\ CommandFits'
  BY <1>1, GoesOn DEF AppendCall, Go, message, KnownSteps, PostSteps
<1>3. Callee[u] \in Numbers
  BY <1>1, Parties2
<1>4. /\ m_calls' \in [Numbers -> SUBSET Possible]
      /\ \A n \in Numbers : \A v \in m_calls'[n] : Callee[v] = n
  BY <1>1, <1>3 DEF AppendCall, Holder, TypedFits, TypeOK
<1> QED  BY <1>2, <1>4, ProcessorType DEF AppendCall, TypedFits, TypeOK

LEMMA PostNextType ==
  ASSUME TypedFits, PostNext, UNCHANGED crashed
  PROVE  TypedFits'
<1> DEFINE u == message.call
           post == Posts(cmd.step)
<1>1. cmd.step # "idle" /\ CmdType /\ CommandFits /\ cmd.step \in KnownSteps /\ u \in Possible
  BY TypeParts DEF PostNext, PostSteps, TypedFits, CommandFits, KnownSteps
<1>2. /\ post.state \in States /\ post.to \in Numbers
      /\ post.next \in {"idle", "incoming", "active", "hangup"}
  BY <1>1, PostsWhat DEF PostNext
<1>3. u \in Calls
  BY <1>1, Parties2
<1>4. m_send' \in Seq(Notices) /\ posted' \subseteq Notices
  BY <1>2, <1>3, PostType DEF PostNext, TypedFits
<1>5. CmdType' /\ CommandFits'
  <2>1. CASE post.next = "idle"
    BY <2>1, Ended DEF PostNext
  <2>2. CASE post.next # "idle"
    <3>1. post.next \in KnownSteps
      BY <1>2, <2>2 DEF KnownSteps, PostSteps
    <3>2. cmd' = Command(post.next, message)
      BY <2>2 DEF PostNext
    <3> QED  BY <1>1, <3>1, <3>2, GoesOn
  <2> QED  BY <2>1, <2>2
<1> QED  BY <1>4, <1>5, ProcessorType DEF PostNext, TypedFits, TypeOK

LEMMA SearchType ==
  ASSUME TypedFits, CheckOnline \/ FindCall, UNCHANGED crashed
  PROVE  TypedFits'
<1>1. cmd.step # "idle" /\ CmdType
  BY TypeParts DEF CheckOnline, FindCall, TypedFits
<1>2. message \in Messages /\ message.from \in Numbers
  BY <1>1, CmdParts
<1>3. CASE CheckOnline /\ Searched \in online /\ Go("find") /\ ~AtStep("retry")
  <2>1. CmdType' /\ cmd'.step = "find" /\ message' = message
    BY <1>2, <1>3, NewCommand, StepNames DEF Go, message
  <2>2. cmd.step \in Funcs /\ cmd.step = message.func
    BY <1>3 DEF CheckOnline, AtStep, Funcs, TypedFits, CommandFits
  <2>3. Searched' = Searched
    BY <1>3, <2>1, <2>2 DEF Searched, CheckOnline
  <2>4. Searched \in Numbers
    BY <1>3 DEF TypedFits, TypeOK
  <2>5. CommandFits'
    BY <2>1, <2>3, <2>4, StepNames DEF CommandFits
  <2> QED  BY <1>3, <2>1, <2>5, ProcessorType DEF CheckOnline, TypedFits, TypeOK
<1>4. CASE (CheckOnline /\ Go("findOwn")) \/ (FindCall /\ Go("retry"))
  <2>1. PICK step \in {"findOwn", "retry"} : cmd' = Command(step, message)
    BY <1>4 DEF Go, message
  <2>2. CmdType' /\ cmd'.step = step
    BY <1>2, <2>1, NewCommand, StepNames
  <2>3. CommandFits'
    BY <2>2, StepNames DEF CommandFits
  <2> QED  BY <1>4, <2>2, <2>3, ProcessorType DEF CheckOnline, FindCall, TypedFits, TypeOK
<1>5. CASE FindCall /\ message.call \in m_calls[Searched] /\ Go("timer")
  <2>1. Searched \in Numbers
    BY <1>2, <1>5 DEF FindCall, TypedFits, CommandFits, Searched
  <2>2. message.call \in Possible
    BY <1>5, <2>1 DEF TypedFits, TypeOK
  <2>3. CmdType' /\ CommandFits'
    BY <1>1, <1>5, <2>2, GoesOn DEF Go, KnownSteps, message
  <2> QED  BY <1>5, <2>3, ProcessorType DEF FindCall, TypedFits, TypeOK
<1>6. CASE cmd' = NoCommand
  <2>1. CmdType' /\ CommandFits'
    BY <1>6, Ended
  <2> QED  BY <2>1, ProcessorType DEF CheckOnline, FindCall, TypedFits, TypeOK
<1> QED  BY <1>3, <1>4, <1>5, <1>6 DEF CheckOnline, FindCall

LEMMA HandleTimerType ==
  ASSUME TypedFits, HandleTimer, UNCHANGED crashed
  PROVE  TypedFits'
<1>1. cmd.step # "idle" /\ CmdType /\ cmd.step \in KnownSteps /\ message.call \in Possible
  BY TypeParts DEF HandleTimer, AtStep, TypedFits, CommandFits, KnownSteps
<1>2. PICK step \in {"ringing", "answered", "released"} : cmd' = Command(step, message)
  BY DEF HandleTimer, Go, message
<1>3. CmdType' /\ CommandFits'
  BY <1>1, <1>2, GoesOn DEF KnownSteps, PostSteps
<1>4. m_timers' \subseteq Possible
  BY DEF HandleTimer, ResetTimer, StopTimer, TypedFits, TypeOK
<1> QED  BY <1>3, <1>4, ProcessorType DEF HandleTimer, TypedFits, TypeOK

LEMMA CallbackKeepsType ==
  ASSUME TypedFits, CallbackRest \/ \E u \in Calls : Expire(u), UNCHANGED crashed
  PROVE  TypedFits'
<1>1. CommandFits' /\ CmdType' /\ CallbackType /\ CmdType
  BY TypeParts DEF CallbackRest, Expire, CallbackRemove, RemoveCall, PostNoAnswer, TypedFits,
                   TypeOK, CommandFits, CmdType, message, Searched
<1>2. CASE \E u \in Calls : Expire(u)
  <2>1. CallbackType'
    BY <1>2, NewCallback DEF Expire, TypedFits, TypeOK
  <2> QED  BY <1>1, <1>2, <2>1 DEF Expire, TypedFits, TypeOK, CallbackType, network
<1> DEFINE u == callback.call
<1>3. CASE CallbackRest
  <2>1. callback # NoCallback /\ u \in Possible
    BY <1>1, <1>3, CallbackParts DEF CallbackRest, CallbackRemove, RemoveCall, PostNoAnswer
  <2>2. u \in Calls /\ Caller[u] \in Numbers /\ Callee[u] \in Numbers
    BY <2>1, Parties2
  <2>3. CallbackType'
    <3>1. CASE cmd = cmd /\ callback' = NoCallback
      BY <3>1 DEF CallbackType
    <3>2. CASE \E step \in {"removeCall", "from", "to"} : callback' = Callback(step, u)
      BY <2>1, <3>2, NewCallback
    <3> QED
      BY <1>3, <3>1, <3>2 DEF CallbackRest, CallbackRemove, RemoveCall, PostNoAnswer, ToStep
  <2>4. CASE CallbackRemove
    BY <1>1, <2>3, <2>4 DEF CallbackRemove, TypedFits, TypeOK, CallbackType, network
  <2>5. CASE RemoveCall
    <3>1. /\ m_calls' \in [Numbers -> SUBSET Possible]
          /\ \A n \in Numbers : \A v \in m_calls'[n] : Callee[v] = n
      BY <2>2, <2>5 DEF RemoveCall, Holder, TypedFits, TypeOK
    <3> QED
      BY <1>1, <2>3, <2>5, <3>1 DEF RemoveCall, TypedFits, TypeOK, CallbackType, network
  <2>6. CASE PostNoAnswer
    <3>1. "NO_ANSWER" \in States /\ NoAnswerTo \in Numbers
      BY <2>2 DEF States, NoAnswerTo
    <3>2. m_send' \in Seq(Notices) /\ posted' \subseteq Notices
      BY <2>2, <2>6, <3>1, PostType DEF PostNoAnswer, TypedFits
    <3> QED
      BY <1>1, <2>3, <2>6, <3>2 DEF PostNoAnswer, TypedFits, TypeOK, CallbackType, network
  <2> QED  BY <1>3, <2>4, <2>5, <2>6 DEF CallbackRest
<1> QED  BY <1>2, <1>3

LEMMA NetworkKeepsType ==
  ASSUME TypedFits, LogoutRest \/ \E n \in Numbers : BeginLogout(n) \/ Login(n),
         UNCHANGED crashed
  PROVE  TypedFits'
<1>1. CommandFits'
  BY DEF LogoutRest, ClearCall, EndLogout, BeginLogout, Login, TypedFits, CommandFits, message,
         Searched
<1>2. ASSUME NEW n \in Numbers, BeginLogout(n)
      PROVE  TypedFits'
  <2>1. logouts' \in 0..MaxLogouts
    BY <1>2, ConstantsAssumption DEF BeginLogout, TypedFits, TypeOK
  <2> QED  BY <1>1, <1>2, <2>1 DEF BeginLogout, TypedFits, TypeOK
<1>3. ASSUME NEW n \in Numbers, Login(n)
      PROVE  TypedFits'
  BY <1>1, <1>3 DEF Login, TypedFits, TypeOK
<1>4. ASSUME NEW u \in Calls, ClearCall(u)
      PROVE  TypedFits'
  <2>1. io.number \in Numbers
    BY <1>4 DEF ClearCall, TypedFits, TypeOK, NoLogout
  <2>2. /\ m_calls' \in [Numbers -> SUBSET Possible]
        /\ \A n \in Numbers : \A v \in m_calls'[n] : Callee[v] = n
        /\ m_timers' \subseteq Possible
    BY <1>4, <2>1 DEF ClearCall, Clear, TypedFits, TypeOK
  <2> QED  BY <1>1, <1>4, <2>2 DEF ClearCall, TypedFits, TypeOK
<1>5. CASE EndLogout
  BY <1>1, <1>5 DEF EndLogout, TypedFits, TypeOK
<1> QED  BY <1>2, <1>3, <1>4, <1>5 DEF LogoutRest

LEMMA StepTyped ==
  ASSUME TypedFits, [Next]_vars
  PROVE  TypedFits'
<1>1. ASSUME Terminal, UNCHANGED crashed
      PROVE  TypedFits'
  BY <1>1, TerminalIsSending, SendKeepsType
<1>2. CASE Crash \/ UNCHANGED vars
  <2>1. CommandFits' /\ crashed' \in BOOLEAN
    BY <1>2 DEF Crash, vars, TypedFits, TypeOK, CommandFits, message, Searched
  <2> QED  BY <1>2, <2>1 DEF Crash, vars, TypedFits, TypeOK
<1>3. ASSUME Processor, UNCHANGED crashed
      PROVE  TypedFits'
  BY <1>3, FetchType, DeliverType, MakeCallType, AppendCallType, PostNextType, SearchType,
     HandleTimerType DEF Processor
<1> QED  BY <1>1, <1>2, <1>3, CallbackKeepsType, NetworkKeepsType DEF Next, Runs, Step

LEMMA InitTyped == Init => TypedFits
<1> SUFFICES ASSUME Init
             PROVE  TypedFits
  OBVIOUS
<1>1. CommandFits
  BY DEF Init, CommandFits, NoCommand, Funcs, KnownSteps, PostSteps
<1>2. m_recv \in Seq(Messages) /\ m_send \in Seq(Notices)
  BY DEF Init
<1>3. logouts \in 0..MaxLogouts
  BY ConstantsAssumption DEF Init
<1>4. /\ m_calls \in [Numbers -> SUBSET Possible]
      /\ \A n \in Numbers : \A u \in m_calls[n] : Callee[u] = n
      /\ heard \in [Numbers -> [Calls -> States \cup {"IDLE"}]]
  BY DEF Init
<1> QED  BY <1>1, <1>2, <1>3, <1>4 DEF Init, TypedFits, TypeOK

\* Init and steps together: only possible calls get a timer or a place in a table,
\* that of the callee, and every message is for a registered terminal.
THEOREM Typing == SafeSpec => []TypeOK
<1>1. TypedFits => TypeOK
  BY DEF TypedFits
<1> QED  BY InitTyped, StepTyped, <1>1, PTL DEF SafeSpec
-----------------------------------------------------------------------------
(* A call is made once.                                                    *)

MakeRequest(u) == Request("MAKE_CALL", u, Caller[u])

\* Only its caller dials a call.
DialsOnly == \A m \in sent : m.func = "MAKE_CALL" => m.from = Caller[m.call]

\* A request that was sent is received and processed at most once.
RequestsOnce ==
    /\ \A i \in DOMAIN m_recv : m_recv[i] \in sent
    /\ \A i, j \in DOMAIN m_recv : m_recv[i] = m_recv[j] => i = j
    /\ cmd # NoCommand => message \in sent /\ \A i \in DOMAIN m_recv : m_recv[i] # message

\* The MAKE_CALL of a call has not been executed yet.
Unmade(u) == \/ MakeRequest(u) \notin sent
             \/ \E i \in DOMAIN m_recv : m_recv[i] = MakeRequest(u)
             \/ cmd = Command("MAKE_CALL", MakeRequest(u))

\* Until then the station knows nothing of the call.
NothingBefore ==
    \A u \in Calls : Unmade(u) =>
        /\ u \notin m_timers
        /\ callback # NoCallback => callback.call # u
        /\ \A notice \in posted : notice.call # u
        /\ \A n \in Numbers : u \notin m_calls[n]
        /\ cmd.step \in KnownSteps => message.call # u

\* A timer that the callback or a command has removed is not armed again.
Removed ==
    /\ callback.step \in {"removeCall", "from", "to"} => callback.call \notin m_timers
    /\ cmd.step \in {"answered", "active", "released", "hangup"} => message.call \notin m_timers

SettledHasNoTimer == \A u \in Calls : Posted(u, {"ACTIVE", "HANGUP"}) => u \notin m_timers

\* A call whose callback has begun to tell, or has told, that nobody answers is in no
\* table, and no command is about to put it there.
ExpiredIsGone ==
    /\ cmd.step = "appendCall" => /\ callback # NoCallback => callback.call # message.call
                                  /\ ~Posted(message.call, {"NO_ANSWER"})
    /\ callback.step \in {"from", "to"} => \A n \in Numbers : callback.call \notin m_calls[n]
    /\ \A u \in Calls : Posted(u, {"NO_ANSWER"}) => \A n \in Numbers : u \notin m_calls[n]

IInv == /\ TypeOK /\ CommandFits
        /\ DialsOnly /\ RequestsOnce /\ NothingBefore
        /\ Removed /\ SettledHasNoTimer /\ TimersHaveCalls /\ ExpiredIsGone

\* A terminal sends a request; only the caller of a call sends its MAKE_CALL.
Sends == \E func \in Funcs, u \in Calls, from \in Numbers :
           SendRequest(func, u, from) /\ (func = "MAKE_CALL" => from = Caller[u])

LEMMA WellTyped ==
  ASSUME IInv
  PROVE  /\ CmdType /\ CallbackType /\ TypedFits
         /\ cmd = NoCommand <=> cmd.step = "idle"
         /\ message \in Messages \/ cmd = NoCommand
<1>1. CmdType /\ CallbackType /\ TypedFits
  BY TypeParts DEF IInv, TypedFits
<1>2. NoCommand.step = "idle"
  BY DEF NoCommand
<1> QED  BY <1>1, <1>2, CmdParts

\* What becomes of a command once it has been fetched.
LEMMA CommandRuns ==
  ASSUME IInv, [Next]_vars, ~Fetch
  PROVE  \/ cmd' = cmd
         \/ cmd' = NoCommand
         \/ /\ cmd.step # "idle" /\ message' = message
            /\ cmd'.step \notin Funcs /\ cmd'.step # "idle"
<1>1. ASSUME Processor
      PROVE  cmd' = cmd \/ cmd' = NoCommand \/
             \E step \in Steps \ Funcs : cmd' = Command(step, message) /\ cmd.step # "idle"
  <2>1. CASE Deliver
    BY <2>1 DEF Deliver
  <2>2. CASE MakeCall \/ AppendCall \/ CheckOnline \/ FindCall \/ HandleTimer
    <3>1. {"appendCall", "linking", "find", "findOwn", "retry", "timer", "ringing",
           "answered", "released"} \subseteq Steps \ Funcs
      BY DEF Steps, PostSteps, Funcs
    <3>2. \/ cmd' = NoCommand
          \/ \E step \in {"appendCall", "linking", "find", "findOwn", "retry", "timer",
                          "ringing", "answered", "released"} : cmd' = Command(step, message)
      BY <2>2 DEF MakeCall, AppendCall, CheckOnline, FindCall, HandleTimer, Go, message
    <3>3. cmd.step # "idle"
      BY <2>2 DEF MakeCall, AppendCall, CheckOnline, FindCall, HandleTimer, AtStep
    <3> QED  BY <3>1, <3>2, <3>3
  <2>3. CASE PostNext
    <3>1. CmdType /\ CommandFits /\ cmd.step # "idle" /\ cmd.step \in PostSteps
      BY <2>3, WellTyped DEF PostNext, PostSteps, IInv
    <3>2. Posts(cmd.step).next \in {"idle", "incoming", "active", "hangup"}
      BY <3>1, PostsWhat
    <3>3. {"incoming", "active", "hangup"} \subseteq Steps \ Funcs
      BY DEF Steps, PostSteps, Funcs
    <3> QED  BY <2>3, <3>1, <3>2, <3>3 DEF PostNext
  <2> QED  BY <1>1, <2>1, <2>2, <2>3 DEF Processor
<1>2. ASSUME NEW step \in Steps \ Funcs, cmd' = Command(step, message)
      PROVE  message' = message /\ cmd'.step \notin Funcs /\ cmd'.step # "idle"
  BY <1>2, StepNames DEF Command, message
<1>3. ~Processor => cmd' = cmd
  BY TerminalIsSending
     DEF Next, Runs, Step, SendRequest, CallbackRest, CallbackRemove, RemoveCall, PostNoAnswer,
         LogoutRest, EndLogout, ClearCall, Expire, BeginLogout, Login, Crash, vars
<1> QED  BY <1>1, <1>2, <1>3

\* Only the terminals send, and only Fetch takes what they have sent.
LEMMA RequestsChange ==
  ASSUME [Next]_vars
  PROVE  \/ Sends /\ UNCHANGED <<m_timers, m_calls, posted, callback, cmd>>
         \/ Fetch
         \/ UNCHANGED <<sent, m_recv>> /\ ~Fetch
<1>1. CASE Terminal
  BY <1>1, TerminalIsSending DEF Sends, SendRequest
<1>2. CASE ~Terminal /\ ~Fetch
  BY <1>2
     DEF Next, Runs, Step, Processor, Deliver, MakeCall, AppendCall, PostNext, CheckOnline,
         FindCall, HandleTimer, CallbackRest, CallbackRemove, RemoveCall, PostNoAnswer,
         LogoutRest, EndLogout, ClearCall, Expire, BeginLogout, Login, Crash, vars, network
<1> QED  BY <1>1, <1>2

LEMMA Taken ==
  ASSUME IInv, Fetch
  PROVE  /\ 1 \in DOMAIN m_recv /\ Head(m_recv) = m_recv[1] /\ m_recv[1] \in Messages
         /\ \A i \in DOMAIN m_recv' : /\ i \in Nat \ {0} /\ i + 1 \in DOMAIN m_recv
                                      /\ m_recv'[i] = m_recv[i + 1]
         /\ cmd = NoCommand /\ cmd' = Command(m_recv[1].func, m_recv[1])
         /\ message' = m_recv[1] /\ sent' = sent
<1>1. m_recv \in Seq(Messages) /\ m_recv # <<>> /\ m_recv' = Tail(m_recv)
  BY DEF IInv, TypeOK, Fetch
<1>2. Len(m_recv) \in Nat \ {0} /\ 1 \in DOMAIN m_recv /\ Head(m_recv) = m_recv[1]
      /\ m_recv[1] \in Messages
  BY <1>1
<1>3. ASSUME NEW i \in DOMAIN m_recv'
      PROVE  i \in Nat \ {0} /\ i + 1 \in DOMAIN m_recv /\ m_recv'[i] = m_recv[i + 1]
  BY <1>1, <1>2, <1>3
<1>4. cmd = NoCommand /\ cmd' = Command(m_recv[1].func, m_recv[1]) /\ sent' = sent
  BY <1>2, WellTyped DEF Fetch, AtStep
<1> QED  BY <1>2, <1>3, <1>4 DEF message, Command

LEMMA Appended ==
  ASSUME IInv, NEW m, m_recv' = Append(m_recv, m)
  PROVE  \A i \in DOMAIN m_recv' : \/ i \in DOMAIN m_recv /\ m_recv'[i] = m_recv[i]
                                   \/ i = Len(m_recv) + 1 /\ m_recv'[i] = m
  BY DEF IInv, TypeOK

LEMMA RequestsKept ==
  ASSUME IInv, [Next]_vars
  PROVE  DialsOnly' /\ RequestsOnce'
<1>1. ASSUME Sends
      PROVE  DialsOnly' /\ RequestsOnce'
  <2>1. PICK func \in Funcs, u \in Calls, from \in Numbers :
          SendRequest(func, u, from) /\ (func = "MAKE_CALL" => from = Caller[u])
    BY <1>1 DEF Sends
  <2> DEFINE m == Request(func, u, from)
  <2>2. /\ m \notin sent /\ sent' = sent \cup {m} /\ m_recv' = Append(m_recv, m) /\ cmd' = cmd
        /\ m.func = "MAKE_CALL" => m.from = Caller[m.call]
    BY <2>1 DEF SendRequest, Request
  <2> HIDE DEF m
  <2>3. DialsOnly'
    BY <2>2 DEF IInv, DialsOnly
  <2>4. \A i \in DOMAIN m_recv' : \/ i \in DOMAIN m_recv /\ m_recv'[i] = m_recv[i]
                                  \/ i = Len(m_recv) + 1 /\ m_recv'[i] = m
    BY <2>2, Appended
  <2>5. \A i \in DOMAIN m_recv : m_recv[i] \in sent /\ m_recv[i] # m
    BY <2>2 DEF IInv, RequestsOnce
  <2>6. \A i, j \in DOMAIN m_recv' : m_recv'[i] = m_recv'[j] => i = j
    BY <2>4, <2>5 DEF IInv, RequestsOnce
  <2>7. \A i \in DOMAIN m_recv' : m_recv'[i] \in sent'
    BY <2>2, <2>4, <2>5
  <2>8. cmd' # NoCommand => message' \in sent' /\ \A i \in DOMAIN m_recv' : m_recv'[i] # message'
    BY <2>2, <2>4 DEF IInv, RequestsOnce, message
  <2> QED  BY <2>3, <2>6, <2>7, <2>8 DEF RequestsOnce
<1>2. CASE Fetch
  <2>1. DialsOnly'
    BY <1>2, Taken DEF IInv, DialsOnly
  <2>2. \A i, j \in DOMAIN m_recv' : m_recv'[i] = m_recv'[j] => i = j
    <3> SUFFICES ASSUME NEW i \in DOMAIN m_recv', NEW j \in DOMAIN m_recv', m_recv'[i] = m_recv'[j]
                 PROVE  i = j
      OBVIOUS
    <3>1. i \in Nat /\ j \in Nat /\ m_recv[i + 1] = m_recv[j + 1]
          /\ i + 1 \in DOMAIN m_recv /\ j + 1 \in DOMAIN m_recv
      BY <1>2, Taken
    <3>2. i + 1 = j + 1
      BY <3>1 DEF IInv, RequestsOnce
    <3> QED  BY <3>1, <3>2
  <2>3. \A i \in DOMAIN m_recv' : m_recv'[i] \in sent'
    BY <1>2, Taken DEF IInv, RequestsOnce
  <2>4. ASSUME NEW i \in DOMAIN m_recv'
        PROVE  m_recv'[i] # message'
    <3>1. i \in Nat \ {0} /\ i + 1 \in DOMAIN m_recv /\ m_recv'[i] = m_recv[i + 1]
          /\ 1 \in DOMAIN m_recv /\ message' = m_recv[1]
      BY <1>2, Taken
    <3>2. i + 1 # 1
      BY <3>1
    <3> QED  BY <3>1, <3>2 DEF IInv, RequestsOnce
  <2>5. message' \in sent'
    BY <1>2, Taken DEF IInv, RequestsOnce
  <2> QED  BY <2>1, <2>2, <2>3, <2>4, <2>5 DEF RequestsOnce
<1>3. CASE UNCHANGED <<sent, m_recv>> /\ ~Fetch
  <2>1. cmd' # NoCommand => cmd # NoCommand /\ message' = message
    BY <1>3, CommandRuns, WellTyped DEF message
  <2> QED  BY <1>3, <2>1 DEF IInv, DialsOnly, RequestsOnce
<1> QED  BY <1>1, <1>2, <1>3, RequestsChange

LEMMA MadeBefore ==
  ASSUME IInv, [Next]_vars, NEW u \in Calls, Unmade(u)'
  PROVE  Unmade(u)
<1> DEFINE m == MakeRequest(u)
<1>1. MakeRequest(u)' = m /\ m.func = "MAKE_CALL"
  BY DEF MakeRequest, Request
<1>2. CASE Sends
  BY <1>1, <1>2, Appended DEF Sends, SendRequest, Unmade, MakeRequest
<1>3. CASE Fetch
  <2>1. cmd' = Command("MAKE_CALL", m) => m_recv[1] = m
    BY <1>3, Taken DEF Command
  <2> QED  BY <1>1, <1>3, <2>1, Taken DEF Unmade
<1>4. CASE UNCHANGED <<sent, m_recv>> /\ ~Fetch
  <2>1. cmd' = Command("MAKE_CALL", m) => cmd'.step \in Funcs /\ cmd'.step # "idle"
    BY DEF Command, Funcs
  <2>2. cmd' = Command("MAKE_CALL", m) => cmd' = cmd
    BY <1>4, <2>1, CommandRuns DEF NoCommand
  <2> QED  BY <1>1, <1>4, <2>2 DEF Unmade
<1> QED  BY <1>2, <1>3, <1>4, RequestsChange

LEMMA MakesItself ==
  ASSUME IInv, cmd.step = "MAKE_CALL"
  PROVE  /\ message = MakeRequest(message.call) /\ message.call \in Calls
         /\ Unmade(message.call)
<1>1. /\ cmd # NoCommand /\ message \in Messages /\ message.func = "MAKE_CALL"
      /\ message \in sent /\ message.call \in Calls
      /\ cmd = Command("MAKE_CALL", message)
  BY CmdParts, WellTyped DEF IInv, CommandFits, RequestsOnce, Funcs, NoCommand
<1>2. message.from = Caller[message.call]
  BY <1>1 DEF IInv, DialsOnly
<1>3. message = MakeRequest(message.call)
  BY <1>1, <1>2 DEF Messages, MakeRequest, Request
<1> QED  BY <1>1, <1>3 DEF Unmade

LEMMA NowMade ==
  ASSUME IInv, MakeCall, NEW u, u = message.call
  PROVE  ~Unmade(u)'
<1> DEFINE m == MakeRequest(u)
<1>1. cmd.step = "MAKE_CALL" /\ UNCHANGED <<sent, m_recv>>
  BY DEF MakeCall, AtStep
<1>2. message = m /\ cmd # NoCommand
  BY <1>1, MakesItself, WellTyped
<1>3. m \in sent /\ \A i \in DOMAIN m_recv : m_recv[i] # m
  BY <1>2 DEF IInv, RequestsOnce
<1>4. cmd'.step \in {"appendCall", "idle"}
  BY DEF MakeCall, Go, Command, NoCommand
<1>5. cmd' # Command("MAKE_CALL", m)
  BY <1>4 DEF Command
<1> QED  BY <1>1, <1>3, <1>5 DEF Unmade, MakeRequest
-----------------------------------------------------------------------------
(* What a step adds.                                                       *)

\* The steps that are neither the processor's nor the callback's.
LEMMA ActionsOf ==
  ASSUME [Next]_vars
  PROVE  \/ Processor
         \/ CallbackRest
         \/ \E u \in Calls : Expire(u)
         \/ \E u \in Calls : ClearCall(u)
         \/ UNCHANGED <<m_calls, m_timers, cmd, callback, posted>>
  BY TerminalIsSending
     DEF Next, Runs, Step, SendRequest, LogoutRest, EndLogout, BeginLogout, Login, Crash, vars

\* Only MakeCall arms a timer.
LEMMA NewTimers ==
  ASSUME [Next]_vars, NEW u \in m_timers'
  PROVE  u \in m_timers \/ (MakeCall /\ u = message.call)
<1>1. ASSUME Processor
      PROVE  u \in m_timers \/ (MakeCall /\ u = message.call)
  BY <1>1 DEF Processor, Fetch, Deliver, MakeCall, AppendCall, PostNext, CheckOnline, FindCall,
              HandleTimer, ResetTimer, StopTimer
<1>2. ASSUME ~Processor
      PROVE  u \in m_timers
  BY <1>2, ActionsOf DEF CallbackRest, CallbackRemove, RemoveCall, PostNoAnswer, Expire,
                         ClearCall, Clear
<1> QED  BY <1>1, <1>2

\* Only AppendCall puts a call in a table.
LEMMA NewCalls ==
  ASSUME IInv, [Next]_vars, NEW n \in Numbers, NEW u \in m_calls'[n]
  PROVE  u \in m_calls[n] \/ (cmd.step = "appendCall" /\ u = message.call)
<1>1. m_calls \in [Numbers -> SUBSET Possible]
  BY DEF IInv, TypeOK
<1>2. ASSUME Processor
      PROVE  u \in m_calls[n] \/ (cmd.step = "appendCall" /\ u = message.call)
  BY <1>1, <1>2 DEF Processor, Fetch, Deliver, MakeCall, AppendCall, PostNext, CheckOnline,
                    FindCall, HandleTimer, AtStep
<1>3. ASSUME ~Processor
      PROVE  u \in m_calls[n]
  BY <1>1, <1>3, ActionsOf DEF CallbackRest, CallbackRemove, RemoveCall, PostNoAnswer, Expire,
                               ClearCall, Clear
<1> QED  BY <1>2, <1>3

\* A callback begins with an armed timer, and is about one call.
LEMMA NewCallbacks ==
  ASSUME IInv, [Next]_vars, callback' # NoCallback
  PROVE  \/ callback # NoCallback /\ callback'.call = callback.call
         \/ callback'.call \in m_timers /\ callback'.step = "remove" /\ callback = NoCallback
<1>1. CallbackType
  BY WellTyped
<1>2. CASE \E u \in Calls : Expire(u)
  BY <1>1, <1>2, CallbackParts DEF Expire, Callback
<1>3. CASE CallbackRest
  <2>1. callback # NoCallback
    BY <1>1, <1>3, CallbackParts DEF CallbackRest, CallbackRemove, RemoveCall, PostNoAnswer
  <2>2. callback'.call = callback.call
    BY <1>3 DEF CallbackRest, CallbackRemove, RemoveCall, PostNoAnswer, ToStep, Callback
  <2> QED  BY <2>1, <2>2
<1>4. CASE callback' = callback
  BY <1>4
<1>5. (Processor \/ \E u \in Calls : ClearCall(u)) => callback' = callback
  BY DEF Processor, Fetch, Deliver, MakeCall, AppendCall, PostNext, CheckOnline, FindCall,
         HandleTimer, ClearCall
<1> QED  BY <1>2, <1>3, <1>4, <1>5, ActionsOf

\* What the notices that a step posts are about, and what they say.
LEMMA NewNotices ==
  ASSUME IInv, [Next]_vars, NEW notice \in posted', notice \notin posted
  PROVE  \/ MakeCall /\ notice.call = message.call /\ notice.state \in Refusals
         \/ PostNext /\ notice.call = message.call /\ notice.state = Posts(cmd.step).state
         \/ PostNoAnswer /\ notice.call = callback.call /\ notice.state = "NO_ANSWER"
<1>1. CASE MakeCall
  <2>1. ASSUME Post(Refusal(message.call), message.call, Caller[message.call])
        PROVE  notice.call = message.call /\ notice.state = Refusal(message.call)
    BY <2>1 DEF Post, Notice
  <2>2. Refusal(message.call) \in Refusals
    BY DEF Refusal, Refusals
  <2> QED  BY <1>1, <2>1, <2>2 DEF MakeCall
<1>2. CASE PostNext
  BY <1>2 DEF PostNext, Post, Notice
<1>3. CASE PostNoAnswer
  BY <1>3 DEF PostNoAnswer, Post, Notice
<1>4. CASE ~MakeCall /\ ~PostNext /\ ~PostNoAnswer
  <2>1. posted' = posted
    BY <1>4, ActionsOf
       DEF Processor, Fetch, Deliver, AppendCall, CheckOnline, FindCall, HandleTimer,
           CallbackRest, CallbackRemove, RemoveCall, Expire, ClearCall
  <2> QED  BY <2>1
<1> QED  BY <1>1, <1>2, <1>3, <1>4

\* How a command comes to act on a call.
LEMMA NewlyKnown ==
  ASSUME IInv, [Next]_vars, cmd'.step \in KnownSteps
  PROVE  /\ message' = message
         /\ \/ cmd.step \in KnownSteps
            \/ MakeCall
            \/ \E n \in Numbers : message.call \in m_calls[n]
<1>1. cmd'.step \notin Funcs /\ cmd'.step # "idle"
  BY StepNames DEF KnownSteps, PostSteps
<1>2. ~Fetch /\ cmd' # NoCommand
  <2>1. ASSUME Fetch
        PROVE  FALSE
    <3>1. cmd'.step = m_recv[1].func /\ m_recv[1] \in Messages
      BY <2>1, Taken DEF Command
    <3> QED  BY <1>1, <3>1 DEF Messages, Funcs
  <2> QED  BY <1>1, <2>1 DEF NoCommand
<1>3. message' = message
  BY <1>2, CommandRuns DEF message
<1>4. CASE cmd' = cmd
  BY <1>3, <1>4
<1>5. CASE cmd' # cmd
  <2>1. Processor
    BY <1>5, ActionsOf DEF CallbackRest, CallbackRemove, RemoveCall, PostNoAnswer, Expire,
                           ClearCall
  <2>2. CASE AppendCall \/ PostNext \/ HandleTimer
    BY <1>3, <2>2 DEF AppendCall, PostNext, HandleTimer, AtStep, KnownSteps
  <2>3. CASE CheckOnline
    <3>1. cmd' = NoCommand \/ \E step \in {"find", "findOwn"} : cmd' = Command(step, message)
      BY <2>3 DEF CheckOnline, Go, message
    <3>2. cmd'.step \in {"find", "findOwn", "idle"}
      BY <3>1 DEF Command, NoCommand
    <3> QED  BY <1>1, <3>2 DEF KnownSteps, PostSteps
  <2>4. CASE FindCall
    <3>1. CASE message.call \in m_calls[Searched]
      <4>1. message.from \in Numbers /\ cmd.step # "idle"
        BY <2>4, CmdParts, WellTyped DEF FindCall
      <4>2. Searched \in Numbers
        BY <2>4, <4>1 DEF FindCall, IInv, CommandFits, Searched
      <4> QED  BY <1>3, <3>1, <4>2
    <3>2. CASE message.call \notin m_calls[Searched]
      <4>1. cmd' = NoCommand \/ cmd' = Command("retry", message)
        BY <2>4, <3>2 DEF FindCall, Go, message
      <4>2. cmd'.step \in {"retry", "idle"}
        BY <4>1 DEF Command, NoCommand
      <4> QED  BY <1>1, <4>2 DEF KnownSteps, PostSteps
    <3> QED  BY <3>1, <3>2
  <2>5. CASE MakeCall
    BY <1>3, <2>5
  <2> QED  BY <1>2, <1>5, <2>1, <2>2, <2>3, <2>4, <2>5 DEF Processor, Deliver
<1> QED  BY <1>4, <1>5
-----------------------------------------------------------------------------
(* The inductive invariant.                                                *)

LEMMA NothingBeforeKept ==
  ASSUME IInv, [Next]_vars
  PROVE  NothingBefore'
<1> SUFFICES ASSUME NEW u \in Calls, Unmade(u)'
             PROVE  /\ u \notin m_timers'
                    /\ callback' # NoCallback => callback'.call # u
                    /\ \A notice \in posted' : notice.call # u
                    /\ \A n \in Numbers : u \notin m_calls'[n]
                    /\ cmd'.step \in KnownSteps => message'.call # u
  BY DEF NothingBefore
<1>1. /\ u \notin m_timers
      /\ callback # NoCallback => callback.call # u
      /\ \A notice \in posted : notice.call # u
      /\ \A n \in Numbers : u \notin m_calls[n]
      /\ cmd.step \in KnownSteps => message.call # u
  BY MadeBefore DEF IInv, NothingBefore
<1>2. MakeCall => message.call # u
  BY NowMade
<1>3. u \notin m_timers'
  BY <1>1, <1>2, NewTimers
<1>4. callback' # NoCallback => callback'.call # u
  BY <1>1, NewCallbacks
<1>5. ASSUME NEW notice \in posted'
      PROVE  notice.call # u
  <2>1. PostNext => cmd.step \in KnownSteps
    BY DEF PostNext, KnownSteps
  <2>2. PostNoAnswer => callback # NoCallback
    BY CallbackParts, WellTyped DEF PostNoAnswer
  <2> QED  BY <1>1, <1>2, <2>1, <2>2, NewNotices
<1>6. ASSUME NEW n \in Numbers
      PROVE  u \notin m_calls'[n]
  BY <1>1, NewCalls DEF KnownSteps
<1>7. cmd'.step \in KnownSteps => message'.call # u
  BY <1>1, <1>2, NewlyKnown
<1> QED  BY <1>3, <1>4, <1>5, <1>6, <1>7

Ends == {"answered", "active", "released", "hangup"}

\* How a command comes to tell of an answer or an end.
LEMMA EndsBegin ==
  ASSUME IInv, [Next]_vars, cmd'.step \in Ends
  PROVE  /\ message' = message
         /\ \/ HandleTimer /\ StopTimer(message.call)
            \/ cmd.step \in Ends /\ ~MakeCall
<1>1. cmd'.step \in KnownSteps /\ cmd' # NoCommand
  BY DEF Ends, KnownSteps, PostSteps, NoCommand
<1>2. message' = message
  BY <1>1, NewlyKnown
<1>3. CASE Processor
  <2>1. CASE HandleTimer
    <3>1. ~Go("ringing")
      BY DEF Go, Command, Ends
    <3> QED  BY <1>2, <2>1, <3>1 DEF HandleTimer
  <2>2. CASE PostNext
    <3>1. CmdType /\ CommandFits /\ cmd.step \in PostSteps
      BY <2>2, WellTyped DEF PostNext, IInv
    <3>2. cmd'.step = Posts(cmd.step).next
      BY <1>1, <2>2 DEF PostNext, Command
    <3>3. cmd.step \in {"answered", "released"}
      BY <3>1, <3>2, PostsWhat DEF Ends
    <3> QED  BY <1>2, <3>3 DEF Ends, MakeCall, AtStep
  <2>3. CASE Deliver
    BY <1>2, <2>3 DEF Deliver, MakeCall, AtStep, Ends
  <2>4. ~MakeCall /\ ~AppendCall /\ ~CheckOnline /\ ~FindCall
    <3>1. ASSUME NEW step \in {"appendCall", "linking", "find", "findOwn", "retry", "timer"},
                 cmd' = Command(step, message)
          PROVE  FALSE
      BY <3>1 DEF Command, Ends
    <3> QED  BY <1>1, <3>1 DEF MakeCall, AppendCall, CheckOnline, FindCall, Go, message
  <2>5. ~Fetch
    <3>1. Fetch => cmd'.step \in Funcs
      BY Taken DEF Command, Messages, Funcs
    <3> QED  BY <1>1, <3>1, StepNames
  <2> QED  BY <1>3, <2>1, <2>2, <2>3, <2>4, <2>5 DEF Processor
<1>4. CASE ~Processor
  <2>1. cmd' = cmd
    BY <1>4, ActionsOf DEF CallbackRest, CallbackRemove, RemoveCall, PostNoAnswer, Expire,
                           ClearCall
  <2> QED  BY <1>2, <1>4, <2>1 DEF Processor
<1> QED  BY <1>3, <1>4

LEMMA RemovedKept ==
  ASSUME IInv, [Next]_vars
  PROVE  Removed'
<1>1. ASSUME callback'.step \in {"removeCall", "from", "to"}
      PROVE  callback'.call \notin m_timers'
  <2>1. callback' # NoCallback
    BY <1>1 DEF NoCallback
  <2>2. callback # NoCallback /\ callback'.call = callback.call
    BY <1>1, <2>1, NewCallbacks
  <2>3. MakeCall => message.call # callback.call
    BY <2>2, MakesItself DEF MakeCall, AtStep, IInv, NothingBefore
  <2>4. CASE callback.step \in {"removeCall", "from", "to"}
    BY <2>2, <2>3, <2>4, NewTimers DEF IInv, Removed
  <2>5. CASE callback.step \notin {"removeCall", "from", "to"}
    <3>1. CallbackRemove
      <4>1. callback' # callback
        BY <1>1, <2>5
      <4>2. CallbackRest
        <5>1. ~\E v \in Calls : Expire(v)
          BY <2>2, CallbackParts, WellTyped DEF Expire
        <5> QED
          BY <4>1, <5>1, ActionsOf
             DEF Processor, Fetch, Deliver, MakeCall, AppendCall, PostNext, CheckOnline,
                 FindCall, HandleTimer, ClearCall
      <4> QED  BY <2>5, <4>2 DEF CallbackRest, RemoveCall, PostNoAnswer
    <3> QED  BY <2>2, <3>1 DEF CallbackRemove
  <2> QED  BY <2>4, <2>5
<1>2. ASSUME cmd'.step \in Ends
      PROVE  message'.call \notin m_timers'
  <2>1. message' = message
    BY <1>2, EndsBegin
  <2>2. CASE HandleTimer /\ StopTimer(message.call)
    BY <2>1, <2>2 DEF StopTimer
  <2>3. CASE cmd.step \in Ends /\ ~MakeCall
    BY <2>1, <2>3, NewTimers DEF IInv, Removed, Ends
  <2> QED  BY <1>2, <2>2, <2>3, EndsBegin
<1> QED  BY <1>1, <1>2 DEF Removed, Ends

LEMMA SettledKept ==
  ASSUME IInv, [Next]_vars
  PROVE  SettledHasNoTimer'
<1> SUFFICES ASSUME NEW u \in Calls, NEW notice \in posted', notice.call = u,
                    notice.state \in {"ACTIVE", "HANGUP"}
             PROVE  u \notin m_timers'
  BY DEF SettledHasNoTimer, Posted
<1>1. CASE notice \in posted
  <2>1. u \notin m_timers
    BY <1>1 DEF IInv, SettledHasNoTimer, Posted
  <2>2. MakeCall => message.call # u
    BY <1>1, MakesItself DEF MakeCall, AtStep, IInv, NothingBefore
  <2> QED  BY <2>1, <2>2, NewTimers
<1>2. CASE notice \notin posted
  <2>1. PostNext /\ u = message.call /\ Posts(cmd.step).state \in {"ACTIVE", "HANGUP"}
    BY <1>2, NewNotices DEF Refusals
  <2>2. CmdType /\ CommandFits /\ cmd.step \in PostSteps
    BY <2>1, WellTyped DEF PostNext, IInv
  <2>3. cmd.step \in Ends
    BY <2>1, <2>2, PostsWhat DEF Ends
  <2> QED  BY <2>1, <2>3 DEF PostNext, IInv, Removed, Ends
<1> QED  BY <1>1, <1>2

\* How a command comes to append a call.
LEMMA AppendBegins ==
  ASSUME IInv, [Next]_vars, cmd'.step = "appendCall"
  PROVE  /\ message' = message
         /\ \/ MakeCall
            \/ cmd' = cmd /\ cmd.step = "appendCall"
<1>1. cmd'.step \in KnownSteps /\ cmd' # NoCommand
  BY DEF KnownSteps, NoCommand
<1>2. message' = message
  BY <1>1, NewlyKnown
<1>3. CASE Processor /\ ~MakeCall
  <2>1. CASE PostNext
    <3>1. CmdType /\ CommandFits /\ cmd.step \in PostSteps
      BY <2>1, WellTyped DEF PostNext, IInv
    <3>2. cmd'.step = Posts(cmd.step).next
      BY <1>1, <2>1 DEF PostNext, Command
    <3> QED  BY <3>1, <3>2, PostsWhat
  <2>2. CASE Deliver
    BY <1>2, <2>2 DEF Deliver
  <2>3. ~AppendCall /\ ~CheckOnline /\ ~FindCall /\ ~HandleTimer
    <3>1. ASSUME NEW step \in {"linking", "find", "findOwn", "retry", "timer", "ringing",
                               "answered", "released"},
                 cmd' = Command(step, message)
          PROVE  FALSE
      BY <3>1 DEF Command
    <3> QED  BY <1>1, <3>1 DEF AppendCall, CheckOnline, FindCall, HandleTimer, Go, message
  <2>4. ~Fetch
    <3>1. Fetch => cmd'.step \in Funcs
      BY Taken DEF Command, Messages, Funcs
    <3> QED  BY <1>1, <3>1, StepNames
  <2> QED  BY <1>3, <2>1, <2>2, <2>3, <2>4 DEF Processor
<1>4. CASE ~Processor
  <2>1. cmd' = cmd
    BY <1>4, ActionsOf DEF CallbackRest, CallbackRemove, RemoveCall, PostNoAnswer, Expire,
                           ClearCall
  <2> QED  BY <1>2, <2>1
<1> QED  BY <1>2, <1>3, <1>4

\* How a callback comes to tell that nobody answers.
LEMMA TellingBegins ==
  ASSUME IInv, [Next]_vars, callback'.step \in {"from", "to"}
  PROVE  /\ callback # NoCallback /\ callback'.call = callback.call
         /\ RemoveCall \/ callback.step \in {"from", "to"}
<1>1. callback' # NoCallback
  BY DEF NoCallback
<1>2. callback # NoCallback /\ callback'.call = callback.call
  BY <1>1, NewCallbacks
<1>3. CASE callback' # callback
  <2>1. ~\E v \in Calls : Expire(v)
    BY <1>2, CallbackParts, WellTyped DEF Expire
  <2>2. CallbackRest
    BY <1>3, <2>1, ActionsOf
       DEF Processor, Fetch, Deliver, MakeCall, AppendCall, PostNext, CheckOnline, FindCall,
           HandleTimer, ClearCall
  <2>3. ~CallbackRemove
    BY DEF CallbackRemove, ToStep, Callback
  <2> QED  BY <1>2, <2>2, <2>3 DEF CallbackRest, PostNoAnswer
<1> QED  BY <1>2, <1>3

LEMMA ExpiredKept ==
  ASSUME IInv, [Next]_vars
  PROVE  ExpiredIsGone'
<1>1. ASSUME cmd'.step = "appendCall"
      PROVE  /\ callback' # NoCallback => callback'.call # message'.call
             /\ \A notice \in posted' :
                  notice.call = message'.call => notice.state # "NO_ANSWER"
  <2>1. message' = message
    BY <1>1, AppendBegins
  <2> DEFINE u == message.call
  <2>2. CASE MakeCall
    <3>1. /\ callback # NoCallback => callback.call # u
          /\ \A notice \in posted : notice.call # u
      BY <2>2, MakesItself DEF MakeCall, AtStep, IInv, NothingBefore
    <3>2. callback' = callback
      BY <2>2 DEF MakeCall
    <3>3. ASSUME NEW notice \in posted'
          PROVE  notice.call # u \/ notice.state # "NO_ANSWER"
      <4>1. ~PostNext /\ ~PostNoAnswer
        BY <2>2, <3>2, CallbackParts, WellTyped
           DEF MakeCall, AtStep, PostNext, PostSteps, PostNoAnswer, Callback, NoCallback
      <4> QED  BY <3>1, <4>1, NewNotices DEF Refusals
    <3> QED  BY <2>1, <3>1, <3>2, <3>3
  <2>3. CASE cmd' = cmd /\ cmd.step = "appendCall"
    <3>1. (callback # NoCallback => callback.call # u) /\ ~Posted(u, {"NO_ANSWER"})
      BY <2>3 DEF IInv, ExpiredIsGone
    <3>2. callback' # NoCallback => callback'.call # u
      <4>1. CASE callback = NoCallback /\ callback' # NoCallback
        <5>1. PICK v \in Calls : Expire(v)
          BY <4>1, ActionsOf, CallbackParts, WellTyped
             DEF Processor, Fetch, Deliver, MakeCall, AppendCall, PostNext, CheckOnline,
                 FindCall, HandleTimer, ClearCall, CallbackRest, CallbackRemove, RemoveCall,
                 PostNoAnswer
        <5> QED  BY <2>3, <5>1 DEF Expire, Callback
      <4>2. CASE callback # NoCallback
        BY <3>1, <4>2, NewCallbacks
      <4> QED  BY <4>1, <4>2
    <3>3. ASSUME NEW notice \in posted', notice.call = u, notice.state = "NO_ANSWER"
          PROVE  FALSE
      <4>1. notice \notin posted
        BY <3>1, <3>3 DEF Posted
      <4>2. PostNoAnswer /\ u = callback.call
        <5>1. ~MakeCall /\ ~PostNext
          BY <2>3 DEF MakeCall, AtStep, PostNext, PostSteps
        <5> QED  BY <3>3, <4>1, <5>1, NewNotices
      <4> QED  BY <3>1, <4>2, CallbackParts, WellTyped DEF PostNoAnswer
    <3> QED  BY <2>1, <3>2, <3>3
  <2> QED  BY <1>1, <2>2, <2>3, AppendBegins
<1>2. ASSUME callback'.step \in {"from", "to"}, NEW n \in Numbers
      PROVE  callback'.call \notin m_calls'[n]
  <2> DEFINE u == callback.call
  <2>1. callback # NoCallback /\ callback'.call = u
    BY <1>2, TellingBegins
  <2>2. CASE RemoveCall
    <3>1. u \in Possible
      BY <2>1, CallbackParts, WellTyped
    <3>2. Callee[u] \in Numbers
      BY <3>1, Parties2
    <3>3. m_calls \in [Numbers -> SUBSET Possible] /\ \A v \in m_calls[n] : Callee[v] = n
      BY DEF IInv, TypeOK
    <3> QED  BY <2>1, <2>2, <3>2, <3>3 DEF RemoveCall, Holder
  <2>3. CASE callback.step \in {"from", "to"}
    <3>1. u \notin m_calls[n]
      BY <2>3 DEF IInv, ExpiredIsGone
    <3>2. cmd.step = "appendCall" => message.call # u
      BY <2>1 DEF IInv, ExpiredIsGone
    <3> QED  BY <2>1, <3>1, <3>2, NewCalls
  <2> QED  BY <1>2, <2>2, <2>3, TellingBegins
<1>3. ASSUME NEW u \in Calls, Posted(u, {"NO_ANSWER"})', NEW n \in Numbers
      PROVE  u \notin m_calls'[n]
  <2> PICK notice \in posted' : notice.call = u /\ notice.state = "NO_ANSWER"
    BY <1>3 DEF Posted
  <2>1. CASE notice \in posted
    <3>1. Posted(u, {"NO_ANSWER"})
      BY <1>3, <2>1 DEF Posted
    <3>2. u \notin m_calls[n] /\ (cmd.step = "appendCall" => message.call # u)
      BY <3>1 DEF IInv, ExpiredIsGone
    <3> QED  BY <3>2, NewCalls
  <2>2. CASE notice \notin posted
    <3>1. CmdType /\ CommandFits
      BY WellTyped DEF IInv
    <3>2. PostNoAnswer /\ u = callback.call
      <4>1. PostNext => Posts(cmd.step).state # "NO_ANSWER"
        BY DEF PostNext, PostSteps, Posts
      <4> QED  BY <1>3, <2>2, <4>1, NewNotices DEF Refusals
    <3>3. callback.step \in {"from", "to"} /\ m_calls' = m_calls
      BY <3>2 DEF PostNoAnswer
    <3> QED  BY <3>2, <3>3 DEF IInv, ExpiredIsGone
  <2> QED  BY <2>1, <2>2
<1>4. cmd'.step = "appendCall" => ~Posted(message.call, {"NO_ANSWER"})'
  BY <1>1 DEF Posted
<1> QED  BY <1>1, <1>2, <1>3, <1>4 DEF ExpiredIsGone

LEMMA CallsKept ==
  ASSUME IInv, [Next]_vars
  PROVE  TimersHaveCalls'
<1> SUFFICES ASSUME NEW u \in m_timers'
             PROVE  u \in m_calls'[Callee[u]] \/ (cmd'.step = "appendCall" /\ message'.call = u)
  BY DEF TimersHaveCalls, AtStep
<1>1. /\ m_calls \in [Numbers -> SUBSET Possible]
      /\ \A n \in Numbers : \A v \in m_calls[n] : Callee[v] = n
      /\ m_timers \subseteq Possible
  BY DEF IInv, TypeOK
<1>2. u \in m_timers => /\ Callee[u] \in Numbers
                        /\ \/ u \in m_calls[Callee[u]]
                           \/ cmd.step = "appendCall" /\ message.call = u
  BY <1>1, Parties2 DEF IInv, TimersHaveCalls, AtStep
<1>3. CASE MakeCall
  <2>1. CASE u \in m_timers
    BY <1>2, <1>3, <2>1 DEF MakeCall, AtStep
  <2>2. CASE u \notin m_timers
    <3>1. u = message.call /\ Go("appendCall")
      BY <1>3, <2>2 DEF MakeCall
    <3> QED  BY <3>1 DEF Go, Command, message
  <2> QED  BY <2>1, <2>2
<1>4. CASE AppendCall
  <2>1. u \in m_timers /\ Callee[u] \in Numbers
    BY <1>2, <1>4 DEF AppendCall
  <2> QED  BY <1>1, <1>2, <1>4, <2>1 DEF AppendCall, Holder
<1>5. CASE RemoveCall
  <2>1. u \in m_timers /\ u # callback.call /\ UNCHANGED cmd
    BY <1>5 DEF RemoveCall, IInv, Removed
  <2> QED  BY <1>1, <1>2, <1>5, <2>1 DEF RemoveCall, message
<1>6. ASSUME NEW v \in Calls, ClearCall(v)
      PROVE  u \in m_calls'[Callee[u]] \/ (cmd'.step = "appendCall" /\ message'.call = u)
  <2>1. u \in m_timers /\ u # v /\ UNCHANGED cmd
    BY <1>6 DEF ClearCall, Clear
  <2> QED  BY <1>1, <1>2, <1>6, <2>1 DEF ClearCall, Clear, message
<1>7. CASE ~MakeCall /\ ~AppendCall /\ ~RemoveCall /\ ~\E v \in Calls : ClearCall(v)
  <2>1. u \in m_timers
    BY <1>7, NewTimers
  <2>2. m_calls' = m_calls
    BY <1>7, ActionsOf
       DEF Processor, Fetch, Deliver, PostNext, CheckOnline, FindCall, HandleTimer,
           CallbackRest, CallbackRemove, PostNoAnswer, Expire
  <2>3. cmd.step = "appendCall" => cmd' = cmd
    BY <1>7, ActionsOf
       DEF Processor, Fetch, Deliver, PostNext, PostSteps, CheckOnline, FindCall, HandleTimer,
           AtStep, CallbackRest, CallbackRemove, PostNoAnswer, Expire
  <2> QED  BY <1>2, <2>1, <2>2, <2>3 DEF message
<1> QED  BY <1>3, <1>4, <1>5, <1>6, <1>7

LEMMA Initially == Init => IInv
<1> SUFFICES ASSUME Init
             PROVE  IInv
  OBVIOUS
<1>1. cmd.step = "idle" /\ callback.step = "idle" /\ cmd = NoCommand /\ callback = NoCallback
  BY DEF Init, NoCommand, NoCallback
<1>2. TypeOK /\ CommandFits
  BY InitTyped DEF TypedFits
<1>3. DialsOnly /\ RequestsOnce
  BY <1>1 DEF Init, DialsOnly, RequestsOnce
<1>4. NothingBefore
  BY <1>1, StepNames DEF Init, NothingBefore, KnownSteps, PostSteps
<1>5. Removed /\ SettledHasNoTimer /\ TimersHaveCalls /\ ExpiredIsGone
  BY <1>1 DEF Init, Removed, SettledHasNoTimer, Posted, TimersHaveCalls, ExpiredIsGone
<1> QED  BY <1>2, <1>3, <1>4, <1>5 DEF IInv

LEMMA Invariant == SafeSpec => []IInv
<1>1. IInv /\ [Next]_vars => IInv'
  BY StepTyped, RequestsKept, NothingBeforeKept, RemovedKept, SettledKept, CallsKept,
     ExpiredKept
     DEF IInv, TypedFits
<1> QED  BY Initially, <1>1, PTL DEF SafeSpec

\* An answer timer that is waiting has a call in the table of the callee, or
\* MakeCall is about to put it there.
THEOREM TimersHaveTheirCalls == SafeSpec => []TimersHaveCalls
<1>1. IInv => TimersHaveCalls
  BY DEF IInv
<1> QED  BY <1>1, Invariant, PTL

\* A callback begins only for a call not announced as answered or ended.
LEMMA SettledBegins ==
  ASSUME IInv, [Next]_vars, NEW u \in Calls, Begins(u)
  PROVE  ~Posted(u, {"ACTIVE", "HANGUP"})
<1>1. callback' # NoCallback /\ callback'.call = u /\ callback'.step = "remove"
  BY DEF Begins, Callback, NoCallback
<1>2. CASE u \in m_timers
  BY <1>2 DEF IInv, SettledHasNoTimer
<1>3. CASE callback # NoCallback
  <2>1. ~\E v \in Calls : Expire(v)
    BY <1>3, CallbackParts, WellTyped DEF Expire
  <2>2. CallbackRest
    BY <2>1, ActionsOf
       DEF Begins, Processor, Fetch, Deliver, MakeCall, AppendCall, PostNext, CheckOnline,
           FindCall, HandleTimer, ClearCall
  <2>3. \/ callback' = NoCallback
        \/ \E step \in {"removeCall", "from", "to"} : callback' = Callback(step, callback.call)
    BY <2>2 DEF CallbackRest, CallbackRemove, RemoveCall, PostNoAnswer, ToStep
  <2> QED  BY <1>1, <2>3 DEF Callback
<1> QED  BY <1>1, <1>2, <1>3, NewCallbacks

\* A command finds only a call not announced as unanswered.
LEMMA ExpiredIsNotFound ==
  ASSUME IInv, [Next]_vars, NEW u \in Calls, Finds(u)
  PROVE  ~Posted(u, {"NO_ANSWER"})
<1>1. cmd.step \in {"find", "findOwn"} /\ cmd'.step = "timer" /\ message.call = u
  BY DEF Finds
<1>2. cmd.step \notin KnownSteps /\ cmd'.step \in KnownSteps /\ ~MakeCall
  BY <1>1, StepNames DEF KnownSteps, MakeCall, AtStep
<1>3. \E n \in Numbers : u \in m_calls[n]
  BY <1>1, <1>2, NewlyKnown
<1> QED  BY <1>3 DEF IInv, ExpiredIsGone

\* No callback begins once a call is announced as answered or ended, and no command
\* finds a call whose callback has announced that nobody answers (AnswerCall,
\* HangupCall and the callback of MakeCall in cmdcall.cpp).  That only one of the two
\* is told does not follow, and does not hold: a command and a callback may overlap.
THEOREM OnlyOverlapsContradict == SafeSpec => SettledOrExpired
<1>1. IInv /\ [Next]_vars =>
        [\A u \in Calls : /\ Begins(u) => ~Posted(u, {"ACTIVE", "HANGUP"})
                          /\ Finds(u) => ~Posted(u, {"NO_ANSWER"})]_vars
  BY SettledBegins, ExpiredIsNotFound
<1> QED  BY <1>1, Invariant, PTL DEF SafeSpec, SettledOrExpired
-----------------------------------------------------------------------------
(***************************************************************************)
(* The commands, the callback and the logouts use the timers as            *)
(* AnswerTimer has it: MakeCall arms, Expire fires, the last notice of the *)
(* callback finishes, and what removes a timer that waits disarms.         *)
(***************************************************************************)
Armed == {u \in m_timers : callback = NoCallback \/ callback.call # u}
Firing == {u \in Calls : callback # NoCallback /\ callback.call = u}
Starting(u) == cmd.step \in {"appendCall", "linking"} /\ message.call = u
Spent == {u \in Calls : Posted(u, {"LINKING"}) \/ Starting(u)}

LEMMA InitAnswerTimers == Init => AnswerTimers!Init
  BY DEF Init, AnswerTimers!Init, Posted, NoCommand

\* Before MakeCall a call is not spent, afterwards it is, and nothing else changes
\* which are.
LEMMA SpentChanges ==
  ASSUME IInv, [Next]_vars
  PROVE  /\ ~(MakeCall /\ CanCall(message.call)) => Spent' = Spent
         /\ MakeCall /\ CanCall(message.call) =>
              message.call \notin Spent /\ Spent' = Spent \cup {message.call}
<1>1. CASE MakeCall /\ CanCall(message.call)
  <2> DEFINE u == message.call
  <2>1. cmd.step = "MAKE_CALL" /\ u \in Calls /\ \A notice \in posted : notice.call # u
    BY <1>1, MakesItself DEF MakeCall, AtStep, IInv, NothingBefore
  <2>2. cmd'.step = "appendCall" /\ message' = message /\ posted' = posted
    BY <1>1 DEF MakeCall, Go, Command, message
  <2>3. \A v : ~Starting(v) /\ (Starting(v)' <=> v = u)
    BY <2>1, <2>2 DEF Starting
  <2>4. \A v, states : Posted(v, states)' <=> Posted(v, states)
    BY <2>2 DEF Posted
  <2>5. ~Posted(u, {"LINKING"})
    BY <2>1 DEF Posted
  <2>6. u \notin Spent /\ Spent' = Spent \cup {u}
    BY <2>1, <2>3, <2>4, <2>5 DEF Spent
  <2> QED  BY <1>1, <2>6
<1>2. CASE ~(MakeCall /\ CanCall(message.call))
  <2>1. CASE PostNext
    <3> DEFINE post == Posts(cmd.step)
    <3>1. CmdType /\ CommandFits /\ cmd.step \in PostSteps /\ cmd.step # "idle"
      BY <2>1, WellTyped DEF PostNext, PostSteps, IInv
    <3>2. /\ post.state = "LINKING" <=> cmd.step = "linking"
          /\ post.next \in {"idle", "incoming", "active", "hangup"}
      BY <3>1, PostsWhat
    <3>3. posted' = posted \cup {Notice(post.state, message.call, post.to)}
          /\ (cmd' = NoCommand \/ cmd' = Command(post.next, message))
      BY <2>1 DEF PostNext, Post
    <3> HIDE DEF post
    <3>4. \A v : ~Starting(v)'
      BY <3>2, <3>3 DEF Starting, Command, NoCommand
    <3>5. \A v : Starting(v) <=> cmd.step = "linking" /\ message.call = v
      BY <3>1 DEF Starting, PostSteps
    <3> DEFINE new == Notice(post.state, message.call, post.to)
    <3>6. ASSUME NEW v
          PROVE  Posted(v, {"LINKING"})' <=>
                   (Posted(v, {"LINKING"}) \/ (post.state = "LINKING" /\ message.call = v))
      <4>1. new.state = post.state /\ new.call = message.call
        BY DEF Notice
      <4>2. posted' = posted \cup {new}
        BY <3>3
      <4> HIDE DEF new
      <4> QED  BY <4>1, <4>2 DEF Posted
    <3> QED  BY <1>2, <3>2, <3>4, <3>5, <3>6 DEF Spent
  <2>2. CASE ~PostNext
    <3>1. \A notice \in posted' : notice \in posted \/ notice.state # "LINKING"
      BY <2>2, NewNotices DEF Refusals
    <3>2. posted \subseteq posted'
      BY ActionsOf
         DEF Processor, Fetch, Deliver, MakeCall, AppendCall, PostNext, CheckOnline, FindCall,
             HandleTimer, CallbackRest, CallbackRemove, RemoveCall, PostNoAnswer, Expire,
             ClearCall, Post
    <3>3. \A v : Posted(v, {"LINKING"})' <=> Posted(v, {"LINKING"})
      BY <3>1, <3>2 DEF Posted
    <3>4. \A v : Starting(v)' <=> Starting(v)
      <4>1. CASE cmd' = cmd
        BY <4>1 DEF Starting, message
      <4>2. CASE AppendCall
        BY <4>2 DEF AppendCall, AtStep, Go, Command, Starting, message
      <4>3. CASE cmd' # cmd /\ ~AppendCall
        <5>1. Processor
          BY <4>3, ActionsOf DEF CallbackRest, CallbackRemove, RemoveCall, PostNoAnswer, Expire,
                                 ClearCall
        <5>2. Fetch \/ MakeCall \/ CheckOnline \/ FindCall \/ HandleTimer
          BY <2>2, <4>3, <5>1 DEF Processor, Deliver
        <5>3. cmd.step \notin {"appendCall", "linking"}
          BY <5>2 DEF Fetch, MakeCall, CheckOnline, FindCall, HandleTimer, AtStep
        <5>4. cmd'.step \notin {"appendCall", "linking"}
          <6>1. CASE Fetch
            BY <6>1, Taken DEF Command, Messages, Funcs
          <6>2. CASE ~Fetch
            <7>1. cmd' = NoCommand \/ \E step \in {"find", "findOwn", "retry", "timer", "ringing",
                                                 "answered", "released"} :
                                       cmd' = Command(step, message)
              BY <1>2, <5>2, <6>2
                 DEF MakeCall, CheckOnline, FindCall, HandleTimer, Go, message
            <7> QED  BY <7>1 DEF Command, NoCommand
          <6> QED  BY <6>1, <6>2
        <5> QED  BY <5>3, <5>4 DEF Starting
      <4> QED  BY <4>1, <4>2, <4>3
    <3> QED  BY <1>2, <3>3, <3>4 DEF Spent
  <2> QED  BY <2>1, <2>2
<1> QED  BY <1>1, <1>2

LEMMA TimersChange ==
  ASSUME Firing' = Firing, Spent' = Spent, crashed' = crashed,
         Armed' = Armed \/ \E u \in Calls : u \in Armed /\ Armed' = Armed \ {u}
  PROVE  [AnswerTimers!Next]_(AnswerTimers!vars)
<1>1. CASE Armed' = Armed
  BY <1>1 DEF AnswerTimers!vars, Armed, Firing, Spent, Starting
<1>2. ASSUME NEW u \in Calls, u \in Armed, Armed' = Armed \ {u}
      PROVE  AnswerTimers!Next
  <2>1. AnswerTimers!Disarm(u)
    BY <1>2 DEF AnswerTimers!Disarm, Armed, Firing, Spent, Starting
  <2> QED  BY <2>1 DEF AnswerTimers!Next
<1> QED  BY <1>1, <1>2

LEMMA StepAnswerTimers ==
  ASSUME IInv, [Next]_vars
  PROVE  [AnswerTimers!Next]_(AnswerTimers!vars)
<1>1. m_timers \subseteq Calls /\ CallbackType
  BY Parties2, WellTyped DEF IInv, TypeOK
<1>2. CASE crashed' # crashed
  <2>1. /\ crashed = FALSE /\ crashed' = TRUE
        /\ UNCHANGED <<m_timers, callback, posted, cmd>>
    BY <1>2 DEF Next, Runs, Crash, vars, IInv, TypeOK
  <2>2. Armed' = Armed /\ Firing' = Firing /\ Spent' = Spent
    BY <2>1 DEF Armed, Firing, Spent, Starting, Posted, message
  <2>3. AnswerTimers!Close
    BY <2>1, <2>2 DEF AnswerTimers!Close, Armed, Firing, Spent, Starting
  <2> QED  BY <2>3 DEF AnswerTimers!Next
<1>3. CASE crashed' = crashed /\ MakeCall /\ CanCall(message.call)
  <2>1. PICK u \in Calls : /\ u = message.call /\ u \notin Spent /\ Spent' = Spent \cup {u}
                           /\ callback # NoCallback => callback.call # u
    <3>1. message.call \in Calls /\ Unmade(message.call)
      BY <1>3, MakesItself DEF MakeCall, AtStep
    <3>2. callback # NoCallback => callback.call # message.call
      BY <3>1 DEF IInv, NothingBefore
    <3>3. message.call \notin Spent /\ Spent' = Spent \cup {message.call}
      BY <1>3, <3>1, SpentChanges
    <3> QED  BY <3>1, <3>2, <3>3
  <2>2. m_timers' = m_timers \cup {u} /\ callback' = callback
    BY <1>3, <2>1 DEF MakeCall
  <2>3. Armed' = Armed \cup {u} /\ Firing' = Firing
    BY <2>1, <2>2 DEF Armed, Firing
  <2>4. AnswerTimers!Arm(u)
    BY <1>3, <2>1, <2>3 DEF AnswerTimers!Arm, Armed, Firing, Spent, Starting
  <2> QED  BY <2>4 DEF AnswerTimers!Next
<1>4. ASSUME crashed' = crashed, NEW u \in Calls, Expire(u)
      PROVE  AnswerTimers!Next
  <2>1. /\ callback = NoCallback /\ u \in m_timers /\ m_timers' = m_timers
        /\ callback' # NoCallback /\ callback'.call = u
    BY <1>1, <1>4, CallbackParts DEF Expire, Callback, NoCallback
  <2>2. ~crashed
    BY <1>4, <2>1 DEF Next, Runs, vars
  <2>3. u \in Armed /\ Armed' = Armed \ {u} /\ Firing' = Firing \cup {u}
    BY <2>1 DEF Armed, Firing
  <2>4. Spent' = Spent
    BY <1>4, SpentChanges DEF Expire, MakeCall, Go, Command, AtStep
  <2>5. AnswerTimers!Fire(u)
    BY <1>4, <2>2, <2>3, <2>4 DEF AnswerTimers!Fire, Armed, Firing, Spent, Starting
  <2> QED  BY <2>5 DEF AnswerTimers!Next
<1>5. CASE crashed' = crashed /\ CallbackRest
  <2>1. PICK u \in Calls : u = callback.call /\ callback # NoCallback
    BY <1>1, <1>5, CallbackParts, Parties2
       DEF CallbackRest, CallbackRemove, RemoveCall, PostNoAnswer
  <2>2. Spent' = Spent
    BY <1>5, SpentChanges
       DEF CallbackRest, CallbackRemove, RemoveCall, PostNoAnswer, MakeCall, Go, Command, AtStep
  <2>3. CASE callback' # NoCallback
    <3>1. callback'.call = u /\ m_timers' \in {m_timers, m_timers \ {u}}
      BY <1>5, <2>1, <2>3
         DEF CallbackRest, CallbackRemove, RemoveCall, PostNoAnswer, ToStep, Callback
    <3>2. Armed' = Armed /\ Firing' = Firing
      BY <2>1, <2>3, <3>1 DEF Armed, Firing
    <3> QED  BY <1>5, <2>2, <3>2, TimersChange
  <2>4. CASE callback' = NoCallback
    <3>1. callback.step = "to" /\ m_timers' = m_timers
      BY <1>5, <2>4
         DEF CallbackRest, CallbackRemove, RemoveCall, PostNoAnswer, ToStep, Callback, NoCallback
    <3>2. u \notin m_timers
      BY <2>1, <3>1 DEF IInv, Removed
    <3>3. Armed' = Armed /\ u \in Firing /\ Firing' = Firing \ {u}
      BY <2>1, <2>4, <3>1, <3>2 DEF Armed, Firing
    <3>4. AnswerTimers!Finish(u)
      BY <1>5, <2>2, <3>3 DEF AnswerTimers!Finish, Armed, Firing, Spent, Starting
    <3> QED  BY <3>4 DEF AnswerTimers!Next
  <2> QED  BY <2>3, <2>4
<1>6. ASSUME crashed' = crashed, ~(MakeCall /\ CanCall(message.call)),
             UNCHANGED callback,
             m_timers' = m_timers \/ \E u \in Calls : m_timers' = m_timers \ {u}
      PROVE  [AnswerTimers!Next]_(AnswerTimers!vars)
  <2>1. Spent' = Spent /\ Firing' = Firing
    BY <1>6, SpentChanges DEF Firing
  <2>2. Armed' = Armed \/ \E u \in Calls : u \in Armed /\ Armed' = Armed \ {u}
    BY <1>6 DEF Armed
  <2> QED  BY <1>6, <2>1, <2>2, TimersChange
<1>7. CASE Processor /\ ~(MakeCall /\ CanCall(message.call))
  <2>1. CASE HandleTimer
    <3>1. message.call \in Calls
      BY <2>1, CmdParts, WellTyped DEF HandleTimer, AtStep
    <3> QED
      BY <1>2, <1>6, <1>7, <2>1, <3>1 DEF HandleTimer, StopTimer, ResetTimer
  <2>2. CASE ~HandleTimer
    BY <1>2, <1>6, <1>7, <2>2
       DEF Processor, Fetch, Deliver, MakeCall, AppendCall, PostNext, CheckOnline, FindCall
  <2> QED  BY <2>1, <2>2
<1>8. CASE \E u \in Calls : ClearCall(u)
  BY <1>2, <1>6, <1>8 DEF ClearCall, Clear, MakeCall, Go, Command, AtStep
<1>9. CASE UNCHANGED <<m_calls, m_timers, cmd, callback, posted>>
  <2>1. ~(MakeCall /\ CanCall(message.call))
    BY <1>9 DEF MakeCall, Go, Command, AtStep
  <2> QED  BY <1>2, <1>6, <1>9, <2>1
<1> QED  BY <1>2, <1>3, <1>4, <1>5, <1>7, <1>8, <1>9, ActionsOf

\* The timers of the calls are used as AnswerTimer has it: armed once, by MakeCall,
\* fired at most once, and not after a command or a logout has removed them, nor
\* brought back by RECV_CALL.
THEOREM UsesAnswerTimers == SafeSpec => AnswerTimers!SafeSpec
  BY InitAnswerTimers, Invariant, StepAnswerTimers, PTL DEF SafeSpec, AnswerTimers!SafeSpec
=============================================================================
