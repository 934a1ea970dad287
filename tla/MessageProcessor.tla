-------------------------- MODULE MessageProcessor --------------------------
(***************************************************************************)
(* class MessageProcessor of source/processor.cpp: two deques under one    *)
(* mutex, a condition variable, and the thread that runs process().        *)
(*                                                                         *)
(* Three kinds of thread use it.  The network thread appends what the      *)
(* terminals send (Session::do_receive).  The timer thread appends the     *)
(* notices of an expired call (the callback MakeCall installs).  The       *)
(* processor thread takes a received message, runs its command, which may  *)
(* append answers, then takes a posted message and gives it to the server. *)
(* The main thread destroys the singleton: quit() and join().              *)
(*                                                                         *)
(* A critical section is one step, because nothing it reads is written     *)
(* outside the mutex, with one exception: m_quit.  So the wait of fetch()  *)
(* is split where the code can be interrupted by quit(), between a         *)
(* predicate found false and the release of the mutex that puts the thread *)
(* to sleep.  The mutex is visibly held only there (pc = "block").         *)
(***************************************************************************)
EXTENDS Naturals, Sequences

CONSTANTS Incoming,       \* messages a terminal can send
          ValidIncoming,  \* those whose Message::valid() is true
          Outgoing,       \* messages the station builds (always valid)
          MaxReceived,    \* bound on messages received
          MaxPosted       \* bound on messages posted

ASSUME ConstantsAssumption == /\ ValidIncoming \subseteq Incoming
                              /\ MaxReceived \in Nat
                              /\ MaxPosted \in Nat

VARIABLES m_recv,     \* deque of messages received and not yet fetched
          m_send,     \* deque of messages posted and not yet fetched
          pc,         \* where the processor thread is in process()
          want,       \* the type its current or next fetch asks for
          message,    \* the messages its local variable holds: none or one
          todo,       \* the messages its command still has to append
          owner,      \* the main thread: running, or destroying the processor
          received,   \* history of what the network thread appended
          consumed,   \* history of the received messages it is done with
          posted,     \* history of what was appended as Send
          delivered   \* history of what Server::send was called with

vars == <<m_recv, m_send, pc, want, message, todo, owner,
          received, consumed, posted, delivered>>

history == <<received, consumed, posted, delivered>>

\* The answers a command can append: none (a refusal that is only logged), one
\* or two (one for each party of a call).
Replies == {<<>>} \cup {<<a>> : a \in Outgoing}
                  \cup {<<a, b>> : a \in Outgoing, b \in Outgoing}

Init == /\ m_recv = <<>>
        /\ m_send = <<>>
        /\ pc = "loop"
        /\ want = "Recv"
        /\ message = <<>>
        /\ todo = <<>>
        /\ owner = "running"
        /\ received = <<>>
        /\ consumed = <<>>
        /\ posted = <<>>
        /\ delivered = <<>>

\* m_quit is set by the first statement of quit().
m_quit == owner # "running"

MutexFree == pc # "block"

\* As it would be if each fetch waited for its own deque only.
WaitPredicateOfOneDeque == \/ want = "Recv" /\ m_recv # <<>>
                           \/ want = "Send" /\ m_send # <<>>
                           \/ m_quit

WaitPredicate == m_recv # <<>> \/ m_send # <<>> \/ m_quit

\* As it would be if append did not notify.
AwakenedByNobody == pc

\* m_condition.notify_one() or notify_all(): only the processor thread waits.
Awakened == IF pc = "asleep" THEN "fetch" ELSE pc

\* As it would be if process() did not test message->valid().
ValidUntested(m) == TRUE

Valid(m) == m \in ValidIncoming
-----------------------------------------------------------------------------
(* append(Type, message), called by the three threads that append.         *)

PushRecv(m) == /\ m_recv' = Append(m_recv, m)
               /\ received' = Append(received, m)

\* As it would be with push_front for push_back.
PushSendInFront(m) == /\ m_send' = <<m>> \o m_send
                      /\ posted' = Append(posted, m)

PushSend(m) == /\ m_send' = Append(m_send, m)
               /\ posted' = Append(posted, m)

\* The network thread appends a message it has read.  Both appending threads
\* have been joined when the main thread destroys the processor.
Receive(m) == /\ owner = "running"
              /\ Len(received) < MaxReceived
              /\ MutexFree
              /\ PushRecv(m)
              /\ pc' = Awakened
              /\ UNCHANGED <<m_send, want, message, todo, owner,
                             consumed, posted, delivered>>

\* The timer thread appends a notice.
PostNotice(m) == /\ owner = "running"
                 /\ Len(posted) + Len(todo) < MaxPosted
                 /\ MutexFree
                 /\ PushSend(m)
                 /\ pc' = Awakened
                 /\ UNCHANGED <<m_recv, want, message, todo, owner,
                                received, consumed, delivered>>
-----------------------------------------------------------------------------
(* process() and fetch(Type) on the processor thread.                      *)

Loop == /\ pc = "loop"
        /\ pc' = IF m_quit THEN "clean" ELSE "fetch"
        /\ want' = "Recv"
        /\ UNCHANGED <<m_recv, m_send, message, todo, owner, history>>

\* The predicate is false: the thread is about to wait, with the mutex held.
FetchNothing == /\ pc = "fetch"
                /\ ~WaitPredicate
                /\ pc' = "block"
                /\ UNCHANGED <<m_recv, m_send, want, message, todo, owner, history>>

Block == /\ pc = "block"
         /\ pc' = "asleep"
         /\ UNCHANGED <<m_recv, m_send, want, message, todo, owner, history>>

SpuriousWakeup == /\ pc = "asleep"
                  /\ pc' = "fetch"
                  /\ UNCHANGED <<m_recv, m_send, want, message, todo, owner, history>>

\* fetch(Recv) returns; a message that is not valid is dropped here.
FetchRecv ==
    /\ pc = "fetch"
    /\ want = "Recv"
    /\ WaitPredicate
    /\ \/ /\ m_recv = <<>>
          /\ pc' = "fetch"
          /\ want' = "Send"
          /\ UNCHANGED <<m_recv, message, consumed>>
       \/ /\ m_recv # <<>>
          /\ m_recv' = Tail(m_recv)
          /\ \/ /\ Valid(Head(m_recv))
                /\ message' = <<Head(m_recv)>>
                /\ pc' = "resolve"
                /\ UNCHANGED <<want, consumed>>
             \/ /\ ~Valid(Head(m_recv))
                /\ consumed' = Append(consumed, Head(m_recv))
                /\ pc' = "fetch"
                /\ want' = "Send"
                /\ UNCHANGED message
    /\ UNCHANGED <<m_send, todo, owner, received, posted, delivered>>

\* fetch(Send) returns.
FetchSend ==
    /\ pc = "fetch"
    /\ want = "Send"
    /\ WaitPredicate
    /\ \/ /\ m_send = <<>>
          /\ pc' = "loop"
          /\ UNCHANGED <<m_send, message>>
       \/ /\ m_send # <<>>
          /\ m_send' = Tail(m_send)
          /\ message' = <<Head(m_send)>>
          /\ pc' = "send"
    /\ UNCHANGED <<m_recv, want, todo, owner, history>>

\* resolve(message) builds the command and runs it; what it appends is up to
\* the command and the state of the station.
Resolve == /\ pc = "resolve"
           /\ \E replies \in Replies :
                /\ Len(posted) + Len(replies) <= MaxPosted
                /\ todo' = replies
           /\ consumed' = consumed \o message
           /\ message' = <<>>
           /\ pc' = "post"
           /\ UNCHANGED <<m_recv, m_send, want, owner, received, posted, delivered>>

PostReply == /\ pc = "post"
             /\ todo # <<>>
             /\ PushSend(Head(todo))
             /\ todo' = Tail(todo)
             /\ UNCHANGED <<m_recv, pc, want, message, owner,
                            received, consumed, delivered>>

EndResolve == /\ pc = "post"
              /\ todo = <<>>
              /\ pc' = "fetch"
              /\ want' = "Send"
              /\ UNCHANGED <<m_recv, m_send, message, todo, owner, history>>

\* Server::instance().send(message).
Send == /\ pc = "send"
        /\ delivered' = delivered \o message
        /\ message' = <<>>
        /\ pc' = "loop"
        /\ UNCHANGED <<m_recv, m_send, want, todo, owner, received, consumed, posted>>

\* cleanup(Recv), then cleanup(Send), then process() returns.
Cleanup == /\ pc = "clean"
           /\ \/ /\ want = "Recv"
                 /\ m_recv' = <<>>
                 /\ want' = "Send"
                 /\ UNCHANGED <<m_send, pc>>
              \/ /\ want = "Send"
                 /\ m_send' = <<>>
                 /\ pc' = "done"
                 /\ UNCHANGED <<m_recv, want>>
           /\ UNCHANGED <<message, todo, owner, history>>
-----------------------------------------------------------------------------
(* ~MessageProcessor() on the main thread.                                 *)

\* quit() sets m_quit without taking the mutex ...
SetQuit == /\ owner = "running"
           /\ owner' = "quitting"
           /\ UNCHANGED <<m_recv, m_send, pc, want, message, todo, history>>

\* ... then notifies, without the mutex either.
NotifyAll == /\ owner = "quitting"
             /\ owner' = "joining"
             /\ pc' = Awakened
             /\ UNCHANGED <<m_recv, m_send, want, message, todo, history>>

Join == /\ owner = "joining"
        /\ pc = "done"
        /\ owner' = "joined"
        /\ UNCHANGED <<m_recv, m_send, pc, want, message, todo, history>>

\* The processor is gone: nothing more happens.
Joined == /\ owner = "joined"
          /\ UNCHANGED vars
-----------------------------------------------------------------------------
ProcessorThread == \/ Loop \/ FetchNothing \/ Block \/ FetchRecv \/ FetchSend
                   \/ Resolve \/ PostReply \/ EndResolve \/ Send \/ Cleanup

OtherThreads == \/ \E m \in Incoming : Receive(m)
                \/ \E m \in Outgoing : PostNotice(m)

Destructor == NotifyAll \/ Join

Next == ProcessorThread \/ SpuriousWakeup \/ OtherThreads \/ SetQuit \/ Destructor \/ Joined

SafeSpec == Init /\ [][Next]_vars

\* The operating system keeps scheduling the processor thread, and the main
\* thread once it has entered the destructor.  Nothing makes a terminal send, a
\* timer expire, a wait end by itself or the user leave.
Spec == SafeSpec /\ WF_vars(ProcessorThread) /\ WF_vars(Destructor)
-----------------------------------------------------------------------------
(* Properties.                                                             *)

Pcs == {"loop", "fetch", "block", "asleep", "resolve", "post", "send", "clean", "done"}

HoldsOneOf(S) == \E m \in S : message = <<m>>

\* Type invariant.  The local variable holds a message exactly while it is being
\* resolved or sent, and what is resolved is always valid.
TypeOK == /\ m_recv \in Seq(Incoming)
          /\ m_send \in Seq(Outgoing)
          /\ pc \in Pcs
          /\ want \in {"Recv", "Send"}
          /\ pc = "resolve" => HoldsOneOf(ValidIncoming)
          /\ pc = "send" => HoldsOneOf(Outgoing)
          /\ pc \notin {"resolve", "send"} => message = <<>>
          /\ todo \in Seq(Outgoing)
          /\ pc # "post" => todo = <<>>
          /\ owner \in {"running", "quitting", "joining", "joined"}
          /\ received \in Seq(Incoming)
          /\ consumed \in Seq(Incoming)
          /\ posted \in Seq(Outgoing)
          /\ delivered \in Seq(Outgoing)

InHand(step) == IF pc = step THEN message ELSE <<>>

\* Until the final cleanup every message appended to a deque is either dealt
\* with, in the thread's hand, or still queued, in the order of the appends: the
\* three threads that append and the one that fetches lose, repeat or reorder
\* nothing (append, fetch and process of processor.cpp).
NothingLost ==
    pc \notin {"clean", "done"} =>
        /\ received = consumed \o InHand("resolve") \o m_recv
        /\ posted = delivered \o InHand("send") \o m_send

\* The thread never sleeps on the condition variable while a message is queued:
\* no append falls between the test of the predicate and the sleep without
\* waking it (the mutex of append and fetch).
SleepsOnlyWhenIdle == pc = "asleep" => m_recv = <<>> /\ m_send = <<>>

\* The threads, deques and wakeups implement the two reliable streams of
\* MessageFlow, and keep both moving until quit() is called.
Flow == INSTANCE MessageFlow WITH closed <- m_quit

FlowSpec == Flow!Spec

\* The destructor of the processor ends: once quit() is called the thread leaves
\* process() and is joined, so the exit of the program completes
\* (~MessageProcessor of processor.cpp, reached from the return of main).
QuitEnds == m_quit ~> owner = "joined"
=============================================================================
