---------------------------- MODULE ShortMessage ----------------------------
(***************************************************************************)
(* A short message from its sender to the receipt: the commands of         *)
(* source/cmdsmsg.cpp, the two deques of the processor, and the frame of   *)
(* 1024 bytes in which class Message prints what the station sends.        *)
(*                                                                         *)
(* A message has a list of receivers.  The commands look at the first one  *)
(* only, and Server::send sends to each of them in turn.                   *)
(*                                                                         *)
(* The processor thread runs a command in two steps, which a logout on the *)
(* network thread may come between: it looks whom the message is for, and  *)
(* it appends what it has to say.  It may come between any two receivers   *)
(* as well.  What is delivered to a terminal that is not logged in is      *)
(* lost.  What is printed in more than Room characters is cut, and whoever *)
(* gets it cannot parse it.                                                *)
(*                                                                         *)
(* The terminals are the environment: each sends a uuid once, and answers  *)
(* the first INCOMING message about one with RECV_MESSAGE to its sender,   *)
(* as the README has it, without a content.  The length of a message is    *)
(* that of the text the station prints for it; the text of a terminal is   *)
(* more compact, so a terminal can send a content that the station cannot  *)
(* pass on.                                                                *)
(***************************************************************************)
EXTENDS Naturals, Sequences

CONSTANTS Numbers,    \* registered terminals
          Strangers,  \* numbers that are not registered
          Lists,      \* the lists of receivers of a short message
          Uuids,      \* the short messages
          From,       \* who sends each of them
          Lengths,    \* the lengths a message may be printed in
          Room,       \* the characters of text a frame has room for
          MaxLogouts  \* bound on the logouts

ASSUME ConstantsAssumption == /\ From \in [Uuids -> Numbers]
                              /\ Numbers \cap Strangers = {}
                              /\ Lists \subseteq Seq(Numbers \cup Strangers) \ {<<>>}
                              /\ Lengths \subseteq Nat
                              /\ Room \in Nat
                              /\ MaxLogouts \in Nat

VARIABLES online,   \* Equipment: the terminals that are logged in
          m_recv,   \* requests received and not yet processed
          m_send,   \* notices posted and not yet delivered
          command,  \* what the processor is about to append, or is sending
          sent,     \* history of the requests SEND_MESSAGE, in order
          acked,    \* history of who answered RECV_MESSAGE about what
          inbox,    \* what each terminal has got and could parse, in order
          left,     \* history of the terminals that have logged out
          logouts   \* number of logouts so far

vars == <<online, m_recv, m_send, command, sent, acked, inbox, left, logouts>>

Idle == [step |-> "idle"]
About(notice) == [step |-> "append", notice |-> notice]

\* The loop of Server::send, which has yet to send the notice to the rest.
Sending(notice, rest) ==
    IF rest = <<>> THEN Idle ELSE [step |-> "send", notice |-> notice, rest |-> rest]

Request(func, u, from, to, length) ==
    [func |-> func, uuid |-> u, from |-> from, to |-> to, length |-> length]

\* A message of the station, in the frame that is built for it at once.
Frame(state, m, to) ==
    [state |-> state, uuid |-> m.uuid, from |-> m.from, to |-> to, length |-> m.length]

\* As it would be if the text needed room for its terminator.
ParsesTerminated(frame) == frame.length < Room

\* The constructor of Message copies what fits; the rest of the text is missing.
Parses(frame) == frame.length <= Room

Init == /\ online = Numbers
        /\ m_recv = <<>>
        /\ m_send = <<>>
        /\ command = Idle
        /\ sent = <<>>
        /\ acked = {}
        /\ inbox = [n \in Numbers |-> <<>>]
        /\ left = {}
        /\ logouts = 0

-----------------------------------------------------------------------------
(* The terminals.                                                          *)

Sent(u) == \E i \in DOMAIN sent : sent[i].uuid = u

Got(n, u, states) == \E i \in DOMAIN inbox[n] : inbox[n][i].uuid = u /\ inbox[n][i].state \in states

SendMessage(u, to, length) ==
    LET request == Request("SEND_MESSAGE", u, From[u], to, length)
    IN  /\ From[u] \in online
        /\ ~Sent(u)
        /\ sent' = Append(sent, request)
        /\ m_recv' = Append(m_recv, request)
        /\ UNCHANGED <<online, m_send, command, acked, inbox, left, logouts>>

RecvMessage(n, u) ==
    /\ n \in online
    /\ Got(n, u, {"INCOMING"})
    /\ <<n, u>> \notin acked
    /\ acked' = acked \cup {<<n, u>>}
    /\ m_recv' = Append(m_recv, Request("RECV_MESSAGE", u, n, <<From[u]>>, 0))
    /\ UNCHANGED <<online, m_send, command, sent, inbox, left, logouts>>

\* Equipment::logout and login, which the network thread runs at any time.
Logout(n) == /\ n \in online
             /\ logouts < MaxLogouts
             /\ online' = online \ {n}
             /\ left' = left \cup {n}
             /\ logouts' = logouts + 1
             /\ UNCHANGED <<m_recv, m_send, command, sent, acked, inbox>>

Login(n) == /\ n \in Numbers \ online
            /\ online' = online \cup {n}
            /\ UNCHANGED <<m_recv, m_send, command, sent, acked, inbox, left, logouts>>
-----------------------------------------------------------------------------
(* The processor thread.                                                   *)

\* fetch(Recv) of a request.
Takes(func) == /\ command = Idle
               /\ m_recv # <<>>
               /\ Head(m_recv).func = func
               /\ m_recv' = Tail(m_recv)
               /\ UNCHANGED <<online, m_send, sent, acked, inbox, left, logouts>>

\* The answer of SendShortMsg to a message it does not pass on.
Refuses(m, state) ==
    LET to == m.to[1]
    IN  \/ state = "IMS_REJECTED" /\ m.from = to
        \/ state = "EMPTY_NUMBER" /\ m.from # to /\ to \notin Numbers
        \/ state = "OFFLINE" /\ m.from # to /\ to \in Numbers \ online

\* As it would be if a message to oneself were passed on.
AcceptsOwn(m) == m.to[1] \in online

Accepts(m) == m.from # m.to[1] /\ m.to[1] \in online

\* As it would be if the sender got the receipt from the station at once.
ReceiptForIt(m) == Frame("RECIVED", m, <<m.from>>)

\* Whoever is in the list, the first or not.
PassedOn(m) == Frame("INCOMING", m, m.to)

\* SendShortMsg: equipment(to) and state() of the first receiver.
SendShortMsg ==
    /\ Takes("SEND_MESSAGE")
    /\ LET m == Head(m_recv) IN
         \/ /\ Accepts(m)
            /\ command' = About(PassedOn(m))
         \/ \E state \in {"IMS_REJECTED", "EMPTY_NUMBER", "OFFLINE"} :
               /\ Refuses(m, state)
               /\ command' = About(Frame(state, m, <<m.from>>))

\* RecvShortMsg: the receipt is passed on to the sender of the message, if online.
RecvShortMsg ==
    /\ Takes("RECV_MESSAGE")
    /\ LET m == Head(m_recv) IN
         \/ m.to[1] \in online /\ command' = About(Frame("RECIVED", m, m.to))
         \/ m.to[1] \notin online /\ command' = Idle

\* As it would be if a message were put in front.
QueueInFront(frame) == <<frame>> \o m_send

Queue(frame) == Append(m_send, frame)

\* MessageProcessor::append(Send, ...).
AppendSend == /\ command.step = "append"
              /\ m_send' = Queue(command.notice)
              /\ command' = Idle
              /\ UNCHANGED <<online, m_recv, sent, acked, inbox, left, logouts>>

\* fetch(Send).
FetchSend == /\ command = Idle
             /\ m_send # <<>>
             /\ m_send' = Tail(m_send)
             /\ command' = Sending(Head(m_send), Head(m_send).to)
             /\ UNCHANGED <<online, m_recv, sent, acked, inbox, left, logouts>>

\* Server::send to the next receiver: lost when it is not logged in, or not even
\* registered, and of no use to it when cut.
Deliver == /\ command.step = "send"
           /\ LET frame == command.notice
                  number == Head(command.rest)
              IN  \/ /\ number \in online
                     /\ Parses(frame)
                     /\ inbox' = [inbox EXCEPT ![number] = Append(@, frame)]
                  \/ /\ number \notin online \/ ~Parses(frame)
                     /\ UNCHANGED inbox
           /\ command' = Sending(command.notice, Tail(command.rest))
           /\ UNCHANGED <<online, m_recv, m_send, sent, acked, left, logouts>>
-----------------------------------------------------------------------------
Terminal == \/ \E u \in Uuids, to \in Lists, length \in Lengths : SendMessage(u, to, length)
            \/ \E n \in Numbers : Logout(n) \/ Login(n) \/ \E u \in Uuids : RecvMessage(n, u)

Processor == SendShortMsg \/ RecvShortMsg \/ AppendSend \/ FetchSend \/ Deliver

Next == Terminal \/ Processor

SafeSpec == Init /\ [][Next]_vars

\* The processor thread keeps running, and a terminal that stays logged in answers
\* what it gets.
Spec == /\ SafeSpec
        /\ WF_vars(Processor)
        /\ \A n \in Numbers, u \in Uuids : WF_vars(RecvMessage(n, u))
-----------------------------------------------------------------------------
(* Properties.                                                             *)

Refusals == {"IMS_REJECTED", "EMPTY_NUMBER", "OFFLINE"}

Receivers == Lists \cup {<<n>> : n \in Numbers}

Requests == [func : {"SEND_MESSAGE", "RECV_MESSAGE"}, uuid : Uuids, from : Numbers,
             to : Receivers, length : Lengths \cup {0}]

Frames == [state : Refusals \cup {"INCOMING", "RECIVED"}, uuid : Uuids, from : Numbers,
           to : Receivers, length : Lengths \cup {0}]

\* Type invariant: what a terminal gets has its number in the list, was not cut,
\* and is for another terminal first unless it is an answer.
TypeOK == /\ online \subseteq Numbers
          /\ m_recv \in Seq(Requests)
          /\ m_send \in Seq(Frames)
          /\ \/ command = Idle
             \/ \E frame \in Frames :
                   \/ command = About(frame)
                   \/ \E i \in DOMAIN frame.to :
                         command = Sending(frame, SubSeq(frame.to, i, Len(frame.to)))
          /\ sent \in Seq(Requests)
          /\ acked \subseteq Numbers \X Uuids
          /\ inbox \in [Numbers -> Seq(Frames)]
          /\ \A n \in Numbers : \A i \in DOMAIN inbox[n] :
                /\ \E k \in DOMAIN inbox[n][i].to : inbox[n][i].to[k] = n
                /\ inbox[n][i].length <= Room
                /\ inbox[n][i].state = "INCOMING" => inbox[n][i].from # inbox[n][i].to[1]
          /\ left \subseteq Numbers
          /\ logouts \in 0..MaxLogouts

\* A sender is told the truth: a receipt only by a receiver that has got the
\* message whole, a refusal only for one that nobody has got or gets later, no more
\* than one receipt by each receiver and never a receipt beside a refusal, whoever
\* logs out or in between (SendShortMsg and RecvShortMsg of cmdsmsg.cpp).
AnswersAreTrue ==
    \A u \in Uuids :
        LET box == inbox[From[u]]
            Answers == {i \in DOMAIN box : box[i].uuid = u /\ box[i].state # "INCOMING"}
        IN  /\ \A i \in Answers : box[i].state = "RECIVED" => Got(box[i].from, u, {"INCOMING"})
            /\ Got(From[u], u, Refusals) => \A n \in Numbers : ~Got(n, u, {"INCOMING"})
            /\ \A i, j \in Answers : i # j =>
                  /\ box[i].state = "RECIVED" /\ box[j].state = "RECIVED"
                  /\ box[i].from # box[j].from

\* What one terminal sends to another arrives in the order it was sent, although
\* messages are lost on the way when the receiver is away for a while, and others
\* go to several receivers.
ArriveInOrder ==
    \A n \in Numbers : \A i, j \in DOMAIN inbox[n] :
        LET a == inbox[n][i]
            b == inbox[n][j]
        IN  /\ a.state = "INCOMING" /\ b.state = "INCOMING"
            /\ a.from = b.from /\ a.uuid # b.uuid /\ i < j
            => \E k, l \in DOMAIN sent : k < l /\ sent[k].uuid = a.uuid /\ sent[l].uuid = b.uuid

\* Message u was sent to terminal r, first or as a registered one, and fits.
SentTo(u, r) == \E i \in DOMAIN sent : /\ sent[i].uuid = u
                                       /\ sent[i].length <= Room
                                       /\ \E k \in DOMAIN sent[i].to : sent[i].to[k] = r
                                       /\ r \in Numbers \/ r = sent[i].to[1]

\* The sender has got a refusal, or the receipt of terminal r.
Heard(u, r) == \E i \in DOMAIN inbox[From[u]] :
                  LET answer == inbox[From[u]][i]
                  IN  /\ answer.uuid = u
                      /\ \/ answer.state \in Refusals
                         \/ answer.state = "RECIVED" /\ answer.from = r

Concerned(u, r) == {From[u], r} \cup {sent[i].to[1] : i \in {j \in DOMAIN sent : sent[j].uuid = u}}

\* A sender hears what became of its message, of every receiver that is registered
\* and of the first in any case, when the text the station prints for it fits in a
\* frame and nobody concerned has logged out meanwhile.
SenderHears ==
    \A u \in Uuids, r \in Numbers \cup Strangers :
        SentTo(u, r) ~> Heard(u, r) \/ Concerned(u, r) \cap left # {}
=============================================================================
