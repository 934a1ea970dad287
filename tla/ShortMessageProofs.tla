------------------------- MODULE ShortMessageProofs -------------------------
(***************************************************************************)
(* Proofs about ShortMessage, for any number of terminals and messages,    *)
(* any lists of receivers and any lengths: type correctness, that a sender *)
(* is told the truth, and that messages arrive in the order they were sent.*)
(*                                                                         *)
(* A message, and each of its receipts, is followed through the station,   *)
(* from the deque of requests by the command that runs and the deque of    *)
(* notices to the loop over the receivers.  It is in one of these places   *)
(* at a time, and what arrives of it is one notice, whoever gets it        *)
(* (OnePlace).  The places come in the order in which the messages were    *)
(* sent (Precede).                                                         *)
(***************************************************************************)
EXTENDS ShortMessage, SequenceTheorems, TLAPS

Incoming == {"INCOMING"}

\* A message comes from its sender, and a receipt goes to it.
Asked == {m \in Requests : /\ m.func = "SEND_MESSAGE" => m.from = From[m.uuid]
                           /\ m.func = "RECV_MESSAGE" => m.to = <<From[m.uuid]>>}

\* So do the notices, and an answer goes to the sender alone.
Told == {f \in Frames : /\ f.state # "RECIVED" => f.from = From[f.uuid]
                        /\ f.state # "INCOMING" => f.to = <<From[f.uuid]>>
                        /\ f.state = "INCOMING" => f.from # f.to[1]}

\* The loop of Server::send at the receiver with index i.
At(f, i) == [step |-> "send", notice |-> f, rest |-> SubSeq(f.to, i, Len(f.to))]

Works == \/ command = Idle
         \/ \E f \in Told : command = About(f) \/ \E i \in DOMAIN f.to : command = At(f, i)

\* What is said and who says it: TypeOK, in the sets that a step leads to again.
Typed == /\ online \subseteq Numbers
         /\ m_recv \in Seq(Asked)
         /\ m_send \in Seq(Told)
         /\ Works
         /\ sent \in Seq(Asked)
         /\ acked \subseteq Numbers \X Uuids
         /\ inbox \in [Numbers -> Seq(Told)]
         /\ \A n \in Numbers : \A i \in DOMAIN inbox[n] :
               /\ \E k \in DOMAIN inbox[n][i].to : inbox[n][i].to[k] = n
               /\ inbox[n][i].length <= Room
         /\ left \subseteq Numbers
         /\ logouts \in 0..MaxLogouts
-----------------------------------------------------------------------------
(* Members of a set in a sequence.                                         *)

Holds(s, S) == \E i \in DOMAIN s : s[i] \in S

HoldsOnce(s, S) == \A i, j \in DOMAIN s : s[i] \in S /\ s[j] \in S => i = j

LEMMA Empty == DOMAIN <<>> = {}
<1>1. <<>> \in Seq({}) /\ Len(<<>>) = 0
  OBVIOUS
<1>2. DOMAIN <<>> = 1..Len(<<>>)
  BY <1>1
<1> QED  BY <1>1, <1>2

LEMMA OfAppend ==
  ASSUME NEW T, NEW s \in Seq(T), NEW x \in T, NEW S
  PROVE  /\ Holds(Append(s, x), S) <=> (Holds(s, S) \/ x \in S)
         /\ HoldsOnce(s, S) /\ ~(Holds(s, S) /\ x \in S) => HoldsOnce(Append(s, x), S)
<1>1. /\ Append(s, x) \in Seq(T) /\ Len(s) \in Nat
      /\ DOMAIN s = 1..Len(s) /\ DOMAIN Append(s, x) = 1..(Len(s) + 1)
      /\ Append(s, x)[Len(s) + 1] = x
      /\ \A i \in 1..Len(s) : Append(s, x)[i] = s[i]
  OBVIOUS
<1>2. \A i \in 1..(Len(s) + 1) : i \in 1..Len(s) \/ i = Len(s) + 1
  BY <1>1
<1>3. 1..Len(s) \subseteq 1..(Len(s) + 1) /\ Len(s) + 1 \in 1..(Len(s) + 1)
  BY <1>1
<1>4. Holds(Append(s, x), S) <=> (Holds(s, S) \/ x \in S)
  BY <1>1, <1>2, <1>3 DEF Holds
<1>5. HoldsOnce(s, S) /\ ~(Holds(s, S) /\ x \in S) => HoldsOnce(Append(s, x), S)
  BY <1>1, <1>2 DEF Holds, HoldsOnce
<1> QED  BY <1>4, <1>5

LEMMA OfTail ==
  ASSUME NEW T, NEW s \in Seq(T), s # <<>>
  PROVE  /\ Head(s) \in T /\ Tail(s) \in Seq(T)
         /\ Len(s) \in Nat /\ DOMAIN s = 1..Len(s) /\ 1 \in DOMAIN s /\ Head(s) = s[1]
         /\ DOMAIN Tail(s) = 1..(Len(s) - 1)
         /\ \A i \in DOMAIN Tail(s) : /\ i \in Nat \ {0} /\ i + 1 \in DOMAIN s
                                      /\ Tail(s)[i] = s[i + 1]
         /\ \A i \in DOMAIN s : i = 1 \/ (i - 1 \in DOMAIN Tail(s) /\ Tail(s)[i - 1] = s[i])
  OBVIOUS

LEMMA TailHolds ==
  ASSUME NEW T, NEW s \in Seq(T), s # <<>>, NEW S
  PROVE  /\ Holds(s, S) <=> (Head(s) \in S \/ Holds(Tail(s), S))
         /\ HoldsOnce(s, S) => HoldsOnce(Tail(s), S) /\ ~(Head(s) \in S /\ Holds(Tail(s), S))
<1>1. Holds(s, S) => Head(s) \in S \/ Holds(Tail(s), S)
  BY OfTail DEF Holds
<1>2. Head(s) \in S \/ Holds(Tail(s), S) => Holds(s, S)
  BY OfTail DEF Holds
<1>3. ASSUME HoldsOnce(s, S)
      PROVE  HoldsOnce(Tail(s), S)
  <2> SUFFICES ASSUME NEW i \in DOMAIN Tail(s), NEW j \in DOMAIN Tail(s), Tail(s)[i] \in S,
                      Tail(s)[j] \in S
               PROVE  i = j
    BY DEF HoldsOnce
  <2>1. i \in Nat /\ j \in Nat /\ i + 1 = j + 1
    BY <1>3, OfTail DEF HoldsOnce
  <2> QED  BY <2>1
<1>4. ASSUME HoldsOnce(s, S), Head(s) \in S, NEW i \in DOMAIN Tail(s), Tail(s)[i] \in S
      PROVE  FALSE
  <2>1. i \in Nat \ {0} /\ i + 1 = 1
    BY <1>4, OfTail DEF HoldsOnce
  <2> QED  BY <2>1
<1> QED  BY <1>1, <1>2, <1>3, <1>4 DEF Holds
-----------------------------------------------------------------------------
(* Where a message, or a receipt, is.                                      *)

Kinds == {"message", "receipt"}

\* A message by its sender, or a receipt by one that has got it.
Things == [kind : Kinds, by : Numbers, uuid : Uuids]

AsksFor(m) == [kind |-> IF m.func = "RECV_MESSAGE" THEN "receipt" ELSE "message",
               by |-> m.from, uuid |-> m.uuid]

TellsOf(f) == [kind |-> IF f.state = "RECIVED" THEN "receipt" ELSE "message",
               by |-> f.from, uuid |-> f.uuid]

Asks(t) == {m \in Asked : AsksFor(m) = t}
Tells(t) == {f \in Told : TellsOf(f) = t}
Answering(t) == {f \in Tells(t) : f.state # "INCOMING"}

Begun(t) == IF t.kind = "message" THEN Sent(t.uuid) ELSE <<t.by, t.uuid>> \in acked

Waits(t) == Holds(m_recv, Asks(t))
InHand(t) == command.step = "append" /\ command.notice \in Tells(t)
Queued(t) == Holds(m_send, Tells(t))
GoesOut(t) == command.step = "send" /\ command.notice \in Tells(t)
Arrived(n, t) == Holds(inbox[n], Tells(t))

\* It is in one place, once, and has begun.
Alone(t) ==
    /\ HoldsOnce(m_recv, Asks(t))
    /\ HoldsOnce(m_send, Tells(t))
    /\ Waits(t) => ~InHand(t) /\ ~Queued(t) /\ ~GoesOut(t) /\ Begun(t)
    /\ InHand(t) => ~Queued(t) /\ Begun(t)
    /\ Queued(t) => ~GoesOut(t) /\ Begun(t)
    /\ GoesOut(t) => Begun(t)
    /\ \A n \in Numbers : Arrived(n, t) => Begun(t) /\ ~Waits(t) /\ ~InHand(t) /\ ~Queued(t)

\* What arrives of it is one notice, which goes out to several only when it is no
\* answer, and an answer arrives once.
OneNotice(t) ==
    /\ \A n, p \in Numbers : \A i \in DOMAIN inbox[n], j \in DOMAIN inbox[p] :
          inbox[n][i] \in Tells(t) /\ inbox[p][j] \in Tells(t) => inbox[n][i] = inbox[p][j]
    /\ GoesOut(t) => \A n \in Numbers : \A i \in DOMAIN inbox[n] :
          inbox[n][i] \in Tells(t) =>
             inbox[n][i] = command.notice /\ command.notice.state = "INCOMING"
    /\ \A n \in Numbers : HoldsOnce(inbox[n], Answering(t))

OnePlace == \A t \in Things : Alone(t) /\ OneNotice(t)

\* What has been acknowledged was got.
AckedWasGot == \A ack \in acked : Got(ack[1], ack[2], Incoming)

IInv == Typed /\ OnePlace /\ AckedWasGot
-----------------------------------------------------------------------------
(* The order of the messages.                                              *)

\* u is before v in the history of what was sent.
Precedes(history, u, v) == \E k, l \in DOMAIN history : /\ k < l
                                                        /\ history[k].uuid = u
                                                        /\ history[l].uuid = v

\* The members of S in s are in the order of the history.
InOrder(s, S, history) ==
    \A i, j \in DOMAIN s : i < j /\ s[i] \in S /\ s[j] \in S /\ s[i].uuid # s[j].uuid =>
        Precedes(history, s[i].uuid, s[j].uuid)

Before(u, v) == Precedes(sent, u, v)

Asking == {m \in Asked : m.func = "SEND_MESSAGE"}
Telling == {f \in Told : f.state # "RECIVED"}

Message(u) == [kind |-> "message", by |-> From[u], uuid |-> u]

\* What has come further was sent earlier.
Overtakes(u, v) ==
    LET x == Message(u)
        y == Message(v)
    IN  \/ InHand(x) /\ Waits(y)
        \/ Queued(x) /\ (Waits(y) \/ InHand(y))
        \/ GoesOut(x) /\ (Waits(y) \/ Queued(y))
        \/ \E n \in Numbers : Arrived(n, x) /\ (Waits(y) \/ InHand(y) \/ Queued(y) \/ GoesOut(y))

Precede == \A u, v \in Uuids : u # v /\ Overtakes(u, v) => Before(u, v)

Sorted == /\ InOrder(m_recv, Asking, sent)
          /\ InOrder(m_send, Telling, sent)
          /\ \A n \in Numbers : InOrder(inbox[n], Telling, sent)
          /\ Precede
-----------------------------------------------------------------------------
(* Type correctness.                                                       *)

\* The receivers of a notice.
LEMMA ToList ==
  ASSUME NEW f \in Told
  PROVE  /\ f.to \in Seq(Numbers \cup Strangers) /\ f.to # <<>>
         /\ Len(f.to) \in Nat \ {0} /\ DOMAIN f.to = 1..Len(f.to)
         /\ f.state # "INCOMING" => Len(f.to) = 1 /\ f.to[1] = From[f.uuid]
<1>1. f.to \in Receivers
  BY DEF Told, Frames
<1>2. f.to \in Seq(Numbers \cup Strangers) /\ f.to # <<>>
  <2>1. CASE f.to \in Lists
    BY <2>1, ConstantsAssumption
  <2>2. CASE \E n \in Numbers : f.to = <<n>>
    BY <2>2
  <2> QED  BY <1>1, <2>1, <2>2 DEF Receivers
<1>3. Len(f.to) \in Nat \ {0} /\ DOMAIN f.to = 1..Len(f.to)
  BY <1>2
<1>4. f.state # "INCOMING" => Len(f.to) = 1 /\ f.to[1] = From[f.uuid]
  <2> SUFFICES ASSUME f.state # "INCOMING"
               PROVE  Len(f.to) = 1 /\ f.to[1] = From[f.uuid]
    OBVIOUS
  <2>1. f.to = <<From[f.uuid]>>
    BY DEF Told
  <2> QED  BY <2>1
<1> QED  BY <1>2, <1>3, <1>4

\* The loop over the receivers.
LEMMA Loop ==
  ASSUME NEW f \in Told, NEW i \in DOMAIN f.to
  PROVE  /\ At(f, i) = Sending(f, SubSeq(f.to, i, Len(f.to)))
         /\ At(f, i).step = "send" /\ At(f, i).notice = f /\ At(f, i) # Idle
         /\ Head(At(f, i).rest) = f.to[i]
         /\ \/ i + 1 \notin DOMAIN f.to /\ Sending(f, Tail(At(f, i).rest)) = Idle
            \/ i + 1 \in DOMAIN f.to /\ Sending(f, Tail(At(f, i).rest)) = At(f, i + 1)
<1>1. /\ f.to \in Seq(Numbers \cup Strangers) /\ Len(f.to) \in Nat /\ i \in 1..Len(f.to)
      /\ DOMAIN f.to = 1..Len(f.to)
  BY ToList
<1>2. ASSUME NEW j \in 1..Len(f.to)
      PROVE  SubSeq(f.to, j, Len(f.to)) # <<>>
  <2>1. \A k \in j..Len(f.to) : f.to[k] \in Numbers \cup Strangers
    BY <1>1
  <2>2. Len(SubSeq(f.to, j, Len(f.to))) = Len(f.to) - j + 1
    BY <1>1, <2>1, SubSeqProperties
  <2>3. Len(<<>>) = 0 /\ Len(f.to) - j + 1 # 0
    BY <1>1
  <2> QED  BY <2>2, <2>3
<1>3. /\ Head(SubSeq(f.to, i, Len(f.to))) = f.to[i]
      /\ Tail(SubSeq(f.to, i, Len(f.to))) = SubSeq(f.to, i + 1, Len(f.to))
  <2>1. Len(f.to) \in i..Len(f.to)
    BY <1>1
  <2> QED  BY <1>1, <2>1, HeadTailOfSubSeq
<1>4. CASE i + 1 \in DOMAIN f.to
  BY <1>1, <1>2, <1>3, <1>4 DEF At, Sending, Idle
<1>5. CASE i + 1 \notin DOMAIN f.to
  <2>1. Len(f.to) < i + 1 /\ i + 1 \in Int /\ Len(f.to) \in Int
    BY <1>1, <1>5
  <2>2. SubSeq(f.to, i + 1, Len(f.to)) = <<>>
    BY <2>1, SubSeqEmpty
  <2> QED  BY <1>1, <1>2, <1>3, <1>5, <2>2 DEF At, Sending, Idle
<1> QED  BY <1>4, <1>5

LEMMA TypedIsTypeOK == Typed => TypeOK
<1> SUFFICES ASSUME Typed
             PROVE  TypeOK
  OBVIOUS
<1>1. Asked \subseteq Requests /\ Told \subseteq Frames
  BY DEF Asked, Told
<1>2. m_recv \in Seq(Requests) /\ m_send \in Seq(Frames) /\ sent \in Seq(Requests)
  BY <1>1 DEF Typed
<1>3. inbox \in [Numbers -> Seq(Frames)]
  BY <1>1 DEF Typed
<1>4. ASSUME NEW n \in Numbers, NEW i \in DOMAIN inbox[n]
      PROVE  /\ \E k \in DOMAIN inbox[n][i].to : inbox[n][i].to[k] = n
             /\ inbox[n][i].length <= Room
             /\ inbox[n][i].state = "INCOMING" => inbox[n][i].from # inbox[n][i].to[1]
  <2>1. inbox[n][i] \in Told
    BY DEF Typed
  <2> QED  BY <2>1 DEF Told, Typed
<1>5. \/ command = Idle
      \/ \E frame \in Frames :
            \/ command = About(frame)
            \/ \E i \in DOMAIN frame.to :
                  command = Sending(frame, SubSeq(frame.to, i, Len(frame.to)))
  BY <1>1, Loop DEF Typed, Works
<1> QED  BY <1>2, <1>3, <1>4, <1>5 DEF Typed, TypeOK

LEMMA CommandParts ==
  ASSUME Typed
  PROVE  /\ command.step = "append" => command.notice \in Told /\ command = About(command.notice)
         /\ command.step = "send" => /\ command.notice \in Told
                                     /\ \E i \in DOMAIN command.notice.to :
                                           command = At(command.notice, i)
<1>1. CASE command = Idle
  BY <1>1 DEF Idle
<1>2. ASSUME NEW f \in Told, command = About(f)
      PROVE  command.step = "append" /\ command.notice = f
  BY <1>2 DEF About
<1>3. ASSUME NEW f \in Told, NEW i \in DOMAIN f.to, command = At(f, i)
      PROVE  command.step = "send" /\ command.notice = f
  BY <1>3 DEF At
<1> QED  BY <1>1, <1>2, <1>3 DEF Typed, Works

LEMMA NewCommand ==
  ASSUME NEW f, command' = About(f)
  PROVE  command'.step = "append" /\ command'.notice = f
  BY DEF About

LEMMA NotIdle == Idle.step # "append" /\ Idle.step # "send"
  BY DEF Idle

\* What a terminal sends is what a terminal may ask.
LEMMA SendAsked ==
  ASSUME Typed, NEW u \in Uuids, NEW to \in Lists, NEW length \in Lengths
  PROVE  LET m == Request("SEND_MESSAGE", u, From[u], to, length)
         IN  m \in Asked /\ m.uuid = u /\ m.func = "SEND_MESSAGE"
  BY ConstantsAssumption DEF Request, Asked, Requests, Receivers

LEMMA RecvAsked ==
  ASSUME Typed, NEW n \in Numbers, NEW u \in Uuids
  PROVE  LET m == Request("RECV_MESSAGE", u, n, <<From[u]>>, 0)
         IN  m \in Asked /\ m.uuid = u /\ m.func = "RECV_MESSAGE" /\ m.from = n
<1>1. <<From[u]>> \in Receivers
  BY ConstantsAssumption DEF Receivers
<1> QED  BY <1>1 DEF Request, Asked, Requests

\* What a command has to say follows from what it was asked.
LEMMA Taking ==
  ASSUME Typed, NEW func, Takes(func)
  PROVE  /\ Head(m_recv) \in Asked /\ Head(m_recv).func = func
         /\ m_recv \in Seq(Asked) /\ m_recv # <<>> /\ m_recv' = Tail(m_recv)
         /\ command = Idle /\ UNCHANGED <<online, m_send, sent, acked, inbox, left, logouts>>
  BY OfTail DEF Typed, Takes

LEMMA SendSays ==
  ASSUME Typed, SendShortMsg
  PROVE  \E f \in Told : /\ command' = About(f) /\ f.uuid = Head(m_recv).uuid
                         /\ f.from = Head(m_recv).from /\ f.state # "RECIVED"
<1> DEFINE m == Head(m_recv)
<1>1. m \in Asked /\ m.func = "SEND_MESSAGE" /\ online \subseteq Numbers
  BY Taking DEF SendShortMsg, Typed
<1>2. /\ m \in Requests /\ m.from = From[m.uuid] /\ m.from \in Numbers /\ m.uuid \in Uuids
      /\ m.length \in Lengths \cup {0} /\ m.to \in Receivers /\ <<m.from>> \in Receivers
  BY <1>1 DEF Asked, Requests, Receivers
<1>3. CASE Accepts(m) /\ command' = About(PassedOn(m))
  <2>1. m.from # m.to[1]
    BY <1>3 DEF Accepts
  <2>2. /\ PassedOn(m) \in Told /\ PassedOn(m).uuid = m.uuid /\ PassedOn(m).from = m.from
        /\ PassedOn(m).state # "RECIVED"
    BY <1>2, <2>1 DEF PassedOn, Frame, Told, Frames
  <2> QED  BY <1>3, <2>2
<1>4. ASSUME NEW state \in {"IMS_REJECTED", "EMPTY_NUMBER", "OFFLINE"},
             command' = About(Frame(state, m, <<m.from>>))
      PROVE  \E f \in Told : /\ command' = About(f) /\ f.uuid = m.uuid /\ f.from = m.from
                             /\ f.state # "RECIVED"
  <2> DEFINE f == Frame(state, m, <<m.from>>)
  <2>1. /\ f.state = state /\ f.uuid = m.uuid /\ f.from = m.from /\ f.to = <<m.from>>
        /\ f.state # "RECIVED" /\ f.state # "INCOMING"
    BY DEF Frame
  <2>2. f \in Frames
    BY <1>2 DEF Frame, Frames, Refusals
  <2>3. f \in Told
    BY <1>2, <2>1, <2>2 DEF Told
  <2> QED  BY <1>4, <2>1, <2>3
<1> QED  BY <1>3, <1>4 DEF SendShortMsg

LEMMA RecvSays ==
  ASSUME Typed, RecvShortMsg
  PROVE  \/ command' = Idle
         \/ \E f \in Told : /\ command' = About(f) /\ f.uuid = Head(m_recv).uuid
                            /\ f.from = Head(m_recv).from /\ f.state = "RECIVED"
<1> DEFINE m == Head(m_recv)
           f == Frame("RECIVED", m, m.to)
<1>1. m \in Asked /\ m.func = "RECV_MESSAGE"
  BY Taking DEF RecvShortMsg
<1>2. m \in Requests /\ m.to = <<From[m.uuid]>>
  BY <1>1 DEF Asked
<1>3. CASE command' = About(f)
  <2>1. f \in Frames /\ f.state = "RECIVED" /\ f.to = m.to /\ f.uuid = m.uuid /\ f.from = m.from
    BY <1>2 DEF Frame, Frames, Requests
  <2>2. f \in Told
    BY <1>2, <2>1 DEF Told
  <2> QED  BY <1>3, <2>1, <2>2
<1> QED  BY <1>3 DEF RecvShortMsg

\* A notice is taken out, and goes to its first receiver next.
LEMMA Fetching ==
  ASSUME Typed, FetchSend
  PROVE  LET f == Head(m_send) IN
         /\ f \in Told /\ m_send \in Seq(Told) /\ m_send # <<>> /\ m_send' = Tail(m_send)
         /\ command = Idle /\ 1 \in DOMAIN f.to /\ command' = At(f, 1)
         /\ UNCHANGED <<online, m_recv, sent, acked, inbox, left, logouts>>
<1> DEFINE f == Head(m_send)
<1>1. f \in Told /\ m_send \in Seq(Told)
  BY OfTail DEF Typed, FetchSend
<1>2. 1 \in DOMAIN f.to /\ f.to \in Seq(Numbers \cup Strangers)
  BY <1>1, ToList
<1>3. SubSeq(f.to, 1, Len(f.to)) = f.to
  BY <1>2, SubSeqFull
<1> QED  BY <1>1, <1>2, <1>3, Loop DEF FetchSend

\* The two ways a notice can go at a receiver.
LEMMA Delivering ==
  ASSUME Typed, Deliver
  PROVE  \E f \in Told : \E i \in DOMAIN f.to :
         /\ command = At(f, i) /\ command.step = "send" /\ command.notice = f
         /\ \/ command' = Idle
            \/ i + 1 \in DOMAIN f.to /\ f.state = "INCOMING" /\ command' = At(f, i + 1)
         /\ \/ inbox' = inbox
            \/ /\ inbox' = [inbox EXCEPT ![f.to[i]] = Append(@, f)]
               /\ f.to[i] \in Numbers /\ f.length <= Room
         /\ UNCHANGED <<online, m_recv, m_send, sent, acked, left, logouts>>
<1>1. PICK f \in Told : f = command.notice /\ \E i \in DOMAIN f.to : command = At(f, i)
  BY CommandParts DEF Deliver
<1>2. PICK i \in DOMAIN f.to : command = At(f, i)
  BY <1>1
<1>3. f.state # "INCOMING" => i + 1 \notin DOMAIN f.to
  BY <1>1, ToList
<1>4. Head(command.rest) = f.to[i]
  BY <1>2, Loop
<1>5. command' = Idle \/ (i + 1 \in DOMAIN f.to /\ f.state = "INCOMING" /\ command' = At(f, i + 1))
  <2>1. command' = Sending(f, Tail(At(f, i).rest))
    BY <1>1, <1>2 DEF Deliver
  <2> QED  BY <1>3, <2>1, Loop
<1>6. \/ inbox' = inbox
      \/ /\ inbox' = [inbox EXCEPT ![f.to[i]] = Append(@, f)]
         /\ f.to[i] \in Numbers /\ f.length <= Room
  BY <1>1, <1>4 DEF Deliver, Parses, Typed
<1>7. UNCHANGED <<online, m_recv, m_send, sent, acked, left, logouts>>
  BY DEF Deliver
<1> QED  BY <1>1, <1>2, <1>5, <1>6, <1>7 DEF Deliver

\* What a delivery adds to the inbox of a terminal.
LEMMA InboxGrows ==
  ASSUME Typed, NEW f \in Told, NEW n \in Numbers, NEW number,
         \/ inbox' = inbox
         \/ inbox' = [inbox EXCEPT ![number] = Append(@, f)]
  PROVE  /\ inbox[n] \in Seq(Told)
         /\ \/ inbox'[n] = inbox[n]
            \/ n = number /\ inbox'[n] = Append(inbox[n], f)
         /\ \A i \in DOMAIN inbox[n] : i \in DOMAIN inbox'[n] /\ inbox'[n][i] = inbox[n][i]
         /\ \A i \in DOMAIN inbox'[n] :
               \/ i \in DOMAIN inbox[n] /\ inbox'[n][i] = inbox[n][i]
               \/ n = number /\ inbox'[n][i] = f
<1>1. inbox[n] \in Seq(Told) /\ inbox \in [Numbers -> Seq(Told)]
  BY DEF Typed
<1>2. inbox'[n] = inbox[n] \/ (n = number /\ inbox'[n] = Append(inbox[n], f))
  BY <1>1
<1>3. CASE inbox'[n] = inbox[n]
  BY <1>1, <1>3
<1>4. CASE n = number /\ inbox'[n] = Append(inbox[n], f)
  <2>1. /\ Len(inbox[n]) \in Nat /\ DOMAIN inbox[n] = 1..Len(inbox[n])
        /\ DOMAIN inbox'[n] = 1..(Len(inbox[n]) + 1)
        /\ inbox'[n][Len(inbox[n]) + 1] = f
        /\ \A i \in 1..Len(inbox[n]) : inbox'[n][i] = inbox[n][i]
    BY <1>1, <1>4
  <2>2. \A i \in 1..(Len(inbox[n]) + 1) : i \in 1..Len(inbox[n]) \/ i = Len(inbox[n]) + 1
    BY <2>1
  <2>3. 1..Len(inbox[n]) \subseteq 1..(Len(inbox[n]) + 1)
    BY <2>1
  <2> QED  BY <1>1, <1>4, <2>1, <2>2, <2>3
<1> QED  BY <1>2, <1>3, <1>4

LEMMA StepTyped ==
  ASSUME Typed, [Next]_vars
  PROVE  Typed'
<1>1. ASSUME NEW u \in Uuids, NEW to \in Lists, NEW length \in Lengths, SendMessage(u, to, length)
      PROVE  Typed'
  <2>1. m_recv' \in Seq(Asked) /\ sent' \in Seq(Asked)
    BY <1>1, SendAsked DEF SendMessage, Typed
  <2> QED  BY <1>1, <2>1 DEF SendMessage, Typed, Works
<1>2. ASSUME NEW n \in Numbers, NEW u \in Uuids, RecvMessage(n, u)
      PROVE  Typed'
  <2>1. m_recv' \in Seq(Asked)
    BY <1>2, RecvAsked DEF RecvMessage, Typed
  <2>2. acked' \subseteq Numbers \X Uuids
    BY <1>2 DEF RecvMessage, Typed
  <2>3. Works'
    BY <1>2 DEF RecvMessage, Typed, Works
  <2>4. UNCHANGED <<online, m_send, sent, inbox, left, logouts>>
    BY <1>2 DEF RecvMessage
  <2> QED  BY <2>1, <2>2, <2>3, <2>4 DEF Typed
<1>3. ASSUME NEW n \in Numbers, Logout(n) \/ Login(n)
      PROVE  Typed'
  <2>1. logouts' \in 0..MaxLogouts
    BY <1>3, ConstantsAssumption DEF Logout, Login, Typed
  <2>2. Works'
    BY <1>3 DEF Logout, Login, Typed, Works
  <2> QED  BY <1>3, <2>1, <2>2 DEF Logout, Login, Typed
<1>4. CASE SendShortMsg \/ RecvShortMsg
  <2>1. PICK func : Takes(func)
    BY <1>4 DEF SendShortMsg, RecvShortMsg
  <2>2. m_recv' \in Seq(Asked)
    BY <2>1, Taking, OfTail
  <2>3. Works'
    BY <1>4, SendSays, RecvSays DEF Works
  <2> QED  BY <2>1, <2>2, <2>3, Taking DEF Typed
<1>5. CASE AppendSend
  <2>1. m_send' \in Seq(Told)
    BY <1>5, CommandParts DEF AppendSend, Queue, Typed
  <2> QED  BY <1>5, <2>1 DEF AppendSend, Typed, Works
<1>6. CASE FetchSend
  <2>1. m_send' \in Seq(Told)
    BY <1>6, Fetching, OfTail
  <2>2. Works'
    BY <1>6, Fetching DEF Works
  <2> QED  BY <1>6, <2>1, <2>2, Fetching DEF Typed
<1>7. CASE Deliver
  <2> DEFINE Moves(f, i) ==
         /\ command' = Idle \/ (i + 1 \in DOMAIN f.to /\ command' = At(f, i + 1))
         /\ \/ inbox' = inbox
            \/ /\ inbox' = [inbox EXCEPT ![f.to[i]] = Append(@, f)]
               /\ f.to[i] \in Numbers /\ f.length <= Room
         /\ UNCHANGED <<online, m_recv, m_send, sent, acked, left, logouts>>
  <2>0. PICK f \in Told : \E i \in DOMAIN f.to : Moves(f, i)
    BY <1>7, Delivering
  <2>1. PICK i \in DOMAIN f.to : Moves(f, i)
    BY <2>0
  <2>2. Works'
    BY <2>1 DEF Works
  <2>3. inbox' \in [Numbers -> Seq(Told)]
    <3>1. CASE inbox' = inbox
      BY <3>1 DEF Typed
    <3>2. CASE inbox' = [inbox EXCEPT ![f.to[i]] = Append(@, f)] /\ f.to[i] \in Numbers
      <4>1. Append(inbox[f.to[i]], f) \in Seq(Told)
        BY <3>2 DEF Typed
      <4> QED  BY <3>2, <4>1 DEF Typed
    <3> QED  BY <2>1, <3>1, <3>2
  <2>4. ASSUME NEW n \in Numbers, NEW j \in DOMAIN inbox'[n]
        PROVE  /\ \E k \in DOMAIN inbox'[n][j].to : inbox'[n][j].to[k] = n
               /\ inbox'[n][j].length <= Room
    <3>1. CASE inbox' = inbox
      BY <3>1, <2>4 DEF Typed
    <3>2. CASE inbox' = [inbox EXCEPT ![f.to[i]] = Append(@, f)] /\ f.length <= Room
      <4>1. \/ j \in DOMAIN inbox[n] /\ inbox'[n][j] = inbox[n][j]
            \/ n = f.to[i] /\ inbox'[n][j] = f
        BY <2>4, <3>2, InboxGrows
      <4>2. CASE j \in DOMAIN inbox[n] /\ inbox'[n][j] = inbox[n][j]
        BY <4>2 DEF Typed
      <4>3. CASE n = f.to[i] /\ inbox'[n][j] = f
        BY <3>2, <4>3
      <4> QED  BY <4>1, <4>2, <4>3
    <3> QED  BY <2>1, <3>1, <3>2
  <2> QED  BY <2>1, <2>2, <2>3, <2>4 DEF Typed
<1>8. CASE UNCHANGED vars
  BY <1>8 DEF vars, Typed, Works
<1> QED  BY <1>1, <1>2, <1>3, <1>4, <1>5, <1>6, <1>7, <1>8 DEF Next, Terminal, Processor

LEMMA InitTyped == Init => Typed
<1> SUFFICES ASSUME Init
             PROVE  Typed
  OBVIOUS
<1>1. m_recv \in Seq(Asked) /\ m_send \in Seq(Told) /\ sent \in Seq(Asked)
      /\ inbox \in [Numbers -> Seq(Told)]
  BY DEF Init
<1>2. ASSUME NEW n \in Numbers
      PROVE  DOMAIN inbox[n] = {}
  <2>1. inbox[n] = <<>>
    BY DEF Init
  <2> QED  BY <2>1, Empty
<1>3. logouts \in 0..MaxLogouts
  BY ConstantsAssumption DEF Init
<1> QED  BY <1>1, <1>2, <1>3 DEF Init, Typed, Works

\* What a terminal gets has its number in the list, was not cut, and is for another
\* terminal first unless it is an answer.
THEOREM Typing == SafeSpec => []TypeOK
  BY InitTyped, StepTyped, TypedIsTypeOK, PTL DEF SafeSpec
-----------------------------------------------------------------------------
(* A message, and a receipt, is in one place.                              *)

\* A request or a notice is about one thing.
LEMMA AboutOne ==
  /\ \A m \in Asked : AsksFor(m) \in Things /\ \A t : m \in Asks(t) <=> t = AsksFor(m)
  /\ \A f \in Told : TellsOf(f) \in Things /\ \A t : f \in Tells(t) <=> t = TellsOf(f)
  BY DEF Asks, AsksFor, Tells, TellsOf, Asked, Told, Requests, Frames, Things, Kinds

\* A step that leaves a thing where it is.
LEMMA StaysThere ==
  ASSUME NEW t, Alone(t), OneNotice(t), UNCHANGED inbox,
         HoldsOnce(m_recv, Asks(t))', HoldsOnce(m_send, Tells(t))',
         Waits(t)' <=> Waits(t), InHand(t)' <=> InHand(t), Queued(t)' <=> Queued(t),
         GoesOut(t)' <=> GoesOut(t), GoesOut(t) => command' = command,
         Begun(t) => Begun(t)'
  PROVE  Alone(t)' /\ OneNotice(t)'
<1>1. \A n \in Numbers : Arrived(n, t)' <=> Arrived(n, t)
  BY DEF Arrived
<1>2. Alone(t)'
  BY <1>1 DEF Alone
<1>3. OneNotice(t)'
  BY DEF OneNotice
<1> QED  BY <1>2, <1>3

LEMMA NothingMoves ==
  ASSUME OnePlace, UNCHANGED <<m_recv, m_send, command, inbox, sent, acked>>
  PROVE  OnePlace'
<1> SUFFICES ASSUME NEW t \in Things
             PROVE  Alone(t)' /\ OneNotice(t)'
  BY DEF OnePlace
<1>1. Alone(t) /\ OneNotice(t)
  BY DEF OnePlace
<1>2. /\ Waits(t)' <=> Waits(t)
      /\ InHand(t)' <=> InHand(t)
      /\ Queued(t)' <=> Queued(t)
      /\ GoesOut(t)' <=> GoesOut(t)
      /\ Begun(t)' <=> Begun(t)
      /\ HoldsOnce(m_recv, Asks(t))' /\ HoldsOnce(m_send, Tells(t))'
  BY <1>1 DEF Waits, InHand, Queued, GoesOut, Begun, Sent, Alone
<1> QED  BY <1>1, <1>2, StaysThere

\* Something begins in the deque of requests.
LEMMA Begins ==
  ASSUME Typed, OnePlace, NEW m \in Asked, NEW new, new = AsksFor(m),
         m_recv' = Append(m_recv, m), UNCHANGED <<m_send, command, inbox>>,
         ~Begun(new), Begun(new)', \A t \in Things : Begun(t) => Begun(t)'
  PROVE  OnePlace'
<1> SUFFICES ASSUME NEW t \in Things
             PROVE  Alone(t)' /\ OneNotice(t)'
  BY DEF OnePlace
<1>1. Alone(t) /\ OneNotice(t) /\ m_recv \in Seq(Asked)
  BY DEF OnePlace, Typed
<1>2. m \in Asks(t) <=> t = new
  BY AboutOne
<1>3. /\ Waits(t)' <=> (Waits(t) \/ t = new)
      /\ HoldsOnce(m_recv, Asks(t)) /\ ~(Waits(t) /\ t = new) => HoldsOnce(m_recv', Asks(t))
  BY <1>1, <1>2, OfAppend DEF Waits
<1>4. /\ InHand(t)' <=> InHand(t)
      /\ Queued(t)' <=> Queued(t)
      /\ GoesOut(t)' <=> GoesOut(t)
      /\ \A n \in Numbers : Arrived(n, t)' <=> Arrived(n, t)
  BY DEF InHand, Queued, GoesOut, Arrived
<1>5. HoldsOnce(m_recv', Asks(t)) /\ HoldsOnce(m_send', Tells(t))
  BY <1>1, <1>3 DEF Alone
<1>6. CASE t = new
  <2>1. Alone(t)'
    BY <1>1, <1>3, <1>4, <1>5, <1>6 DEF Alone
  <2>2. OneNotice(t)'
    BY <1>1 DEF OneNotice, GoesOut
  <2> QED  BY <2>1, <2>2
<1>7. CASE t # new
  BY <1>1, <1>3, <1>4, <1>5, <1>7, StaysThere
<1> QED  BY <1>6, <1>7

\* A command takes the oldest request and has something to say about it, or not.
LEMMA IsTaken ==
  ASSUME Typed, OnePlace, NEW func, Takes(func),
         \/ command' = Idle
         \/ \E f \in Told : command' = About(f) /\ TellsOf(f) = AsksFor(Head(m_recv))
  PROVE  OnePlace'
<1> SUFFICES ASSUME NEW t \in Things
             PROVE  Alone(t)' /\ OneNotice(t)'
  BY DEF OnePlace
<1> DEFINE m == Head(m_recv)
<1>1. /\ Alone(t) /\ OneNotice(t) /\ m \in Asked
      /\ m_recv \in Seq(Asked) /\ m_recv # <<>> /\ m_recv' = Tail(m_recv)
      /\ command = Idle /\ UNCHANGED <<m_send, sent, acked, inbox>>
  BY Taking DEF OnePlace
<1>2. /\ Waits(t) <=> (m \in Asks(t) \/ Waits(t)')
      /\ HoldsOnce(m_recv, Asks(t)) => /\ HoldsOnce(m_recv', Asks(t))
                                       /\ ~(m \in Asks(t) /\ Waits(t)')
  BY <1>1, TailHolds DEF Waits
<1>3. ~GoesOut(t)' /\ (InHand(t)' => m \in Asks(t))
  <2>1. CASE command' = Idle
    BY <2>1, NotIdle DEF InHand, GoesOut
  <2>2. ASSUME NEW f \in Told, command' = About(f), TellsOf(f) = AsksFor(m)
        PROVE  ~GoesOut(t)' /\ (InHand(t)' => m \in Asks(t))
    BY <1>1, <2>2, NewCommand, AboutOne DEF InHand, GoesOut
  <2> QED  BY <2>1, <2>2
<1>4. /\ Queued(t)' <=> Queued(t)
      /\ Begun(t)' <=> Begun(t)
      /\ ~InHand(t) /\ ~GoesOut(t)
      /\ \A n \in Numbers : Arrived(n, t)' <=> Arrived(n, t)
  BY <1>1, NotIdle DEF InHand, GoesOut, Queued, Arrived, Begun, Sent
<1>5. HoldsOnce(m_send', Tells(t))
  BY <1>1 DEF Alone
<1>6. Alone(t)'
  BY <1>1, <1>2, <1>3, <1>4, <1>5 DEF Alone
<1>7. OneNotice(t)'
  BY <1>1, <1>3 DEF OneNotice
<1> QED  BY <1>6, <1>7

LEMMA IsQueued ==
  ASSUME Typed, OnePlace, AppendSend
  PROVE  OnePlace'
<1> SUFFICES ASSUME NEW t \in Things
             PROVE  Alone(t)' /\ OneNotice(t)'
  BY DEF OnePlace
<1> DEFINE f == command.notice
<1>1. /\ Alone(t) /\ OneNotice(t) /\ f \in Told /\ command.step = "append"
      /\ m_send \in Seq(Told) /\ m_send' = Append(m_send, f) /\ command' = Idle
      /\ UNCHANGED <<m_recv, sent, acked, inbox>>
  BY CommandParts DEF OnePlace, AppendSend, Queue, Typed
<1>2. /\ Queued(t)' <=> (Queued(t) \/ InHand(t))
      /\ HoldsOnce(m_send, Tells(t)) /\ ~(Queued(t) /\ InHand(t)) => HoldsOnce(m_send', Tells(t))
  BY <1>1, OfAppend DEF Queued, InHand
<1>3. /\ Waits(t)' <=> Waits(t)
      /\ Begun(t)' <=> Begun(t)
      /\ ~InHand(t)' /\ ~GoesOut(t)' /\ ~GoesOut(t)
      /\ \A n \in Numbers : Arrived(n, t)' <=> Arrived(n, t)
  BY <1>1, NotIdle DEF InHand, GoesOut, Waits, Arrived, Begun, Sent
<1>4. HoldsOnce(m_recv', Asks(t)) /\ HoldsOnce(m_send', Tells(t))
  BY <1>1, <1>2 DEF Alone
<1>5. Alone(t)'
  BY <1>1, <1>2, <1>3, <1>4 DEF Alone
<1>6. OneNotice(t)'
  BY <1>1, <1>3 DEF OneNotice
<1> QED  BY <1>5, <1>6

LEMMA IsFetched ==
  ASSUME Typed, OnePlace, FetchSend
  PROVE  OnePlace'
<1> SUFFICES ASSUME NEW t \in Things
             PROVE  Alone(t)' /\ OneNotice(t)'
  BY DEF OnePlace
<1> DEFINE f == Head(m_send)
<1>1. /\ Alone(t) /\ OneNotice(t) /\ f \in Told /\ 1 \in DOMAIN f.to
      /\ m_send \in Seq(Told) /\ m_send # <<>> /\ m_send' = Tail(m_send)
      /\ command = Idle /\ command' = At(f, 1)
      /\ UNCHANGED <<m_recv, sent, acked, inbox>>
  BY Fetching DEF OnePlace
<1>2. /\ Queued(t) <=> (f \in Tells(t) \/ Queued(t)')
      /\ HoldsOnce(m_send, Tells(t)) => /\ HoldsOnce(m_send', Tells(t))
                                        /\ ~(f \in Tells(t) /\ Queued(t)')
  BY <1>1, TailHolds DEF Queued
<1>3. /\ ~InHand(t) /\ ~GoesOut(t) /\ ~InHand(t)'
      /\ GoesOut(t)' <=> f \in Tells(t)
  <2>1. command'.step = "send" /\ command'.notice = f
    BY <1>1, Loop
  <2> QED  BY <1>1, <2>1, NotIdle DEF InHand, GoesOut
<1>4. /\ Waits(t)' <=> Waits(t)
      /\ Begun(t)' <=> Begun(t)
      /\ \A n \in Numbers : Arrived(n, t)' <=> Arrived(n, t)
  BY <1>1 DEF Waits, Arrived, Begun, Sent
<1>5. HoldsOnce(m_recv', Asks(t)) /\ HoldsOnce(m_send', Tells(t))
  BY <1>1, <1>2 DEF Alone
<1>6. Alone(t)'
  BY <1>1, <1>2, <1>3, <1>4, <1>5 DEF Alone
<1>7. OneNotice(t)'
  <2>1. GoesOut(t)' => \A n \in Numbers : ~Arrived(n, t)
    BY <1>1, <1>2, <1>3 DEF Alone
  <2>2. GoesOut(t)' => \A n \in Numbers : \A i \in DOMAIN inbox[n] : inbox[n][i] \notin Tells(t)
    BY <2>1 DEF Arrived, Holds
  <2> QED  BY <1>1, <2>2 DEF OneNotice
<1> QED  BY <1>6, <1>7

LEMMA IsDelivered ==
  ASSUME Typed, OnePlace, Deliver
  PROVE  OnePlace'
<1> SUFFICES ASSUME NEW t \in Things
             PROVE  Alone(t)' /\ OneNotice(t)'
  BY DEF OnePlace
<1> DEFINE Goes(f, i) ==
       /\ command = At(f, i) /\ command.step = "send" /\ command.notice = f
       /\ \/ command' = Idle
          \/ i + 1 \in DOMAIN f.to /\ f.state = "INCOMING" /\ command' = At(f, i + 1)
       /\ \/ inbox' = inbox
          \/ /\ inbox' = [inbox EXCEPT ![f.to[i]] = Append(@, f)]
             /\ f.to[i] \in Numbers /\ f.length <= Room
       /\ UNCHANGED <<online, m_recv, m_send, sent, acked, left, logouts>>
<1>1. PICK f \in Told : \E i \in DOMAIN f.to : Goes(f, i)
  BY Delivering
<1>2. PICK i \in DOMAIN f.to : Goes(f, i)
  BY <1>1
<1>3. Alone(t) /\ OneNotice(t)
  BY DEF OnePlace
<1>4. /\ GoesOut(t) <=> f \in Tells(t)
      /\ GoesOut(t)' => GoesOut(t) /\ f.state = "INCOMING" /\ command'.notice = f
      /\ ~InHand(t) /\ ~InHand(t)'
  <2>1. \/ command'.step = "send" /\ command'.notice = f /\ f.state = "INCOMING"
        \/ command' = Idle
    BY <1>2, Loop
  <2> QED  BY <1>2, <2>1, NotIdle DEF InHand, GoesOut
<1>5. ASSUME NEW n \in Numbers
      PROVE  /\ Arrived(n, t)' => Arrived(n, t) \/ GoesOut(t)
             /\ \A j \in DOMAIN inbox'[n] : inbox'[n][j] \in Tells(t) =>
                   \/ j \in DOMAIN inbox[n] /\ inbox'[n][j] = inbox[n][j]
                   \/ GoesOut(t) /\ inbox'[n][j] = f
             /\ HoldsOnce(inbox'[n], Answering(t))
  <2>1. /\ inbox[n] \in Seq(Told)
        /\ inbox'[n] = inbox[n] \/ inbox'[n] = Append(inbox[n], f)
        /\ \A j \in DOMAIN inbox'[n] : \/ j \in DOMAIN inbox[n] /\ inbox'[n][j] = inbox[n][j]
                                       \/ inbox'[n][j] = f
    BY <1>2, InboxGrows
  <2>2. Arrived(n, t)' => Arrived(n, t) \/ GoesOut(t)
    BY <1>4, <2>1 DEF Arrived, Holds
  <2>3. HoldsOnce(inbox'[n], Answering(t))
    <3>1. ~(Holds(inbox[n], Answering(t)) /\ f \in Answering(t))
      BY <1>2, <1>3, <1>4 DEF OneNotice, Holds, Answering
    <3>2. HoldsOnce(inbox[n], Answering(t))
      BY <1>3 DEF OneNotice
    <3>3. CASE inbox'[n] = inbox[n]
      BY <3>2, <3>3
    <3>4. CASE inbox'[n] = Append(inbox[n], f)
      BY <2>1, <3>1, <3>2, <3>4, OfAppend
    <3> QED  BY <2>1, <3>3, <3>4
  <2> QED  BY <1>4, <2>1, <2>2, <2>3
<1>6. /\ Waits(t)' <=> Waits(t)
      /\ Queued(t)' <=> Queued(t)
      /\ Begun(t)' <=> Begun(t)
      /\ HoldsOnce(m_recv', Asks(t)) /\ HoldsOnce(m_send', Tells(t))
  BY <1>2, <1>3 DEF Waits, Queued, Begun, Sent, Alone
<1>7. Alone(t)'
  BY <1>3, <1>4, <1>5, <1>6 DEF Alone
<1>8. OneNotice(t)'
  <2>1. ASSUME NEW n \in Numbers, NEW j \in DOMAIN inbox[n], GoesOut(t), inbox[n][j] \in Tells(t)
        PROVE  inbox[n][j] = f
    BY <1>2, <1>3, <2>1 DEF OneNotice
  <2>2. ASSUME NEW n \in Numbers, NEW p \in Numbers, NEW j \in DOMAIN inbox'[n],
               NEW k \in DOMAIN inbox'[p], inbox'[n][j] \in Tells(t), inbox'[p][k] \in Tells(t)
        PROVE  inbox'[n][j] = inbox'[p][k]
    <3>1. /\ \/ j \in DOMAIN inbox[n] /\ inbox'[n][j] = inbox[n][j]
             \/ GoesOut(t) /\ inbox'[n][j] = f
          /\ \/ k \in DOMAIN inbox[p] /\ inbox'[p][k] = inbox[p][k]
             \/ GoesOut(t) /\ inbox'[p][k] = f
      BY <1>5, <2>2
    <3> QED  BY <1>3, <2>1, <2>2, <3>1 DEF OneNotice
  <2>3. ASSUME GoesOut(t)', NEW n \in Numbers, NEW j \in DOMAIN inbox'[n], inbox'[n][j] \in Tells(t)
        PROVE  inbox'[n][j] = command'.notice /\ command'.notice.state = "INCOMING"
    BY <1>4, <1>5, <2>1, <2>3
  <2> QED  BY <1>5, <2>2, <2>3 DEF OneNotice
<1> QED  BY <1>7, <1>8

LEMMA SentOne ==
  ASSUME Typed, NEW m \in Asked, sent' = Append(sent, m), NEW u
  PROVE  Sent(u)' <=> (Sent(u) \/ u = m.uuid)
<1>1. sent \in Seq(Asked)
  BY DEF Typed
<1> DEFINE S == {r \in Asked : r.uuid = u}
<1>2. Sent(u) <=> Holds(sent, S)
  BY <1>1 DEF Sent, Holds
<1>3. sent' \in Seq(Asked)
  BY <1>1
<1>4. Sent(u)' <=> Holds(sent', S)
  BY <1>3 DEF Sent, Holds
<1>5. Holds(sent', S) <=> (Holds(sent, S) \/ m \in S)
  BY <1>1, OfAppend
<1> QED  BY <1>2, <1>4, <1>5

LEMMA StepOnePlace ==
  ASSUME Typed, OnePlace, [Next]_vars
  PROVE  OnePlace'
<1>1. ASSUME NEW u \in Uuids, NEW to \in Lists, NEW length \in Lengths, SendMessage(u, to, length)
      PROVE  OnePlace'
  <2>1. PICK m \in Asked : /\ m.uuid = u /\ m.func = "SEND_MESSAGE"
                           /\ m_recv' = Append(m_recv, m) /\ sent' = Append(sent, m)
    BY <1>1, SendAsked DEF SendMessage
  <2>2. AsksFor(m).kind = "message" /\ AsksFor(m).uuid = u
    BY <2>1 DEF AsksFor
  <2>3. ~Begun(AsksFor(m)) /\ Begun(AsksFor(m))' /\ \A t \in Things : Begun(t) => Begun(t)'
    BY <1>1, <2>1, <2>2, SentOne DEF SendMessage, Begun
  <2> QED  BY <1>1, <2>1, <2>3, Begins DEF SendMessage
<1>2. ASSUME NEW n \in Numbers, NEW u \in Uuids, RecvMessage(n, u)
      PROVE  OnePlace'
  <2>1. PICK m \in Asked : /\ m.uuid = u /\ m.func = "RECV_MESSAGE" /\ m.from = n
                           /\ m_recv' = Append(m_recv, m)
    BY <1>2, RecvAsked DEF RecvMessage
  <2>2. AsksFor(m).kind = "receipt" /\ AsksFor(m).uuid = u /\ AsksFor(m).by = n
    BY <2>1 DEF AsksFor
  <2>3. ~Begun(AsksFor(m)) /\ Begun(AsksFor(m))' /\ \A t \in Things : Begun(t) => Begun(t)'
    BY <1>2, <2>2 DEF RecvMessage, Begun, Sent
  <2> QED  BY <1>2, <2>1, <2>3, Begins DEF RecvMessage
<1>3. CASE (\E n \in Numbers : Logout(n) \/ Login(n)) \/ UNCHANGED vars
  BY <1>3, NothingMoves DEF Logout, Login, vars
<1>4. CASE SendShortMsg
  <2>1. \E f \in Told : command' = About(f) /\ TellsOf(f) = AsksFor(Head(m_recv))
    BY <1>4, SendSays, Taking DEF SendShortMsg, TellsOf, AsksFor
  <2> QED  BY <1>4, <2>1, IsTaken DEF SendShortMsg
<1>5. CASE RecvShortMsg
  <2>1. \/ command' = Idle
        \/ \E f \in Told : command' = About(f) /\ TellsOf(f) = AsksFor(Head(m_recv))
    BY <1>5, RecvSays, Taking DEF RecvShortMsg, TellsOf, AsksFor
  <2> QED  BY <1>5, <2>1, IsTaken DEF RecvShortMsg
<1> QED
  BY <1>1, <1>2, <1>3, <1>4, <1>5, IsQueued, IsFetched, IsDelivered DEF Next, Terminal, Processor
-----------------------------------------------------------------------------
(* A sender is told the truth.                                             *)

LEMMA GotKept ==
  ASSUME Typed, [Next]_vars, NEW n \in Numbers, NEW u, NEW states, Got(n, u, states)
  PROVE  Got(n, u, states)'
<1>1. CASE inbox' = inbox
  BY <1>1 DEF Got
<1>2. CASE Deliver /\ inbox' # inbox
  <2>1. PICK f \in Told : \E i \in DOMAIN f.to : inbox' = [inbox EXCEPT ![f.to[i]] = Append(@, f)]
    BY <1>2, Delivering
  <2>2. \A i \in DOMAIN inbox[n] : i \in DOMAIN inbox'[n] /\ inbox'[n][i] = inbox[n][i]
    BY <2>1, InboxGrows
  <2> QED  BY <2>2 DEF Got
<1>3. ~Deliver => inbox' = inbox
  BY DEF Next, Terminal, Processor, SendMessage, RecvMessage, Logout, Login, SendShortMsg,
         RecvShortMsg, Takes, AppendSend, FetchSend, vars
<1> QED  BY <1>1, <1>2, <1>3

LEMMA StepAckedWasGot ==
  ASSUME Typed, AckedWasGot, [Next]_vars
  PROVE  AckedWasGot'
<1> SUFFICES ASSUME NEW ack \in acked'
             PROVE  Got(ack[1], ack[2], Incoming)'
  BY DEF AckedWasGot
<1>1. CASE ack \in acked
  <2>1. ack[1] \in Numbers
    BY <1>1 DEF Typed
  <2> QED  BY <1>1, <2>1, GotKept DEF AckedWasGot
<1>2. CASE ack \notin acked
  <2>1. PICK n \in Numbers, u \in Uuids : RecvMessage(n, u)
    BY <1>2 DEF Next, Terminal, Processor, SendMessage, RecvMessage, Logout, Login,
                SendShortMsg, RecvShortMsg, Takes, AppendSend, FetchSend, Deliver, vars
  <2>2. ack = <<n, u>> /\ Got(n, u, Incoming)
    BY <1>2, <2>1 DEF RecvMessage, Incoming
  <2> QED  BY <2>1, <2>2, GotKept
<1> QED  BY <1>1, <1>2

LEMMA TruthFollows ==
  ASSUME IInv
  PROVE  AnswersAreTrue
<1> SUFFICES ASSUME NEW u \in Uuids
             PROVE  LET box == inbox[From[u]]
                        Answers == {i \in DOMAIN box : box[i].uuid = u /\ box[i].state # "INCOMING"}
                    IN  /\ \A i \in Answers :
                             box[i].state = "RECIVED" => Got(box[i].from, u, {"INCOMING"})
                        /\ Got(From[u], u, Refusals) =>
                             \A n \in Numbers : ~Got(n, u, {"INCOMING"})
                        /\ \A i, j \in Answers : i # j =>
                             /\ box[i].state = "RECIVED" /\ box[j].state = "RECIVED"
                             /\ box[i].from # box[j].from
  BY DEF AnswersAreTrue
<1> DEFINE own == From[u]
           box == inbox[own]
           Answers == {i \in DOMAIN box : box[i].uuid = u /\ box[i].state # "INCOMING"}
           it == Message(u)
<1>1. own \in Numbers /\ Typed /\ it \in Things
  BY ConstantsAssumption DEF IInv, Message, Things, Kinds
<1>2. ASSUME NEW n \in Numbers, NEW i \in DOMAIN inbox[n], inbox[n][i].uuid = u
      PROVE  /\ inbox[n][i] \in Told
             /\ inbox[n][i].state # "RECIVED" => inbox[n][i] \in Tells(it)
  <2>1. inbox[n][i] \in Told
    BY <1>1 DEF Typed
  <2>2. inbox[n][i].state # "RECIVED" => TellsOf(inbox[n][i]) = it
    BY <1>2, <2>1 DEF Told, TellsOf, Message
  <2> QED  BY <2>1, <2>2, AboutOne
\* A receipt was sent by a terminal that has got the message.
<1>3. ASSUME NEW i \in DOMAIN box, box[i].uuid = u, box[i].state = "RECIVED"
      PROVE  Got(box[i].from, u, {"INCOMING"})
  <2> DEFINE t == TellsOf(box[i])
  <2>1. t \in Things /\ box[i] \in Tells(t)
    BY <1>1, <1>2, <1>3, AboutOne
  <2>2. Arrived(own, t)
    BY <2>1 DEF Arrived, Holds
  <2>3. Begun(t)
    BY <1>1, <2>1, <2>2 DEF IInv, OnePlace, Alone
  <2>4. <<box[i].from, u>> \in acked
    BY <1>3, <2>3 DEF Begun, TellsOf
  <2> QED  BY <2>4 DEF IInv, AckedWasGot, Incoming
\* What is no receipt is the same for everybody.
<1>4. ASSUME NEW n \in Numbers, NEW p \in Numbers, NEW i \in DOMAIN inbox[n],
             NEW j \in DOMAIN inbox[p],
             inbox[n][i].uuid = u, inbox[p][j].uuid = u,
             inbox[n][i].state # "RECIVED", inbox[p][j].state # "RECIVED"
      PROVE  inbox[n][i].state = inbox[p][j].state
  <2>1. inbox[n][i] \in Tells(it) /\ inbox[p][j] \in Tells(it)
    BY <1>2, <1>4
  <2> QED  BY <1>1, <2>1 DEF IInv, OnePlace, OneNotice
<1>5. Got(own, u, Refusals) => \A n \in Numbers : ~Got(n, u, {"INCOMING"})
  <2>1. "INCOMING" \notin Refusals /\ "RECIVED" \notin Refusals
    BY DEF Refusals
  <2> QED  BY <1>1, <1>4, <2>1 DEF Got
<1>6. ASSUME NEW i \in Answers
      PROVE  box[i].state = "RECIVED" \/ box[i].state \in Refusals
  BY <1>1, <1>2 DEF Told, Frames
<1>7. ASSUME NEW i \in Answers, NEW j \in Answers, box[i].state = "RECIVED",
             box[j].state # "RECIVED"
      PROVE  FALSE
  <2>1. Got(own, u, Refusals)
    BY <1>6, <1>7 DEF Got
  <2>2. box[i].from \in Numbers
    BY <1>1, <1>2, <1>7 DEF Told, Frames
  <2> QED  BY <1>3, <1>5, <1>7, <2>1, <2>2
<1>8. ASSUME NEW i \in Answers, NEW j \in Answers,
             TellsOf(box[i]) = TellsOf(box[j])
      PROVE  i = j
  <2> DEFINE t == TellsOf(box[i])
  <2>1. t \in Things /\ box[i] \in Answering(t) /\ box[j] \in Answering(t)
    BY <1>1, <1>2, <1>8, AboutOne DEF Answering
  <2>2. HoldsOnce(box, Answering(t))
    BY <1>1, <2>1 DEF IInv, OnePlace, OneNotice
  <2> QED  BY <2>1, <2>2 DEF HoldsOnce
<1>9. ASSUME NEW i \in Answers, NEW j \in Answers, i # j
      PROVE  /\ box[i].state = "RECIVED" /\ box[j].state = "RECIVED"
             /\ box[i].from # box[j].from
  <2>1. box[i].state = "RECIVED" <=> box[j].state = "RECIVED"
    BY <1>7
  <2>2. CASE box[i].state # "RECIVED"
    <3>1. box[i] \in Tells(it) /\ box[j] \in Tells(it)
      BY <1>1, <1>2, <2>1, <2>2
    <3>2. TellsOf(box[i]) = TellsOf(box[j])
      BY <3>1 DEF Tells
    <3> QED  BY <1>8, <1>9, <3>2
  <2>3. CASE box[i].state = "RECIVED" /\ box[i].from = box[j].from
    BY <1>8, <1>9, <2>1, <2>3 DEF TellsOf
  <2> QED  BY <2>1, <2>2, <2>3
<1> QED  BY <1>3, <1>5, <1>9

LEMMA Invariant == SafeSpec => []IInv
<1>1. Init => IInv
  <2> SUFFICES ASSUME Init
               PROVE  IInv
    OBVIOUS
  <2>1. Typed
    BY InitTyped
  <2>2. DOMAIN m_recv = {} /\ DOMAIN m_send = {} /\ acked = {} /\ command = Idle
        /\ \A n \in Numbers : inbox[n] = <<>>
    BY Empty DEF Init
  <2>3. \A n \in Numbers : DOMAIN inbox[n] = {}
    BY <2>2, Empty
  <2>4. ASSUME NEW t \in Things
        PROVE  Alone(t) /\ OneNotice(t)
    <3>1. ~Waits(t) /\ ~InHand(t) /\ ~Queued(t) /\ ~GoesOut(t) /\ \A n \in Numbers : ~Arrived(n, t)
      BY <2>2, <2>3, NotIdle DEF Waits, InHand, Queued, GoesOut, Arrived, Holds
    <3> QED  BY <2>2, <2>3, <3>1 DEF Alone, OneNotice, HoldsOnce
  <2>5. AckedWasGot
    BY <2>2 DEF AckedWasGot
  <2> QED  BY <2>1, <2>4, <2>5 DEF IInv, OnePlace
<1>2. IInv /\ [Next]_vars => IInv'
  BY StepTyped, StepOnePlace, StepAckedWasGot DEF IInv
<1> QED  BY <1>1, <1>2, PTL DEF SafeSpec

\* A sender gets a receipt only by a receiver that has got the message whole, one
\* by each of them, and a refusal only alone and for a message that nobody gets.
THEOREM SendersAreToldTheTruth == SafeSpec => []AnswersAreTrue
  BY Invariant, TruthFollows, PTL
-----------------------------------------------------------------------------
(* Messages arrive in the order they were sent.                            *)

LEMMA OrderOfAppend ==
  ASSUME NEW T, NEW s \in Seq(T), NEW x \in T, NEW S, NEW history, InOrder(s, S, history),
         \A i \in DOMAIN s : s[i] \in S /\ x \in S /\ s[i].uuid # x.uuid =>
            Precedes(history, s[i].uuid, x.uuid)
  PROVE  InOrder(Append(s, x), S, history)
<1> DEFINE t == Append(s, x)
<1>1. /\ Len(s) \in Nat /\ DOMAIN s = 1..Len(s) /\ DOMAIN t = 1..(Len(s) + 1)
      /\ t[Len(s) + 1] = x /\ \A i \in 1..Len(s) : t[i] = s[i]
  OBVIOUS
<1> SUFFICES ASSUME NEW i \in DOMAIN t, NEW j \in DOMAIN t, i < j, t[i] \in S, t[j] \in S,
                    t[i].uuid # t[j].uuid
             PROVE  Precedes(history, t[i].uuid, t[j].uuid)
  BY DEF InOrder
<1>2. i \in DOMAIN s /\ t[i] = s[i] /\ ((j \in DOMAIN s /\ t[j] = s[j]) \/ t[j] = x)
  BY <1>1
<1> QED  BY <1>2 DEF InOrder

LEMMA OrderOfTail ==
  ASSUME NEW T, NEW s \in Seq(T), s # <<>>, NEW S, NEW history, InOrder(s, S, history)
  PROVE  /\ InOrder(Tail(s), S, history)
         /\ \A i \in DOMAIN Tail(s) : 
               Head(s) \in S /\ Tail(s)[i] \in S /\ Head(s).uuid # Tail(s)[i].uuid =>
               Precedes(history, Head(s).uuid, Tail(s)[i].uuid)
<1>1. ASSUME NEW i \in DOMAIN Tail(s), NEW j \in DOMAIN Tail(s), i < j, Tail(s)[i] \in S,
             Tail(s)[j] \in S, Tail(s)[i].uuid # Tail(s)[j].uuid
      PROVE  Precedes(history, Tail(s)[i].uuid, Tail(s)[j].uuid)
  <2>1. /\ i \in Nat /\ j \in Nat /\ i + 1 \in DOMAIN s /\ j + 1 \in DOMAIN s
        /\ Tail(s)[i] = s[i + 1] /\ Tail(s)[j] = s[j + 1]
    BY OfTail
  <2>2. i + 1 < j + 1
    BY <1>1, <2>1
  <2> QED  BY <1>1, <2>1, <2>2 DEF InOrder
<1>2. ASSUME NEW i \in DOMAIN Tail(s), Head(s) \in S, Tail(s)[i] \in S,
             Head(s).uuid # Tail(s)[i].uuid
      PROVE  Precedes(history, Head(s).uuid, Tail(s)[i].uuid)
  <2>1. /\ i \in Nat \ {0} /\ i + 1 \in DOMAIN s /\ Tail(s)[i] = s[i + 1]
        /\ 1 \in DOMAIN s /\ Head(s) = s[1]
    BY OfTail
  <2>2. 1 < i + 1
    BY <2>1
  <2> QED  BY <1>2, <2>1, <2>2 DEF InOrder
<1> QED  BY <1>1, <1>2 DEF InOrder

\* What is sent stays in order, and comes after what was sent before it.
LEMMA SentLater ==
  ASSUME Typed, NEW m \in Asked, sent' = Append(sent, m)
  PROVE  /\ \A u, v : Before(u, v) => Precedes(sent', u, v)
         /\ \A u : Sent(u) => Precedes(sent', u, m.uuid)
<1>1. /\ Len(sent) \in Nat /\ DOMAIN sent = 1..Len(sent) /\ DOMAIN sent' = 1..(Len(sent) + 1)
      /\ sent'[Len(sent) + 1] = m /\ \A i \in 1..Len(sent) : sent'[i] = sent[i]
  BY DEF Typed
<1>2. \A i \in 1..Len(sent) : i \in DOMAIN sent' /\ i < Len(sent) + 1
  BY <1>1
<1>3. Len(sent) + 1 \in DOMAIN sent'
  BY <1>1
<1>4. \A u, v : Before(u, v) => Precedes(sent', u, v)
  BY <1>1, <1>2 DEF Before, Precedes
<1>5. \A u : Sent(u) => Precedes(sent', u, m.uuid)
  BY <1>1, <1>2, <1>3 DEF Sent, Precedes
<1> QED  BY <1>4, <1>5

\* A message that is asked for, or told, is on its way.
LEMMA AskingTelling ==
  /\ \A m \in Asking : m \in Asks(Message(m.uuid)) /\ m.uuid \in Uuids
  /\ \A f \in Telling : f \in Tells(Message(f.uuid)) /\ f.uuid \in Uuids
  /\ \A u, m : m \in Asks(Message(u)) => m \in Asking /\ m.uuid = u
  /\ \A u, f : f \in Tells(Message(u)) => f \in Telling /\ f.uuid = u
<1>1. ASSUME NEW m \in Asking
      PROVE  m \in Asks(Message(m.uuid)) /\ m.uuid \in Uuids
  BY DEF Asking, Asks, AsksFor, Message, Asked, Requests
<1>2. ASSUME NEW f \in Telling
      PROVE  f \in Tells(Message(f.uuid)) /\ f.uuid \in Uuids
  BY DEF Telling, Tells, TellsOf, Message, Told, Frames
<1>3. ASSUME NEW u, NEW m \in Asks(Message(u))
      PROVE  m \in Asking /\ m.uuid = u
  <2>1. m \in Asked /\ AsksFor(m).kind = "message" /\ AsksFor(m).uuid = u
    BY <1>3 DEF Asks, Message
  <2> QED  BY <2>1 DEF AsksFor, Asking, Asked, Requests
<1>4. ASSUME NEW u, NEW f \in Tells(Message(u))
      PROVE  f \in Telling /\ f.uuid = u
  <2>1. f \in Told /\ TellsOf(f).kind = "message" /\ TellsOf(f).uuid = u
    BY <1>4 DEF Tells, Message
  <2> QED  BY <2>1 DEF TellsOf, Telling
<1> QED  BY <1>1, <1>2, <1>3, <1>4

LEMMA OnItsWay ==
  ASSUME Typed
  PROVE  /\ \A i \in DOMAIN m_recv : m_recv[i] \in Asking => Waits(Message(m_recv[i].uuid))
         /\ \A i \in DOMAIN m_send : m_send[i] \in Telling => Queued(Message(m_send[i].uuid))
         /\ \A n \in Numbers : \A i \in DOMAIN inbox[n] :
               inbox[n][i] \in Telling => Arrived(n, Message(inbox[n][i].uuid))
  BY AskingTelling DEF Waits, Queued, Arrived, Holds

LEMMA HasBegun ==
  ASSUME IInv, NEW u \in Uuids
  PROVE  /\ Alone(Message(u))
         /\ \/ Waits(Message(u)) \/ InHand(Message(u)) \/ Queued(Message(u)) \/ GoesOut(Message(u))
            \/ \E n \in Numbers : Arrived(n, Message(u))
            => Sent(u)
<1>1. Message(u) \in Things /\ (Begun(Message(u)) <=> Sent(u))
  BY ConstantsAssumption DEF Message, Things, Kinds, Begun
<1> QED  BY <1>1 DEF IInv, OnePlace, Alone

LEMMA SortedSend ==
  ASSUME IInv, Sorted, NEW u \in Uuids, NEW to \in Lists, NEW length \in Lengths,
         SendMessage(u, to, length)
  PROVE  Sorted'
<1>1. PICK m \in Asked : /\ m.uuid = u /\ m.func = "SEND_MESSAGE"
                         /\ m_recv' = Append(m_recv, m) /\ sent' = Append(sent, m)
                         /\ UNCHANGED <<m_send, command, inbox>>
  BY SendAsked DEF SendMessage, IInv
<1>2. /\ \A v, w : Before(v, w) => Before(v, w)'
      /\ \A v : Sent(v) => Before(v, u)'
  BY <1>1, SentLater DEF IInv, Before
<1>3. \A s, S : InOrder(s, S, sent) => InOrder(s, S, sent')
  BY <1>2 DEF InOrder, Before
<1>4. InOrder(m_recv', Asking, sent')
  <2>1. ASSUME NEW i \in DOMAIN m_recv, m_recv[i] \in Asking
        PROVE  Precedes(sent', m_recv[i].uuid, m.uuid)
    <3>1. m_recv[i].uuid \in Uuids /\ Waits(Message(m_recv[i].uuid))
      BY <2>1, OnItsWay, AskingTelling DEF IInv
    <3>2. Sent(m_recv[i].uuid)
      BY <3>1, HasBegun
    <3> QED  BY <1>1, <1>2, <3>2 DEF Before
  <2>2. InOrder(m_recv, Asking, sent') /\ m_recv \in Seq(Asked)
    BY <1>3 DEF Sorted, IInv, Typed
  <2> QED  BY <1>1, <2>1, <2>2, OrderOfAppend
<1>5. InOrder(m_send', Telling, sent') /\ \A n \in Numbers : InOrder(inbox'[n], Telling, sent')
  BY <1>1, <1>3 DEF Sorted
<1>6. ASSUME NEW v \in Uuids
      PROVE  /\ Waits(Message(v))' => (Waits(Message(v)) \/ v = u)
             /\ InHand(Message(v))' <=> InHand(Message(v))
             /\ Queued(Message(v))' <=> Queued(Message(v))
             /\ GoesOut(Message(v))' <=> GoesOut(Message(v))
             /\ \A n \in Numbers : Arrived(n, Message(v))' <=> Arrived(n, Message(v))
  <2>1. m \in Asks(Message(v)) => v = u
    BY <1>1, AskingTelling
  <2>2. Waits(Message(v))' => (Waits(Message(v)) \/ v = u)
    BY <1>1, <2>1, OfAppend DEF Waits, IInv, Typed
  <2> QED  BY <1>1, <2>2 DEF InHand, Queued, GoesOut, Arrived
<1>7. Precede'
  <2> SUFFICES ASSUME NEW v \in Uuids, NEW w \in Uuids, v # w, Overtakes(v, w)'
               PROVE  Before(v, w)'
    BY DEF Precede
  <2>1. Overtakes(v, w) \/ (w = u /\ Sent(v))
    BY <1>6, HasBegun DEF Overtakes
  <2> QED  BY <1>2, <2>1 DEF Sorted, Precede
<1> QED  BY <1>4, <1>5, <1>7 DEF Sorted

\* The steps of the processor do not change what was sent.
LEMMA SortedTake ==
  ASSUME IInv, Sorted, SendShortMsg \/ RecvShortMsg
  PROVE  Sorted'
<1> DEFINE m == Head(m_recv)
<1>1. /\ m_recv \in Seq(Asked) /\ m_recv # <<>> /\ m_recv' = Tail(m_recv) /\ m \in Asked
      /\ command = Idle /\ UNCHANGED <<m_send, sent, inbox>>
  BY Taking DEF SendShortMsg, RecvShortMsg, IInv
<1>2. InOrder(m_recv', Asking, sent')
      /\ \A i \in DOMAIN m_recv' :
            m \in Asking /\ m_recv'[i] \in Asking /\ m.uuid # m_recv'[i].uuid
              => Before(m.uuid, m_recv'[i].uuid)
  BY <1>1, OrderOfTail DEF Sorted, Before
<1>3. InOrder(m_send', Telling, sent') /\ \A n \in Numbers : InOrder(inbox'[n], Telling, sent')
  BY <1>1 DEF Sorted
<1>4. \/ command' = Idle
      \/ \E f \in Told : command' = About(f) /\ TellsOf(f) = AsksFor(m)
  BY SendSays, RecvSays, Taking DEF IInv, SendShortMsg, RecvShortMsg, TellsOf, AsksFor
<1>5. ASSUME NEW v \in Uuids
      PROVE  /\ Waits(Message(v))' => Waits(Message(v))
             /\ InHand(Message(v))' => m \in Asking /\ v = m.uuid /\ Waits(Message(v))
             /\ Queued(Message(v))' <=> Queued(Message(v))
             /\ ~GoesOut(Message(v))'
             /\ \A n \in Numbers : Arrived(n, Message(v))' <=> Arrived(n, Message(v))
  <2>1. /\ Waits(Message(v))' => Waits(Message(v))
        /\ m \in Asks(Message(v)) => Waits(Message(v))
    BY <1>1, TailHolds DEF Waits
  <2>2. ~GoesOut(Message(v))' /\ (InHand(Message(v))' => m \in Asks(Message(v)))
    <3>1. CASE command' = Idle
      BY <3>1, NotIdle DEF InHand, GoesOut
    <3>2. ASSUME NEW f \in Told, command' = About(f), TellsOf(f) = AsksFor(m)
          PROVE  ~GoesOut(Message(v))' /\ (InHand(Message(v))' => m \in Asks(Message(v)))
      BY <1>1, <3>2, NewCommand, AboutOne DEF InHand, GoesOut
    <3> QED  BY <1>4, <3>1, <3>2
  <2> QED  BY <1>1, <2>1, <2>2, AskingTelling DEF Queued, Arrived
<1>6. ASSUME NEW v \in Uuids, NEW w \in Uuids, v # w, InHand(Message(v))', Waits(Message(w))'
      PROVE  Before(v, w)
  <2>1. PICK i \in DOMAIN m_recv' : m_recv'[i] \in Asks(Message(w))
    BY <1>6 DEF Waits, Holds
  <2> QED  BY <1>2, <1>5, <1>6, <2>1, AskingTelling
<1>7. Precede'
  <2> SUFFICES ASSUME NEW v \in Uuids, NEW w \in Uuids, v # w, Overtakes(v, w)'
               PROVE  Before(v, w)
    BY <1>1 DEF Precede, Before
  <2>1. CASE InHand(Message(v))' /\ Waits(Message(w))'
    BY <1>6, <2>1
  <2>2. CASE ~(InHand(Message(v))' /\ Waits(Message(w))')
    <3>1. Overtakes(v, w)
      BY <1>5, <2>2 DEF Overtakes
    <3> QED  BY <3>1 DEF Sorted, Precede
  <2> QED  BY <2>1, <2>2
<1> QED  BY <1>2, <1>3, <1>7 DEF Sorted

LEMMA SortedAppend ==
  ASSUME IInv, Sorted, AppendSend
  PROVE  Sorted'
<1> DEFINE f == command.notice
<1>1. /\ f \in Told /\ command.step = "append" /\ m_send \in Seq(Told)
      /\ m_send' = Append(m_send, f) /\ command' = Idle
      /\ UNCHANGED <<m_recv, sent, inbox>>
  BY CommandParts DEF IInv, AppendSend, Queue, Typed
<1>2. ASSUME NEW i \in DOMAIN m_send, m_send[i] \in Telling, f \in Telling, m_send[i].uuid # f.uuid
      PROVE  Before(m_send[i].uuid, f.uuid)
  <2>1. /\ m_send[i].uuid \in Uuids /\ f.uuid \in Uuids
        /\ Queued(Message(m_send[i].uuid)) /\ InHand(Message(f.uuid))
    BY <1>1, <1>2, OnItsWay, AskingTelling DEF IInv, InHand
  <2> QED  BY <1>2, <2>1 DEF Sorted, Precede, Overtakes
<1>3. InOrder(m_send', Telling, sent')
  BY <1>1, <1>2, OrderOfAppend DEF Sorted, Before
<1>4. InOrder(m_recv', Asking, sent') /\ \A n \in Numbers : InOrder(inbox'[n], Telling, sent')
  BY <1>1 DEF Sorted
<1>5. ASSUME NEW v \in Uuids
      PROVE  /\ Waits(Message(v))' <=> Waits(Message(v))
             /\ ~InHand(Message(v))' /\ ~GoesOut(Message(v))'
             /\ Queued(Message(v))' => Queued(Message(v)) \/ InHand(Message(v))
             /\ \A n \in Numbers : Arrived(n, Message(v))' <=> Arrived(n, Message(v))
  BY <1>1, NotIdle, OfAppend DEF Waits, InHand, Queued, GoesOut, Arrived
<1>6. Precede'
  <2> SUFFICES ASSUME NEW v \in Uuids, NEW w \in Uuids, v # w, Overtakes(v, w)'
               PROVE  Before(v, w)
    BY <1>1 DEF Precede, Before
  <2>1. Overtakes(v, w)
    BY <1>5 DEF Overtakes
  <2> QED  BY <2>1 DEF Sorted, Precede
<1> QED  BY <1>3, <1>4, <1>6 DEF Sorted

LEMMA SortedFetch ==
  ASSUME IInv, Sorted, FetchSend
  PROVE  Sorted'
<1> DEFINE f == Head(m_send)
<1>1. /\ f \in Told /\ m_send \in Seq(Told) /\ m_send # <<>> /\ m_send' = Tail(m_send)
      /\ command'.step = "send" /\ command'.notice = f
      /\ UNCHANGED <<m_recv, sent, inbox>>
  BY Fetching, Loop DEF IInv
<1>2. /\ InOrder(m_send', Telling, sent')
      /\ \A i \in DOMAIN m_send' :
            f \in Telling /\ m_send'[i] \in Telling /\ f.uuid # m_send'[i].uuid
              => Before(f.uuid, m_send'[i].uuid)
  BY <1>1, OrderOfTail DEF Sorted, Before
<1>3. InOrder(m_recv', Asking, sent') /\ \A n \in Numbers : InOrder(inbox'[n], Telling, sent')
  BY <1>1 DEF Sorted
<1>4. ASSUME NEW v \in Uuids
      PROVE  /\ Waits(Message(v))' <=> Waits(Message(v))
             /\ ~InHand(Message(v))'
             /\ Queued(Message(v))' => Queued(Message(v))
             /\ GoesOut(Message(v))' => f \in Telling /\ v = f.uuid /\ Queued(Message(v))
             /\ \A n \in Numbers : Arrived(n, Message(v))' <=> Arrived(n, Message(v))
  <2>1. /\ Queued(Message(v))' => Queued(Message(v))
        /\ f \in Tells(Message(v)) => Queued(Message(v))
    BY <1>1, TailHolds DEF Queued
  <2> QED  BY <1>1, <2>1, AskingTelling DEF Waits, InHand, GoesOut, Arrived
<1>5. ASSUME NEW v \in Uuids, NEW w \in Uuids, v # w, GoesOut(Message(v))', Queued(Message(w))'
      PROVE  Before(v, w)
  <2>1. PICK i \in DOMAIN m_send' : m_send'[i] \in Tells(Message(w))
    BY <1>5 DEF Queued, Holds
  <2> QED  BY <1>2, <1>4, <1>5, <2>1, AskingTelling
<1>6. Precede'
  <2> SUFFICES ASSUME NEW v \in Uuids, NEW w \in Uuids, v # w, Overtakes(v, w)'
               PROVE  Before(v, w)
    BY <1>1 DEF Precede, Before
  <2>1. CASE GoesOut(Message(v))' /\ Queued(Message(w))'
    BY <1>5, <2>1
  <2>2. CASE ~(GoesOut(Message(v))' /\ Queued(Message(w))')
    <3>1. Overtakes(v, w)
      BY <1>4, <2>2 DEF Overtakes
    <3> QED  BY <3>1 DEF Sorted, Precede
  <2> QED  BY <2>1, <2>2
<1> QED  BY <1>2, <1>3, <1>6 DEF Sorted

LEMMA SortedDeliver ==
  ASSUME IInv, Sorted, Deliver
  PROVE  Sorted'
<1>1. PICK f \in Told :
         /\ command.step = "send" /\ command.notice = f
         /\ command' = Idle \/ (command'.step = "send" /\ command'.notice = f)
         /\ \E i \in DOMAIN f.to : \/ inbox' = inbox
                                    \/ inbox' = [inbox EXCEPT ![f.to[i]] = Append(@, f)]
         /\ UNCHANGED <<m_recv, m_send, sent>>
  BY Delivering, Loop DEF IInv
<1>2. ASSUME NEW n \in Numbers
      PROVE  inbox[n] \in Seq(Told) /\ (inbox'[n] = inbox[n] \/ inbox'[n] = Append(inbox[n], f))
  BY <1>1, InboxGrows DEF IInv
<1>3. ASSUME NEW n \in Numbers
      PROVE  InOrder(inbox'[n], Telling, sent')
  <2>1. ASSUME NEW i \in DOMAIN inbox[n], inbox[n][i] \in Telling, f \in Telling,
               inbox[n][i].uuid # f.uuid
        PROVE  Precedes(sent, inbox[n][i].uuid, f.uuid)
    <3>1. /\ inbox[n][i].uuid \in Uuids /\ f.uuid \in Uuids
          /\ Arrived(n, Message(inbox[n][i].uuid)) /\ GoesOut(Message(f.uuid))
      BY <1>1, <2>1, OnItsWay, AskingTelling DEF IInv, GoesOut
    <3> QED  BY <2>1, <3>1 DEF Sorted, Precede, Overtakes, Before
  <2>2. CASE inbox'[n] = inbox[n]
    BY <1>1, <2>2 DEF Sorted
  <2>3. CASE inbox'[n] = Append(inbox[n], f)
    <3>1. inbox[n] \in Seq(Told) /\ InOrder(inbox[n], Telling, sent)
      BY <1>2 DEF Sorted
    <3> QED  BY <1>1, <2>1, <2>3, <3>1, OrderOfAppend
  <2> QED  BY <1>2, <2>2, <2>3
<1>4. ASSUME NEW v \in Uuids
      PROVE  /\ Waits(Message(v))' <=> Waits(Message(v))
             /\ ~InHand(Message(v))'
             /\ Queued(Message(v))' <=> Queued(Message(v))
             /\ GoesOut(Message(v))' => GoesOut(Message(v))
             /\ \A n \in Numbers : Arrived(n, Message(v))' =>
                   Arrived(n, Message(v)) \/ GoesOut(Message(v))
  <2>1. ASSUME NEW n \in Numbers, Arrived(n, Message(v))'
        PROVE  Arrived(n, Message(v)) \/ GoesOut(Message(v))
    <3>1. CASE inbox'[n] = inbox[n]
      BY <2>1, <3>1 DEF Arrived
    <3>2. CASE inbox'[n] = Append(inbox[n], f)
      BY <1>1, <1>2, <2>1, <3>2, OfAppend DEF Arrived, GoesOut
    <3> QED  BY <1>2, <3>1, <3>2
  <2> QED  BY <1>1, <2>1, NotIdle DEF Waits, InHand, Queued, GoesOut
<1>5. \A v, w \in Uuids : v # w => ~(GoesOut(Message(v)) /\ GoesOut(Message(w)))
  BY <1>1, AskingTelling DEF GoesOut
<1>6. Precede'
  <2> SUFFICES ASSUME NEW v \in Uuids, NEW w \in Uuids, v # w, Overtakes(v, w)'
               PROVE  Before(v, w)
    BY <1>1 DEF Precede, Before
  <2>1. Overtakes(v, w)
    BY <1>4, <1>5 DEF Overtakes
  <2> QED  BY <2>1 DEF Sorted, Precede
<1>7. InOrder(m_recv', Asking, sent') /\ InOrder(m_send', Telling, sent')
  BY <1>1 DEF Sorted
<1> QED  BY <1>3, <1>6, <1>7 DEF Sorted

LEMMA SortedOther ==
  ASSUME IInv, Sorted, UNCHANGED <<m_send, command, inbox, sent>>,
         \/ m_recv' = m_recv
         \/ \E m \in Asked : m.func = "RECV_MESSAGE" /\ m_recv' = Append(m_recv, m)
  PROVE  Sorted'
<1>1. ASSUME NEW m \in Asked, m.func = "RECV_MESSAGE", m_recv' = Append(m_recv, m)
      PROVE  /\ InOrder(m_recv', Asking, sent)
             /\ \A v \in Uuids : Waits(Message(v))' <=> Waits(Message(v))
  <2>1. m \notin Asking /\ \A v : m \notin Asks(Message(v))
    BY <1>1, AskingTelling DEF Asking
  <2>2. m_recv \in Seq(Asked) /\ InOrder(m_recv, Asking, sent)
    BY DEF Sorted, IInv, Typed
  <2>3. InOrder(m_recv', Asking, sent)
    BY <1>1, <2>1, <2>2, OrderOfAppend
  <2> QED  BY <1>1, <2>1, <2>2, <2>3, OfAppend DEF Waits
<1>2. /\ InOrder(m_recv', Asking, sent)
      /\ \A v \in Uuids : Waits(Message(v))' <=> Waits(Message(v))
  BY <1>1 DEF Sorted, Waits
<1>3. ASSUME NEW v \in Uuids
      PROVE  /\ InHand(Message(v))' <=> InHand(Message(v))
             /\ Queued(Message(v))' <=> Queued(Message(v))
             /\ GoesOut(Message(v))' <=> GoesOut(Message(v))
             /\ \A n \in Numbers : Arrived(n, Message(v))' <=> Arrived(n, Message(v))
  BY DEF InHand, Queued, GoesOut, Arrived
<1>4. Precede'
  <2> SUFFICES ASSUME NEW v \in Uuids, NEW w \in Uuids, v # w, Overtakes(v, w)'
               PROVE  Before(v, w)
    BY DEF Precede, Before
  <2>1. Overtakes(v, w)
    BY <1>2, <1>3 DEF Overtakes
  <2> QED  BY <2>1 DEF Sorted, Precede
<1> QED  BY <1>2, <1>4 DEF Sorted

LEMMA OrderInvariant == SafeSpec => []Sorted
<1>1. Init => Sorted
  <2> SUFFICES ASSUME Init
               PROVE  Sorted
    OBVIOUS
  <2>1. /\ DOMAIN m_recv = {} /\ DOMAIN m_send = {} /\ command = Idle
        /\ \A n \in Numbers : DOMAIN inbox[n] = {}
    BY Empty DEF Init
  <2>2. \A t : ~InHand(t) /\ ~Queued(t) /\ ~GoesOut(t) /\ \A n \in Numbers : ~Arrived(n, t)
    BY <2>1, NotIdle DEF InHand, Queued, GoesOut, Arrived, Holds
  <2>3. Precede
    BY <2>2 DEF Precede, Overtakes
  <2> QED  BY <2>1, <2>3 DEF Sorted, InOrder
<1>2. IInv /\ Sorted /\ [Next]_vars => Sorted'
  <2> SUFFICES ASSUME IInv, Sorted, [Next]_vars
               PROVE  Sorted'
    OBVIOUS
  <2>1. ASSUME NEW n \in Numbers, NEW u \in Uuids, RecvMessage(n, u)
        PROVE  Sorted'
    <3>1. \E m \in Asked : m.func = "RECV_MESSAGE" /\ m_recv' = Append(m_recv, m)
      BY <2>1, RecvAsked DEF RecvMessage, IInv
    <3> QED  BY <2>1, <3>1, SortedOther DEF RecvMessage
  <2>2. CASE (\E n \in Numbers : Logout(n) \/ Login(n)) \/ UNCHANGED vars
    BY <2>2, SortedOther DEF Logout, Login, vars
  <2> QED
    BY <2>1, <2>2, SortedSend, SortedTake, SortedAppend, SortedFetch, SortedDeliver
       DEF Next, Terminal, Processor
<1> QED  BY <1>1, <1>2, Invariant, PTL DEF SafeSpec

\* What one terminal sends to another arrives in the order it was sent, also when
\* messages are lost on the way or go to several receivers.
THEOREM MessagesArriveInOrder == SafeSpec => []ArriveInOrder
<1>1. IInv /\ Sorted => ArriveInOrder
  <2> SUFFICES ASSUME IInv, Sorted, NEW n \in Numbers, NEW i \in DOMAIN inbox[n],
                      NEW j \in DOMAIN inbox[n], i < j, inbox[n][i].uuid # inbox[n][j].uuid,
                      inbox[n][i].state = "INCOMING", inbox[n][j].state = "INCOMING"
               PROVE  \E k, l \in DOMAIN sent : /\ k < l
                                                /\ sent[k].uuid = inbox[n][i].uuid
                                                /\ sent[l].uuid = inbox[n][j].uuid
    BY DEF ArriveInOrder
  <2>1. inbox[n][i] \in Telling /\ inbox[n][j] \in Telling
    BY DEF IInv, Typed, Telling
  <2> QED  BY <2>1 DEF Sorted, InOrder, Precedes
<1> QED  BY <1>1, Invariant, OrderInvariant, PTL
=============================================================================
