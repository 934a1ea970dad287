----------------------- MODULE MessageProcessorProofs -----------------------
(***************************************************************************)
(* Proofs about MessageProcessor, for every set of messages and every      *)
(* bound: type correctness, that no message is lost or reordered, that the *)
(* thread only sleeps when both deques are empty, and that the threads,    *)
(* deques and wakeups implement the safety part of MessageFlow.            *)
(*                                                                         *)
(* Type correctness and NothingLost are inductive, the second relative to  *)
(* the first.  SleepsOnlyWhenIdle is not: it needs that the deques are     *)
(* empty already at "block", when the predicate has been found false and   *)
(* the mutex is not yet released.                                          *)
(***************************************************************************)
EXTENDS MessageProcessor, SequenceTheorems, TLAPS

(***************************************************************************)
(* Sequences.  A stream is split in three: what is done, what is in hand   *)
(* (none or one) and what is queued.                                       *)
(***************************************************************************)

\* Appending to the queue appends to the whole.
LEMMA PushKeepsSplit ==
  ASSUME NEW S, NEW all \in Seq(S), NEW done \in Seq(S), NEW hand \in Seq(S),
         NEW queue \in Seq(S), NEW m \in S,
         all = done \o hand \o queue
  PROVE  Append(all, m) = done \o hand \o Append(queue, m)
<1>1. Append(all, m) = (done \o hand \o queue) \o <<m>>
  BY AppendIsConcat
<1>2. done \o hand \in Seq(S) /\ <<m>> \in Seq(S)
  BY ConcatProperties
<1>3. (done \o hand \o queue) \o <<m>> = (done \o hand) \o (queue \o <<m>>)
  BY <1>2, ConcatAssociative
<1>4. queue \o <<m>> = Append(queue, m)
  BY AppendIsConcat
<1> QED  BY <1>1, <1>3, <1>4

\* A sequence that is not empty is its head and its tail.
LEMMA HeadThenTail ==
  ASSUME NEW S, NEW s \in Seq(S), s # <<>>
  PROVE  /\ Head(s) \in S
         /\ Tail(s) \in Seq(S)
         /\ s = <<Head(s)>> \o Tail(s)
<1>1. Head(s) \in S /\ Tail(s) \in Seq(S) /\ Len(Tail(s)) = Len(s) - 1
  BY HeadTailProperties
<1>2. Len(s) \in Nat /\ Len(s) # 0
  BY EmptySeq, LenProperties
<1>3. <<Head(s)>> \in Seq(S) /\ Len(<<Head(s)>>) = 1 /\ <<Head(s)>>[1] = Head(s)
  BY <1>1
<1>4. /\ <<Head(s)>> \o Tail(s) \in Seq(S)
      /\ Len(<<Head(s)>> \o Tail(s)) = Len(s)
      /\ \A i \in 1..Len(s) :
           (<<Head(s)>> \o Tail(s))[i] = IF i <= 1 THEN <<Head(s)>>[i] ELSE Tail(s)[i - 1]
  BY <1>1, <1>2, <1>3, ConcatProperties
<1>5. ASSUME NEW i \in 1..Len(s)
      PROVE  s[i] = (<<Head(s)>> \o Tail(s))[i]
  <2>1. CASE i = 1
    BY <2>1, <1>3, <1>4, <1>5
  <2>2. CASE i # 1
    <3>1. i - 1 \in 1..Len(Tail(s))
      BY <2>2, <1>1, <1>2
    <3>2. Tail(s)[i - 1] = s[(i - 1) + 1]
      BY <3>1, HeadTailProperties
    <3> QED  BY <3>2, <2>2, <1>4
  <2> QED  BY <2>1, <2>2
<1> QED  BY <1>1, <1>4, <1>5, SeqEqual

\* Taking the head of the queue in hand keeps the whole.
LEMMA TakeKeepsSplit ==
  ASSUME NEW S, NEW all \in Seq(S), NEW done \in Seq(S), NEW queue \in Seq(S),
         queue # <<>>,
         all = done \o <<>> \o queue
  PROVE  all = done \o <<Head(queue)>> \o Tail(queue)
<1>1. Head(queue) \in S /\ Tail(queue) \in Seq(S) /\ queue = <<Head(queue)>> \o Tail(queue)
  BY HeadThenTail
<1>2. <<Head(queue)>> \in Seq(S)
  BY <1>1
<1>3. done \o <<>> = done
  BY ConcatEmptySeq
<1>4. (done \o <<Head(queue)>>) \o Tail(queue) = done \o (<<Head(queue)>> \o Tail(queue))
  BY <1>1, <1>2, ConcatAssociative
<1> QED  BY <1>1, <1>3, <1>4

\* Being done with the message in hand keeps the whole, and that message is the
\* first of the whole that was not done.
LEMMA FinishKeepsSplit ==
  ASSUME NEW S, NEW all \in Seq(S), NEW done \in Seq(S), NEW queue \in Seq(S), NEW m \in S,
         all = done \o <<m>> \o queue
  PROVE  /\ all = (done \o <<m>>) \o <<>> \o queue
         /\ done \o <<m>> = Append(done, m)
         /\ Len(done) < Len(all)
         /\ all[Len(done) + 1] = m
<1>1. /\ <<m>> \in Seq(S) /\ Len(<<m>>) = 1 /\ <<m>>[1] = m
      /\ Len(done) \in Nat /\ Len(queue) \in Nat
  BY LenProperties
<1>2. /\ done \o <<m>> \in Seq(S)
      /\ Len(done \o <<m>>) = Len(done) + 1
      /\ (done \o <<m>>)[Len(done) + 1] = m
  BY <1>1, ConcatProperties
<1>3. /\ Len(all) = Len(done) + 1 + Len(queue)
      /\ all[Len(done) + 1] = (done \o <<m>>)[Len(done) + 1]
  BY <1>1, <1>2, ConcatProperties
<1>4. (done \o <<m>>) \o <<>> = done \o <<m>>
  BY <1>2, ConcatEmptySeq
<1> QED  BY <1>1, <1>2, <1>3, <1>4, AppendIsConcat
-----------------------------------------------------------------------------
(***************************************************************************)
(* Type correctness.                                                       *)
(***************************************************************************)

LEMMA AwakenedType ==
  ASSUME pc \in Pcs
  PROVE  /\ Awakened \in Pcs
         /\ \A step \in {"resolve", "send", "post", "clean", "done", "block"} :
               Awakened = step <=> pc = step
  BY DEF Awakened, Pcs

LEMMA RepliesType ==
  ASSUME NEW replies \in Replies
  PROVE  replies \in Seq(Outgoing)
<1>1. CASE replies = <<>>
  BY <1>1, EmptySeq
<1>2. ASSUME NEW a \in Outgoing, replies = <<a>>
      PROVE  replies \in Seq(Outgoing)
  BY <1>2
<1>3. ASSUME NEW a \in Outgoing, NEW b \in Outgoing, replies = <<a, b>>
      PROVE  replies \in Seq(Outgoing)
  BY <1>3
<1> QED  BY <1>1, <1>2, <1>3 DEF Replies

LEMMA InitType == Init => TypeOK
  BY DEF Init, TypeOK, Pcs

LEMMA NextType == TypeOK /\ [Next]_vars => TypeOK'
<1> SUFFICES ASSUME TypeOK, [Next]_vars
             PROVE  TypeOK'
  OBVIOUS
<1> USE DEF TypeOK, Pcs, HoldsOneOf, history
<1>1. CASE Loop
  BY <1>1 DEF Loop
<1>2. CASE FetchNothing
  BY <1>2 DEF FetchNothing
<1>3. CASE Block
  BY <1>3 DEF Block
<1>4. CASE FetchRecv
  <2>1. m_recv' \in Seq(Incoming)
    BY <1>4, HeadTailProperties DEF FetchRecv
  <2>2. consumed' \in Seq(Incoming)
    <3>1. CASE consumed' = consumed
      BY <3>1
    <3>2. CASE m_recv # <<>> /\ consumed' = Append(consumed, Head(m_recv))
      <4>1. Head(m_recv) \in Incoming
        BY <3>2, HeadTailProperties
      <4> QED  BY <3>2, <4>1, AppendProperties
    <3> QED  BY <1>4, <3>1, <3>2 DEF FetchRecv
  <2> QED  BY <1>4, <2>1, <2>2 DEF FetchRecv, Valid
<1>5. CASE FetchSend
  <2>1. CASE m_send = <<>>
    BY <1>5, <2>1 DEF FetchSend
  <2>2. CASE m_send # <<>>
    <3>1. Head(m_send) \in Outgoing /\ Tail(m_send) \in Seq(Outgoing)
      BY <2>2, HeadTailProperties
    <3> QED  BY <1>5, <2>2, <3>1 DEF FetchSend
  <2> QED  BY <2>1, <2>2
<1>6. CASE Resolve
  <2>1. PICK m \in ValidIncoming : message = <<m>>
    BY <1>6 DEF Resolve
  <2>2. message \in Seq(Incoming)
    BY <2>1, ConstantsAssumption
  <2>3. consumed' \in Seq(Incoming)
    BY <1>6, <2>2, ConcatProperties DEF Resolve
  <2>4. todo' \in Seq(Outgoing)
    BY <1>6, RepliesType DEF Resolve
  <2> QED  BY <1>6, <2>3, <2>4 DEF Resolve
<1>7. CASE PostReply
  <2>1. Head(todo) \in Outgoing /\ Tail(todo) \in Seq(Outgoing)
    BY <1>7, HeadTailProperties DEF PostReply
  <2>2. m_send' \in Seq(Outgoing) /\ posted' \in Seq(Outgoing)
    BY <1>7, <2>1, AppendProperties DEF PostReply, PushSend
  <2> QED  BY <1>7, <2>1, <2>2 DEF PostReply
<1>8. CASE EndResolve
  BY <1>8 DEF EndResolve
<1>9. CASE Send
  <2>1. message \in Seq(Outgoing)
    <3>1. PICK m \in Outgoing : message = <<m>>
      BY <1>9 DEF Send
    <3> QED  BY <3>1
  <2>2. delivered' \in Seq(Outgoing)
    BY <1>9, <2>1, ConcatProperties DEF Send
  <2> QED  BY <1>9, <2>2 DEF Send
<1>10. CASE Cleanup
  BY <1>10, EmptySeq DEF Cleanup
<1>11. CASE SpuriousWakeup
  BY <1>11 DEF SpuriousWakeup
<1>12. ASSUME NEW m \in Incoming, Receive(m)
       PROVE  TypeOK'
  <2>1. m_recv' \in Seq(Incoming) /\ received' \in Seq(Incoming)
    BY <1>12, AppendProperties DEF Receive, PushRecv
  <2>2. pc' = Awakened
    BY <1>12 DEF Receive
  <2> QED  BY <1>12, <2>1, <2>2, AwakenedType DEF Receive
<1>13. ASSUME NEW m \in Outgoing, PostNotice(m)
       PROVE  TypeOK'
  <2>1. m_send' \in Seq(Outgoing) /\ posted' \in Seq(Outgoing)
    BY <1>13, AppendProperties DEF PostNotice, PushSend
  <2>2. pc' = Awakened
    BY <1>13 DEF PostNotice
  <2> QED  BY <1>13, <2>1, <2>2, AwakenedType DEF PostNotice
<1>14. CASE SetQuit
  BY <1>14 DEF SetQuit
<1>15. CASE NotifyAll
  BY <1>15, AwakenedType DEF NotifyAll
<1>16. CASE Join
  BY <1>16 DEF Join
<1>17. CASE UNCHANGED vars
  BY <1>17 DEF vars
<1> QED
  BY <1>1, <1>2, <1>3, <1>4, <1>5, <1>6, <1>7, <1>8, <1>9, <1>10, <1>11, <1>12,
     <1>13, <1>14, <1>15, <1>16, <1>17
  DEF Next, ProcessorThread, OtherThreads, Destructor, Joined

\* Every variable of the processor keeps its type, the thread holds a message
\* exactly while it resolves or sends one, and what it resolves is valid
\* (process() of processor.cpp).
THEOREM Typing == SafeSpec => []TypeOK
<1> QED  BY InitType, NextType, PTL DEF SafeSpec
-----------------------------------------------------------------------------
(***************************************************************************)
(* Nothing lost.  NothingLost splits into one balance per stream, each of  *)
(* which a step either leaves alone or changes by one of the three lemmas  *)
(* above.                                                                  *)
(***************************************************************************)

RecvBalance == received = consumed \o InHand("resolve") \o m_recv

SendBalance == posted = delivered \o InHand("send") \o m_send

LEMMA BalanceIsNothingLost ==
  NothingLost <=> (pc \notin {"clean", "done"} => RecvBalance /\ SendBalance)
  BY DEF NothingLost, RecvBalance, SendBalance

LEMMA InitNothingLost == Init => NothingLost
<1> SUFFICES ASSUME Init
             PROVE  NothingLost
  OBVIOUS
<1>1. <<>> \in Seq(Incoming) /\ <<>> \in Seq(Outgoing)
  BY EmptySeq
<1>2. <<>> = <<>> \o <<>> \o <<>>
  BY <1>1, ConcatEmptySeq
<1> QED  BY <1>2 DEF Init, NothingLost, InHand

\* The message in hand, if any, is one of the stream it was fetched from.
LEMMA InHandType ==
  ASSUME TypeOK
  PROVE  /\ InHand("resolve") \in Seq(Incoming)
         /\ InHand("send") \in Seq(Outgoing)
<1>1. InHand("resolve") \in Seq(Incoming)
  <2>1. CASE pc = "resolve"
    <3>1. PICK m \in ValidIncoming : message = <<m>>
      BY <2>1 DEF TypeOK, HoldsOneOf
    <3> QED  BY <2>1, <3>1, ConstantsAssumption DEF InHand
  <2>2. CASE pc # "resolve"
    BY <2>2, EmptySeq DEF InHand
  <2> QED  BY <2>1, <2>2
<1>2. InHand("send") \in Seq(Outgoing)
  <2>1. CASE pc = "send"
    <3>1. PICK m \in Outgoing : message = <<m>>
      BY <2>1 DEF TypeOK, HoldsOneOf
    <3> QED  BY <2>1, <3>1 DEF InHand
  <2>2. CASE pc # "send"
    BY <2>2, EmptySeq DEF InHand
  <2> QED  BY <2>1, <2>2
<1> QED  BY <1>1, <1>2

\* A step that leaves the deques, the histories and the message alone, and is
\* not about to begin or end a resolve or a send, disturbs neither balance.
LEMMA QuietKeepsBalance ==
  ASSUME TypeOK, RecvBalance, SendBalance,
         UNCHANGED <<m_recv, m_send, message, history>>,
         pc' = "resolve" <=> pc = "resolve",
         pc' = "send" <=> pc = "send"
  PROVE  RecvBalance' /\ SendBalance'
<1>1. InHand("resolve")' = InHand("resolve") /\ InHand("send")' = InHand("send")
  BY DEF InHand
<1> QED  BY <1>1 DEF RecvBalance, SendBalance, history

LEMMA FetchRecvKeepsBalance ==
  ASSUME TypeOK, RecvBalance, SendBalance, FetchRecv
  PROVE  RecvBalance' /\ SendBalance'
<1>1. pc = "fetch" /\ InHand("resolve") = <<>> /\ InHand("send") = <<>>
  BY DEF FetchRecv, InHand
<1>2. SendBalance'
  BY <1>1 DEF FetchRecv, SendBalance, InHand
<1>3. CASE m_recv = <<>>
  BY <1>1, <1>2, <1>3 DEF FetchRecv, RecvBalance, InHand
<1>4. CASE m_recv # <<>>
  <2> DEFINE m == Head(m_recv)
  <2>1. m \in Incoming /\ Tail(m_recv) \in Seq(Incoming)
    BY <1>4, HeadTailProperties DEF TypeOK
  <2>2. received = consumed \o <<m>> \o Tail(m_recv)
    <3>1. received = consumed \o <<>> \o m_recv
      BY <1>1 DEF RecvBalance
    <3>2. received \in Seq(Incoming) /\ consumed \in Seq(Incoming) /\ m_recv \in Seq(Incoming)
      BY DEF TypeOK
    <3> QED  BY <1>4, <3>1, <3>2, TakeKeepsSplit
  <2>3. m_recv' = Tail(m_recv) /\ received' = received
    BY <1>4 DEF FetchRecv
  <2>4. CASE Valid(m)
    <3>1. message' = <<m>> /\ pc' = "resolve" /\ consumed' = consumed
      BY <1>4, <2>4 DEF FetchRecv
    <3> QED  BY <1>2, <2>2, <2>3, <3>1 DEF RecvBalance, InHand
  <2>5. CASE ~Valid(m)
    <3>1. pc' = "fetch" /\ consumed' = Append(consumed, m)
      BY <1>4, <2>5 DEF FetchRecv
    <3>2. received = Append(consumed, m) \o <<>> \o Tail(m_recv)
      <4>1. received \in Seq(Incoming) /\ consumed \in Seq(Incoming)
        BY DEF TypeOK
      <4> HIDE DEF m
      <4> QED  BY <2>1, <2>2, <4>1, FinishKeepsSplit
    <3> QED  BY <1>2, <2>3, <3>1, <3>2 DEF RecvBalance, InHand
  <2> QED  BY <2>4, <2>5
<1> QED  BY <1>3, <1>4

LEMMA FetchSendKeepsBalance ==
  ASSUME TypeOK, RecvBalance, SendBalance, FetchSend
  PROVE  RecvBalance' /\ SendBalance'
<1>1. pc = "fetch" /\ InHand("resolve") = <<>> /\ InHand("send") = <<>>
  BY DEF FetchSend, InHand
<1>2. RecvBalance'
  BY <1>1 DEF FetchSend, RecvBalance, InHand, history
<1>3. CASE m_send = <<>>
  BY <1>1, <1>2, <1>3 DEF FetchSend, SendBalance, InHand, history
<1>4. CASE m_send # <<>>
  <2>1. posted = delivered \o <<Head(m_send)>> \o Tail(m_send)
    <3>1. posted = delivered \o <<>> \o m_send
      BY <1>1 DEF SendBalance
    <3>2. posted \in Seq(Outgoing) /\ delivered \in Seq(Outgoing) /\ m_send \in Seq(Outgoing)
      BY DEF TypeOK
    <3> QED  BY <1>4, <3>1, <3>2, TakeKeepsSplit
  <2> QED  BY <1>2, <1>4, <2>1 DEF FetchSend, SendBalance, InHand, history
<1> QED  BY <1>3, <1>4

LEMMA ResolveKeepsBalance ==
  ASSUME TypeOK, RecvBalance, SendBalance, Resolve
  PROVE  RecvBalance' /\ SendBalance'
<1>1. PICK m \in ValidIncoming : message = <<m>>
  BY DEF Resolve, TypeOK, HoldsOneOf
<1>2. received = consumed \o <<m>> \o m_recv
  BY <1>1 DEF Resolve, RecvBalance, InHand
<1>3. received = (consumed \o <<m>>) \o <<>> \o m_recv
  BY <1>1, <1>2, ConstantsAssumption, FinishKeepsSplit DEF TypeOK
<1>4. RecvBalance'
  BY <1>1, <1>3 DEF Resolve, RecvBalance, InHand
<1>5. SendBalance'
  BY DEF Resolve, SendBalance, InHand
<1> QED  BY <1>4, <1>5

LEMMA SendKeepsBalance ==
  ASSUME TypeOK, RecvBalance, SendBalance, Send
  PROVE  RecvBalance' /\ SendBalance'
<1>1. PICK m \in Outgoing : message = <<m>>
  BY DEF Send, TypeOK, HoldsOneOf
<1>2. posted = delivered \o <<m>> \o m_send
  BY <1>1 DEF Send, SendBalance, InHand
<1>3. posted = (delivered \o <<m>>) \o <<>> \o m_send
  BY <1>1, <1>2, FinishKeepsSplit DEF TypeOK
<1>4. SendBalance'
  BY <1>1, <1>3 DEF Send, SendBalance, InHand
<1>5. RecvBalance'
  BY DEF Send, RecvBalance, InHand
<1> QED  BY <1>4, <1>5

LEMMA PushSendKeepsBalance ==
  ASSUME TypeOK, SendBalance, NEW m \in Outgoing, PushSend(m),
         UNCHANGED <<message, delivered>>,
         pc' = "send" <=> pc = "send"
  PROVE  SendBalance'
<1>1. InHand("send")' = InHand("send")
  BY DEF InHand
<1>2. Append(posted, m) = delivered \o InHand("send") \o Append(m_send, m)
  <2>1. posted \in Seq(Outgoing) /\ delivered \in Seq(Outgoing) /\ m_send \in Seq(Outgoing)
    BY DEF TypeOK
  <2>2. InHand("send") \in Seq(Outgoing)
    BY InHandType
  <2>3. posted = delivered \o InHand("send") \o m_send
    BY DEF SendBalance
  <2> QED  BY ONLY <2>1, <2>2, <2>3, m \in Outgoing, PushKeepsSplit
<1> QED  BY <1>1, <1>2 DEF PushSend, SendBalance

LEMMA PushRecvKeepsBalance ==
  ASSUME TypeOK, RecvBalance, NEW m \in Incoming, PushRecv(m),
         UNCHANGED <<message, consumed>>,
         pc' = "resolve" <=> pc = "resolve"
  PROVE  RecvBalance'
<1>1. InHand("resolve")' = InHand("resolve")
  BY DEF InHand
<1>2. Append(received, m) = consumed \o InHand("resolve") \o Append(m_recv, m)
  <2>1. received \in Seq(Incoming) /\ consumed \in Seq(Incoming) /\ m_recv \in Seq(Incoming)
    BY DEF TypeOK
  <2>2. InHand("resolve") \in Seq(Incoming)
    BY InHandType
  <2>3. received = consumed \o InHand("resolve") \o m_recv
    BY DEF RecvBalance
  <2> QED  BY ONLY <2>1, <2>2, <2>3, m \in Incoming, PushKeepsSplit
<1> QED  BY <1>1, <1>2 DEF PushRecv, RecvBalance

\* From where a message may be in hand or queued, every step keeps NothingLost;
\* once the thread has left the loop it never comes back.
LEMMA NextNothingLost == TypeOK /\ NothingLost /\ [Next]_vars => NothingLost'
<1> SUFFICES ASSUME TypeOK, NothingLost, [Next]_vars
             PROVE  NothingLost'
  OBVIOUS
<1>1. CASE pc \in {"clean", "done"}
  <2>1. pc' \in {"clean", "done"}
    BY <1>1 DEF Next, ProcessorThread, OtherThreads, Destructor, Joined, vars, Awakened,
       Loop, FetchNothing, Block, FetchRecv, FetchSend, Resolve, PostReply, EndResolve, Send,
       Cleanup, SpuriousWakeup, Receive, PostNotice, SetQuit, NotifyAll, Join
  <2> QED  BY <2>1 DEF NothingLost
<1>2. CASE pc \notin {"clean", "done"}
  <2>1. RecvBalance /\ SendBalance
    BY <1>2, BalanceIsNothingLost
  <2>2. SUFFICES RecvBalance' /\ SendBalance'
    BY DEF NothingLost, RecvBalance, SendBalance
  <2>3. pc \in Pcs
    BY DEF TypeOK
  <2>4. CASE Loop
    BY <2>1, <2>4, QuietKeepsBalance DEF Loop
  <2>5. CASE FetchNothing
    BY <2>1, <2>5, QuietKeepsBalance DEF FetchNothing
  <2>6. CASE Block
    BY <2>1, <2>6, QuietKeepsBalance DEF Block
  <2>7. CASE FetchRecv
    BY <2>1, <2>7, FetchRecvKeepsBalance
  <2>8. CASE FetchSend
    BY <2>1, <2>8, FetchSendKeepsBalance
  <2>9. CASE Resolve
    BY <2>1, <2>9, ResolveKeepsBalance
  <2>10. CASE PostReply
    <3>1. Head(todo) \in Outgoing
      BY <2>10, HeadTailProperties DEF PostReply, TypeOK
    <3>2. SendBalance'
      BY <2>1, <2>10, <3>1, PushSendKeepsBalance DEF PostReply
    <3>3. RecvBalance'
      BY <2>1, <2>10 DEF PostReply, RecvBalance, InHand
    <3> QED  BY <3>2, <3>3
  <2>11. CASE EndResolve
    BY <2>1, <2>11, QuietKeepsBalance DEF EndResolve
  <2>12. CASE Send
    BY <2>1, <2>12, SendKeepsBalance
  <2>13. CASE Cleanup
    BY <1>2, <2>13 DEF Cleanup
  <2>14. CASE SpuriousWakeup
    BY <2>1, <2>14, QuietKeepsBalance DEF SpuriousWakeup
  <2>15. ASSUME NEW m \in Incoming, Receive(m)
         PROVE  RecvBalance' /\ SendBalance'
    <3>1. pc' = Awakened
      BY <2>15 DEF Receive
    <3>2. RecvBalance'
      BY <2>1, <2>3, <2>15, <3>1, AwakenedType, PushRecvKeepsBalance DEF Receive
    <3>3. SendBalance'
      BY <2>1, <2>3, <2>15, <3>1, AwakenedType DEF Receive, SendBalance, InHand
    <3> QED  BY <3>2, <3>3
  <2>16. ASSUME NEW m \in Outgoing, PostNotice(m)
         PROVE  RecvBalance' /\ SendBalance'
    <3>1. pc' = Awakened
      BY <2>16 DEF PostNotice
    <3>2. SendBalance'
      BY <2>1, <2>3, <2>16, <3>1, AwakenedType, PushSendKeepsBalance DEF PostNotice
    <3>3. RecvBalance'
      BY <2>1, <2>3, <2>16, <3>1, AwakenedType DEF PostNotice, RecvBalance, InHand
    <3> QED  BY <3>2, <3>3
  <2>17. CASE SetQuit
    BY <2>1, <2>17, QuietKeepsBalance DEF SetQuit
  <2>18. CASE NotifyAll
    BY <2>1, <2>3, <2>18, AwakenedType, QuietKeepsBalance DEF NotifyAll
  <2>19. CASE Join
    BY <2>1, <2>19, QuietKeepsBalance DEF Join
  <2>20. CASE UNCHANGED vars
    BY <2>1, <2>20, QuietKeepsBalance DEF vars, history
  <2> QED
    BY <2>4, <2>5, <2>6, <2>7, <2>8, <2>9, <2>10, <2>11, <2>12, <2>13, <2>14, <2>15,
       <2>16, <2>17, <2>18, <2>19, <2>20
    DEF Next, ProcessorThread, OtherThreads, Destructor, Joined
<1> QED  BY <1>1, <1>2

\* Until the final cleanup, what was appended to each deque is what was dealt
\* with, then what is in hand, then what is queued, in the order of the appends
\* (append, fetch and process of processor.cpp).
THEOREM MessagesAreNotLost == SafeSpec => []NothingLost
<1>1. Init => NothingLost
  BY InitNothingLost
<1>2. TypeOK /\ NothingLost /\ [Next]_vars => NothingLost'
  BY NextNothingLost
<1> QED  BY <1>1, <1>2, Typing, PTL DEF SafeSpec
-----------------------------------------------------------------------------
(***************************************************************************)
(* Sleeping only when idle.                                                *)
(***************************************************************************)

\* The inductive form: the deques are empty from the moment the predicate is
\* found false, because nobody can append before the mutex is released.
IdleOnceBlocking == pc \in {"block", "asleep"} => m_recv = <<>> /\ m_send = <<>>

LEMMA NextIdle == TypeOK /\ IdleOnceBlocking /\ [Next]_vars => IdleOnceBlocking'
<1> SUFFICES ASSUME TypeOK, IdleOnceBlocking, [Next]_vars, pc' \in {"block", "asleep"}
             PROVE  m_recv' = <<>> /\ m_send' = <<>>
  BY DEF IdleOnceBlocking
<1>1. CASE ProcessorThread
  <2>1. FetchNothing \/ Block
    BY <1>1 DEF ProcessorThread, Loop, FetchRecv, FetchSend, Resolve, PostReply, EndResolve,
       Send, Cleanup
  <2> QED  BY <2>1 DEF FetchNothing, Block, WaitPredicate, IdleOnceBlocking
<1>2. CASE OtherThreads
  <2>1. pc # "block" /\ pc' = Awakened
    BY <1>2 DEF OtherThreads, Receive, PostNotice, MutexFree
  <2> QED  BY <2>1 DEF Awakened
<1>3. CASE SpuriousWakeup
  BY <1>3 DEF SpuriousWakeup
<1>4. CASE SetQuit \/ Destructor
  BY <1>4 DEF SetQuit, Destructor, NotifyAll, Join, Awakened, IdleOnceBlocking
<1>5. CASE UNCHANGED vars
  BY <1>5 DEF vars, IdleOnceBlocking
<1> QED  BY <1>1, <1>2, <1>3, <1>4, <1>5 DEF Next, Joined

\* No append is missed between the test of the predicate and the sleep: the
\* thread sleeps only when both deques are empty (append and fetch of
\* processor.cpp).
THEOREM NoWakeupMissed == SafeSpec => []SleepsOnlyWhenIdle
<1>1. Init => IdleOnceBlocking
  BY DEF Init, IdleOnceBlocking
<1>2. TypeOK /\ IdleOnceBlocking /\ [Next]_vars => IdleOnceBlocking'
  BY NextIdle
<1>3. IdleOnceBlocking => SleepsOnlyWhenIdle
  BY DEF IdleOnceBlocking, SleepsOnlyWhenIdle
<1> QED  BY <1>1, <1>2, <1>3, Typing, PTL DEF SafeSpec
-----------------------------------------------------------------------------
(***************************************************************************)
(* Implementing MessageFlow.  Each step that consumes or delivers takes    *)
(* the first message of its stream that was not dealt with, which is what  *)
(* the balance says of the message in hand.                                *)
(***************************************************************************)

\* A step that leaves the histories and m_quit alone stutters.
LEMMA QuietStutters ==
  ASSUME UNCHANGED <<history, owner>>
  PROVE  [Flow!Next]_Flow!vars
  BY DEF history, Flow!vars, m_quit

\* Being done with m, the first received message not consumed yet, is Consume.
LEMMA ConsumeStep ==
  ASSUME TypeOK, NEW m \in Incoming, NEW queue \in Seq(Incoming),
         received = consumed \o <<m>> \o queue,
         consumed' = Append(consumed, m),
         UNCHANGED <<received, posted, delivered, owner>>
  PROVE  Flow!Next
<1>1. received \in Seq(Incoming) /\ consumed \in Seq(Incoming)
  BY DEF TypeOK
<1>2. Len(consumed) < Len(received) /\ received[Len(consumed) + 1] = m
  BY ONLY <1>1, m \in Incoming, queue \in Seq(Incoming),
     received = consumed \o <<m>> \o queue, FinishKeepsSplit
<1>3. Flow!Consume
  BY <1>2 DEF Flow!Consume, m_quit
<1> QED  BY <1>3 DEF Flow!Next

LEMMA DeliverStep ==
  ASSUME TypeOK, NEW m \in Outgoing, NEW queue \in Seq(Outgoing),
         posted = delivered \o <<m>> \o queue,
         delivered' = Append(delivered, m),
         UNCHANGED <<received, consumed, posted, owner>>
  PROVE  Flow!Next
<1>1. posted \in Seq(Outgoing) /\ delivered \in Seq(Outgoing)
  BY DEF TypeOK
<1>2. Len(delivered) < Len(posted) /\ posted[Len(delivered) + 1] = m
  BY ONLY <1>1, m \in Outgoing, queue \in Seq(Outgoing),
     posted = delivered \o <<m>> \o queue, FinishKeepsSplit
<1>3. Flow!Deliver
  BY <1>2 DEF Flow!Deliver, m_quit
<1> QED  BY <1>3 DEF Flow!Next

LEMMA FetchRecvImplements ==
  ASSUME TypeOK, NothingLost, FetchRecv
  PROVE  [Flow!Next]_Flow!vars
<1>1. CASE consumed' = consumed
  BY <1>1, QuietStutters DEF FetchRecv, history
<1>2. CASE m_recv # <<>> /\ consumed' = Append(consumed, Head(m_recv))
  <2>1. Head(m_recv) \in Incoming /\ Tail(m_recv) \in Seq(Incoming)
    BY <1>2, HeadTailProperties DEF TypeOK
  <2>2. received = consumed \o <<>> \o m_recv
    BY DEF FetchRecv, NothingLost, InHand
  <2>3. received \in Seq(Incoming) /\ consumed \in Seq(Incoming) /\ m_recv \in Seq(Incoming)
    BY DEF TypeOK
  <2>4. received = consumed \o <<Head(m_recv)>> \o Tail(m_recv)
    BY ONLY <1>2, <2>2, <2>3, TakeKeepsSplit
  <2>5. UNCHANGED <<received, posted, delivered, owner>>
    BY DEF FetchRecv
  <2> QED  BY <1>2, <2>1, <2>4, <2>5, ConsumeStep
<1> QED  BY <1>1, <1>2 DEF FetchRecv

LEMMA ResolveImplements ==
  ASSUME TypeOK, NothingLost, Resolve
  PROVE  Flow!Next
<1>1. PICK m \in ValidIncoming : message = <<m>>
  BY DEF Resolve, TypeOK, HoldsOneOf
<1>2. m \in Incoming /\ m_recv \in Seq(Incoming) /\ consumed \in Seq(Incoming)
  BY <1>1, ConstantsAssumption DEF TypeOK
<1>3. received = consumed \o <<m>> \o m_recv
  BY <1>1 DEF Resolve, NothingLost, InHand
<1>4. consumed' = Append(consumed, m)
  BY <1>1, <1>2, AppendIsConcat DEF Resolve
<1>5. UNCHANGED <<received, posted, delivered, owner>>
  BY DEF Resolve
<1> QED  BY <1>2, <1>3, <1>4, <1>5, ConsumeStep

LEMMA SendImplements ==
  ASSUME TypeOK, NothingLost, Send
  PROVE  Flow!Next
<1>1. PICK m \in Outgoing : message = <<m>>
  BY DEF Send, TypeOK, HoldsOneOf
<1>2. m_send \in Seq(Outgoing) /\ delivered \in Seq(Outgoing)
  BY DEF TypeOK
<1>3. posted = delivered \o <<m>> \o m_send
  BY <1>1 DEF Send, NothingLost, InHand
<1>4. delivered' = Append(delivered, m)
  BY <1>1, <1>2, AppendIsConcat DEF Send
<1>5. UNCHANGED <<received, consumed, posted, owner>>
  BY DEF Send
<1> QED  BY <1>2, <1>3, <1>4, <1>5, DeliverStep

LEMMA StepImplements == TypeOK /\ NothingLost /\ [Next]_vars => [Flow!Next]_Flow!vars
<1> SUFFICES ASSUME TypeOK, NothingLost, [Next]_vars
             PROVE  [Flow!Next]_Flow!vars
  OBVIOUS
<1>1. CASE Loop \/ FetchNothing \/ Block \/ FetchSend \/ EndResolve \/ Cleanup \/ SpuriousWakeup
  BY <1>1, QuietStutters
  DEF Loop, FetchNothing, Block, FetchSend, EndResolve, Cleanup, SpuriousWakeup
<1>2. CASE FetchRecv
  BY <1>2, FetchRecvImplements
<1>3. CASE Resolve
  BY <1>3, ResolveImplements
<1>4. CASE Send
  BY <1>4, SendImplements
<1>5. CASE PostReply
  <2>1. Head(todo) \in Outgoing
    BY <1>5, HeadTailProperties DEF PostReply, TypeOK
  <2>2. Flow!Post(Head(todo))
    BY <1>5 DEF PostReply, PushSend, Flow!Post, m_quit
  <2> QED  BY <2>1, <2>2 DEF Flow!Next
<1>6. ASSUME NEW m \in Incoming, Receive(m)
      PROVE  Flow!Next
  <2>1. Flow!Receive(m)
    BY <1>6 DEF Receive, PushRecv, Flow!Receive, m_quit
  <2> QED  BY <2>1 DEF Flow!Next
<1>7. ASSUME NEW m \in Outgoing, PostNotice(m)
      PROVE  Flow!Next
  <2>1. Flow!Post(m)
    BY <1>7 DEF PostNotice, PushSend, Flow!Post, m_quit
  <2> QED  BY <2>1 DEF Flow!Next
<1>8. CASE SetQuit
  <2>1. Flow!Close
    BY <1>8 DEF SetQuit, Flow!Close, m_quit, history
  <2> QED  BY <2>1 DEF Flow!Next
<1>9. CASE Destructor
  BY <1>9 DEF Destructor, NotifyAll, Join, Flow!vars, m_quit, history
<1>10. CASE UNCHANGED vars
  BY <1>10 DEF vars, Flow!vars, m_quit
<1> QED
  BY <1>1, <1>2, <1>3, <1>4, <1>5, <1>6, <1>7, <1>8, <1>9, <1>10
  DEF Next, ProcessorThread, OtherThreads, Joined

\* Seen through its histories, the processor with its threads, deques and
\* wakeups does nothing that the two reliable streams of MessageFlow do not
\* allow (class MessageProcessor of processor.cpp).
THEOREM ImplementsMessageFlow == SafeSpec => Flow!SafeSpec
<1>1. Init => Flow!Init
  BY DEF Init, Flow!Init, m_quit
<1>2. TypeOK /\ NothingLost /\ [Next]_vars => [Flow!Next]_Flow!vars
  BY StepImplements
<1> QED  BY <1>1, <1>2, Typing, MessagesAreNotLost, PTL DEF SafeSpec, Flow!SafeSpec
=============================================================================
