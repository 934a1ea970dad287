--------------------------- MODULE LockOrderProofs ---------------------------
(***************************************************************************)
(* Proofs about LockOrder: mutual exclusion, that all threads keep one     *)
(* order of the mutexes, and that no threads wait for one another in a     *)
(* circle.                                                                 *)
(*                                                                         *)
(* InOrder is inductive.  NoDeadlock is not about one step: from a thread  *)
(* in a circle the one it waits for is in the circle too and, because it   *)
(* holds what is wanted, itself wants a mutex of a higher level; there are *)
(* four levels.  Main, which may also wait for the end of a thread, holds  *)
(* nothing then (JoinsHoldingNothing), so nobody waits for it.             *)
(***************************************************************************)
EXTENDS LockOrder, TLAPS

Types == /\ stack \in [Threads -> Seq(Mutexes)]
         /\ want \in [Threads -> Mutexes \cup {None}]
         /\ joining \in Workers \cup {None}
         /\ told \subseteq Workers
         /\ ended \subseteq Workers

Exclusive == \A t, u \in Threads : \A i \in DOMAIN stack[t], j \in DOMAIN stack[u] :
                stack[t][i] = stack[u][j] => t = u /\ i = j

LEMMA TypeParts == TypeOK <=> Types /\ Exclusive
  BY DEF TypeOK, Types, Exclusive

LEMMA NamesDiffer == None \notin Mutexes /\ None \notin Workers /\ "main" \notin Workers
  BY DEF None, Mutexes, Workers

LEMMA MayTakeMutexes ==
  ASSUME Types, NEW t \in Threads
  PROVE  MayTake(t) \subseteq Mutexes
<1>1. Outer[t] \subseteq Mutexes
  BY DEF Outer, Mutexes, Threads, Workers
<1>2. \A m : Inner(m) \subseteq Mutexes
  BY DEF Inner
<1> QED  BY <1>1, <1>2 DEF MayTake

LEMMA Appended ==
  ASSUME NEW s \in Seq(Mutexes), NEW m \in Mutexes
  PROVE  /\ Append(s, m) \in Seq(Mutexes)
         /\ DOMAIN Append(s, m) = 1..(Len(s) + 1)
         /\ \A i \in DOMAIN s : Append(s, m)[i] = s[i] /\ i \in 1..Len(s)
         /\ Append(s, m)[Len(s) + 1] = m
         /\ DOMAIN s = 1..Len(s) /\ Len(s) \in Nat
  OBVIOUS

LEMMA Popped ==
  ASSUME NEW s \in Seq(Mutexes), s # <<>>
  PROVE  /\ SubSeq(s, 1, Len(s) - 1) \in Seq(Mutexes)
         /\ DOMAIN SubSeq(s, 1, Len(s) - 1) \subseteq DOMAIN s
         /\ \A i \in DOMAIN SubSeq(s, 1, Len(s) - 1) : SubSeq(s, 1, Len(s) - 1)[i] = s[i]
  OBVIOUS

\* Each step but lock and unlock leaves the stacks alone; those change one of them.
LEMMA LockStack ==
  ASSUME Types, NEW t \in Threads, Lock(t)
  PROVE  /\ want[t] \in Mutexes
         /\ stack' = [stack EXCEPT ![t] = Append(stack[t], want[t])]
         /\ want' = [want EXCEPT ![t] = None]
         /\ stack' \in [Threads -> Seq(Mutexes)]
<1>1. want[t] \in Mutexes
  BY DEF Lock, Types
<1>2. Append(stack[t], want[t]) \in Seq(Mutexes)
  BY <1>1, Appended DEF Types
<1> QED  BY <1>1, <1>2 DEF Lock, Types

LEMMA UnlockStack ==
  ASSUME Types, NEW t \in Threads, Unlock(t)
  PROVE  /\ stack[t] # <<>>
         /\ stack' = [stack EXCEPT ![t] = SubSeq(stack[t], 1, Len(stack[t]) - 1)]
         /\ stack' \in [Threads -> Seq(Mutexes)]
<1>1. SubSeq(stack[t], 1, Len(stack[t]) - 1) \in Seq(Mutexes)
  BY Popped DEF Types, Unlock
<1> QED  BY <1>1 DEF Unlock, Types

LEMMA NextTypes == Types /\ [Next]_vars => Types'
<1> SUFFICES ASSUME Types, [Next]_vars PROVE Types'
  OBVIOUS
<1>1. ASSUME NEW t \in Threads, Lock(t)
      PROVE  Types'
  BY <1>1, LockStack DEF Lock, Types
<1>2. ASSUME NEW t \in Threads, Unlock(t)
      PROVE  Types'
  BY <1>2, UnlockStack DEF Unlock, Types
<1>3. ASSUME NEW t \in Threads, NEW m \in Mutexes, Ask(t, m)
      PROVE  Types'
  BY <1>3 DEF Ask, Types
<1>4. ASSUME NEW t \in Workers, End(t) \/ Join(t)
      PROVE  Types'
  BY <1>4 DEF End, Join, Types
<1>5. CASE Joined \/ Return \/ UNCHANGED vars
  BY <1>5 DEF Joined, Return, Types, vars
<1> QED  BY <1>1, <1>2, <1>3, <1>4, <1>5 DEF Next

LEMMA NextExclusive == Types /\ Exclusive /\ [Next]_vars => Exclusive'
<1> SUFFICES ASSUME Types, Exclusive, [Next]_vars PROVE Exclusive'
  OBVIOUS
<1>1. ASSUME NEW t \in Threads, Lock(t)
      PROVE  Exclusive'
  <2>1. \A u \in Threads : \A i \in DOMAIN stack[u] : stack[u][i] # want[t]
    BY <1>1 DEF Lock, Free, Holds
  <2>2. \A u \in Threads \ {t} : stack'[u] = stack[u]
    BY <1>1, LockStack DEF Types
  <2>3. stack'[t] = Append(stack[t], want[t]) /\ stack[t] \in Seq(Mutexes) /\ want[t] \in Mutexes
    BY <1>1, LockStack DEF Types
  <2>4. \A i \in DOMAIN stack'[t] : \/ i \in DOMAIN stack[t] /\ stack'[t][i] = stack[t][i]
                                    \/ i = Len(stack[t]) + 1 /\ stack'[t][i] = want[t]
    BY <2>3, Appended
  <2> QED  BY <2>1, <2>2, <2>4 DEF Exclusive
<1>2. ASSUME NEW t \in Threads, Unlock(t)
      PROVE  Exclusive'
  <2>1. \A u \in Threads \ {t} : stack'[u] = stack[u]
    BY <1>2, UnlockStack DEF Types
  <2>2. \A i \in DOMAIN stack'[t] : i \in DOMAIN stack[t] /\ stack'[t][i] = stack[t][i]
    BY <1>2, UnlockStack, Popped DEF Types
  <2> QED  BY <2>1, <2>2 DEF Exclusive
<1>3. CASE UNCHANGED stack
  BY <1>3 DEF Exclusive
<1> QED  BY <1>1, <1>2, <1>3 DEF Next, Ask, End, Join, Joined, Return, vars

\* A mutex of the station is held by at most one thread, and only once.
THEOREM Typing == SafeSpec => []TypeOK
<1>1. Init => Types /\ Exclusive
  BY DEF Init, Types, Exclusive, Workers
<1>2. Types /\ Exclusive /\ [Next]_vars => Types' /\ Exclusive'
  BY NextTypes, NextExclusive
<1> QED  BY <1>1, <1>2, TypeParts, PTL DEF SafeSpec
-----------------------------------------------------------------------------
LEMMA Levels == \A m \in Mutexes : /\ Level[m] \in 1..4
                                   /\ \A n \in Inner(m) : Level[m] < Level[n]
  BY DEF Level, Mutexes, Inner

LEMMA NextInOrder == Types /\ InOrder /\ [Next]_vars => InOrder'
<1> SUFFICES ASSUME Types, InOrder, [Next]_vars PROVE InOrder'
  OBVIOUS
<1>1. ASSUME NEW t \in Threads, Lock(t)
      PROVE  InOrder'
  <2>1. \A u \in Threads \ {t} : stack'[u] = stack[u] /\ want'[u] = want[u]
    BY <1>1, LockStack DEF Types
  <2>2. stack'[t] = Append(stack[t], want[t]) /\ want'[t] = None
    BY <1>1, LockStack DEF Types
  <2>3. stack[t] \in Seq(Mutexes) /\ want[t] \in Mutexes /\ want[t] # None
    BY <1>1, LockStack DEF Types, Lock
  <2>4. \A i, j \in DOMAIN stack'[t] : i < j => Level[stack'[t][i]] < Level[stack'[t][j]]
    <3>1. \A i \in DOMAIN stack'[t] : \/ i \in DOMAIN stack[t] /\ stack'[t][i] = stack[t][i]
                                      \/ i = Len(stack[t]) + 1 /\ stack'[t][i] = want[t]
      BY <2>2, <2>3, Appended
    <3>2. \A i \in DOMAIN stack[t] : i \in 1..Len(stack[t])
      BY <2>3
    <3> QED  BY <2>3, <3>1, <3>2 DEF InOrder
  <2> QED  BY <2>1, <2>2, <2>4 DEF InOrder
<1>2. ASSUME NEW t \in Threads, Unlock(t)
      PROVE  InOrder'
  <2>1. \A u \in Threads \ {t} : stack'[u] = stack[u]
    BY <1>2, UnlockStack DEF Types
  <2>2. \A i \in DOMAIN stack'[t] : i \in DOMAIN stack[t] /\ stack'[t][i] = stack[t][i]
    BY <1>2, UnlockStack, Popped DEF Types
  <2>3. UNCHANGED want
    BY <1>2 DEF Unlock
  <2> QED  BY <2>1, <2>2, <2>3 DEF InOrder
<1>3. ASSUME NEW t \in Threads, NEW m \in Mutexes, Ask(t, m)
      PROVE  InOrder'
  <2>1. \A i \in DOMAIN stack[t] : Level[stack[t][i]] < Level[m]
    <3> SUFFICES ASSUME NEW i \in DOMAIN stack[t] PROVE Level[stack[t][i]] < Level[m]
      OBVIOUS
    <3> DEFINE n == Len(stack[t])
    <3>1. stack[t] \in Seq(Mutexes) /\ n \in Nat /\ i \in 1..n /\ n \in DOMAIN stack[t]
      BY DEF Types
    <3>2. m \in Inner(stack[t][n])
      BY <1>3, <3>1 DEF Ask, MayTake
    <3>3. stack[t][i] \in Mutexes /\ stack[t][n] \in Mutexes
      BY <3>1
    <3>4. Level[stack[t][n]] < Level[m]
      BY <3>2, <3>3, Levels
    <3>5. i < n => Level[stack[t][i]] < Level[stack[t][n]]
      BY <3>1 DEF InOrder
    <3> QED  BY <3>1, <3>3, <3>4, <3>5, Levels
  <2> QED  BY <1>3, <2>1 DEF Ask, InOrder, Types
<1>4. CASE UNCHANGED <<stack, want>>
  BY <1>4 DEF InOrder
<1> QED  BY <1>1, <1>2, <1>3, <1>4 DEF Next, End, Join, Joined, Return, vars

JoinsHoldingNothing ==
    joining # None => stack["main"] = <<>> /\ want["main"] = None

LEMMA NextJoins == Types /\ JoinsHoldingNothing /\ [Next]_vars => JoinsHoldingNothing'
<1> SUFFICES ASSUME Types, JoinsHoldingNothing, [Next]_vars PROVE JoinsHoldingNothing'
  OBVIOUS
<1> USE DEF JoinsHoldingNothing
<1>1. ASSUME NEW t \in Threads, Lock(t)
      PROVE  JoinsHoldingNothing'
  BY <1>1 DEF Lock, Types
<1>2. ASSUME NEW t \in Threads, Unlock(t)
      PROVE  JoinsHoldingNothing'
  BY <1>2 DEF Unlock, Running, Types
<1>3. ASSUME NEW t \in Threads, NEW m \in Mutexes, Ask(t, m)
      PROVE  JoinsHoldingNothing'
  BY <1>3 DEF Ask, Running, Types
<1>4. ASSUME NEW t \in Workers, End(t) \/ Join(t)
      PROVE  JoinsHoldingNothing'
  BY <1>4 DEF End, Join, JoinOutside, Running
<1>5. CASE Joined \/ Return \/ UNCHANGED vars
  BY <1>5 DEF Joined, Return, vars
<1> QED  BY <1>1, <1>2, <1>3, <1>4, <1>5 DEF Next

LEMMA Invariant == SafeSpec => [](Types /\ InOrder /\ JoinsHoldingNothing)
<1>1. Init => Types /\ InOrder /\ JoinsHoldingNothing
  BY DEF Init, Types, InOrder, JoinsHoldingNothing, Workers
<1>2. Types /\ InOrder /\ JoinsHoldingNothing /\ [Next]_vars
        => Types' /\ InOrder' /\ JoinsHoldingNothing'
  BY NextTypes, NextInOrder, NextJoins
<1> QED  BY <1>1, <1>2, PTL DEF SafeSpec

\* Every thread takes the mutexes in the order Server, EquipmentManager,
\* TimerManager, and then MessageProcessor or Logger.
THEOREM OneOrder == SafeSpec => []InOrder
  BY Invariant, PTL

\* Who is waited for by a thread that wants a mutex wants one of a higher level, if
\* it waits itself.
LEMMA Upwards ==
  ASSUME Types, InOrder, JoinsHoldingNothing,
         NEW t \in Threads, NEW u \in Threads, NEW v \in Threads,
         want[t] # None, WaitsFor(t, u), WaitsFor(u, v)
  PROVE  want[u] # None /\ Level[want[t]] < Level[want[u]]
<1>1. Holds(u, want[t])
  <2>1. ~(t = "main" /\ joining = u)
    BY DEF JoinsHoldingNothing, Types, Workers, None, Threads
  <2> QED  BY <2>1 DEF WaitsFor
<1>2. PICK i \in DOMAIN stack[u] : stack[u][i] = want[t]
  BY <1>1 DEF Holds
<1>3. want[u] # None
  <2> SUFFICES ASSUME want[u] = None PROVE FALSE
    OBVIOUS
  <2>1. u = "main" /\ joining = v
    BY DEF WaitsFor
  <2>2. joining # None
    BY <2>1, NamesDiffer DEF Threads, None, Workers
  <2>3. stack[u] = <<>>
    BY <2>1, <2>2 DEF JoinsHoldingNothing
  <2> QED  BY <1>2, <2>3
<1> QED  BY <1>2, <1>3 DEF InOrder

LEMMA NoCircle == Types /\ InOrder /\ JoinsHoldingNothing => NoDeadlock
<1> SUFFICES ASSUME Types, InOrder, JoinsHoldingNothing,
                    NEW S \in (SUBSET Threads) \ {{}},
                    \A t \in S : \E u \in S : WaitsFor(t, u)
             PROVE  FALSE
  BY DEF NoDeadlock
<1>1. \A t \in S : want[t] # None =>
         want[t] \in Mutexes /\ \E u \in S : want[u] # None /\ Level[want[t]] < Level[want[u]]
  <2> SUFFICES ASSUME NEW t \in S, want[t] # None
               PROVE  want[t] \in Mutexes /\ \E u \in S : want[u] # None /\ Level[want[t]] < Level[want[u]]
    OBVIOUS
  <2>1. PICK u \in S : WaitsFor(t, u)
    OBVIOUS
  <2>2. PICK v \in S : WaitsFor(u, v)
    OBVIOUS
  <2> QED  BY <2>1, <2>2, Upwards DEF Types
<1>2. \E t \in S : want[t] # None
  <2>1. PICK t \in S : TRUE
    OBVIOUS
  <2>2. PICK u \in S : WaitsFor(t, u)
    OBVIOUS
  <2>3. CASE want[t] = None
    <3>1. t = "main" /\ joining = u
      BY <2>2, <2>3 DEF WaitsFor
    <3>2. u \in Workers
      BY <3>1, NamesDiffer DEF Types, Threads, Workers, None
    <3>3. PICK v \in S : WaitsFor(u, v)
      OBVIOUS
    <3> QED  BY <3>2, <3>3, NamesDiffer DEF WaitsFor
  <2> QED  BY <2>1, <2>3
<1>3. PICK t1 \in S : want[t1] # None
  BY <1>2
<1>4. PICK t2 \in S : want[t2] # None /\ Level[want[t1]] < Level[want[t2]]
  BY <1>1, <1>3
<1>5. PICK t3 \in S : want[t3] # None /\ Level[want[t2]] < Level[want[t3]]
  BY <1>1, <1>4
<1>6. PICK t4 \in S : want[t4] # None /\ Level[want[t3]] < Level[want[t4]]
  BY <1>1, <1>5
<1>7. PICK t5 \in S : want[t5] # None /\ Level[want[t4]] < Level[want[t5]]
  BY <1>1, <1>6
<1>8. \A t \in S : want[t] # None => Level[want[t]] \in 1..4
  BY <1>1, Levels
<1> QED  BY <1>3, <1>4, <1>5, <1>6, <1>7, <1>8

\* No set of threads of the station waits in a circle, for mutexes or in a join.
THEOREM NobodyWaitsInACircle == SafeSpec => []NoDeadlock
  BY Invariant, NoCircle, PTL
=============================================================================
