---------------------------- MODULE StartupProofs ----------------------------
(***************************************************************************)
(* Proofs about Startup, for any number of ports, any length of the range  *)
(* and any configurations: type correctness, that the station serves at    *)
(* the first free port, and what happens to the configuration file.        *)
(*                                                                         *)
(* None of the properties is inductive.  The port served is known from     *)
(* what the loop of listen has tried (Listening), that from a start with   *)
(* nothing tried (Cold); what a run loads is known from what the file will *)
(* be once it is saved (Saving, UsedIsSource).                             *)
(***************************************************************************)
EXTENDS Startup, TLAPS

-----------------------------------------------------------------------------
(* Arithmetic of ports.                                                    *)

LEMMA PortOfIsPort == \A n \in Nat : PortOf(n) \in Ports
  BY ConstantsAssumption DEF PortOf, Ports

LEMMA PortOfPort == \A p \in Ports : PortOf(p) = p
  BY ConstantsAssumption DEF PortOf, Ports

\* What lies beyond the last port wraps.
LEMMA PortOfWraps == \A n \in PortCount..(2 * PortCount - 1) : PortOf(n) = n - PortCount
  BY ConstantsAssumption DEF PortOf

LEMMA PortsAreNumbers == /\ Ports \subseteq Nat
                         /\ \A p \in Ports : p < PortCount
                         /\ \A n \in Nat : n < PortCount => n \in Ports
                         /\ Range \in Ports /\ 0 \in Ports /\ PortCount \in Nat
  BY ConstantsAssumption DEF Ports

\* The range of listen is whole unless its end is less than its start.
LEMMA RangeOfListen ==
  ASSUME first \in Ports
  PROVE  /\ End \in Ports
         /\ first <= End => End = first + Range /\ first + Range \in Ports
         /\ first > End => first + Range \notin Ports
<1>1. first \in Nat /\ Range \in Nat /\ first < PortCount /\ Range < PortCount /\ PortCount \in Nat
  BY PortsAreNumbers
<1>2. CASE first + Range < PortCount
  <2>1. first + Range \in Ports
    BY <1>1, <1>2, PortsAreNumbers
  <2>2. End = first + Range
    BY <2>1, PortOfPort DEF End
  <2> QED  BY <1>1, <2>1, <2>2
<1>3. CASE first + Range >= PortCount
  <2>1. first + Range \in PortCount..(2 * PortCount - 1)
    BY <1>1, <1>3
  <2>2. End = first + Range - PortCount
    BY <1>1, <2>1, PortOfWraps DEF End
  <2>3. End \in Nat /\ End < first
    BY <1>1, <1>3, <2>2
  <2>4. first + Range \notin Ports
    BY <1>1, <1>3, PortsAreNumbers
  <2> QED  BY <1>1, <2>3, <2>4, PortsAreNumbers
<1> QED  BY <1>1, <1>2, <1>3

\* The next port is one more, but for the last port of all, where it is 0.
LEMMA AfterPort ==
  ASSUME NEW p \in Ports
  PROVE  /\ After(p) \in Ports
         /\ After(p) = p + 1 \/ (After(p) = 0 /\ p + 1 = PortCount)
<1>1. p \in Nat /\ p < PortCount /\ PortCount \in Nat
  BY PortsAreNumbers
<1>2. CASE p + 1 < PortCount
  <2>1. p + 1 \in Ports
    BY <1>1, <1>2, PortsAreNumbers
  <2> QED  BY <2>1, PortOfPort DEF After
<1>3. CASE p + 1 = PortCount
  <2>1. p + 1 \in PortCount..(2 * PortCount - 1)
    BY <1>1, <1>3
  <2>2. After(p) = 0
    BY <1>1, <1>3, <2>1, PortOfWraps DEF After
  <2> QED  BY <1>3, <2>2, PortsAreNumbers
<1> QED  BY <1>1, <1>2, <1>3

LEMMA ParsedIsConfig ==
  ASSUME NEW c \in Customs \cup {Default}
  PROVE  Parsed(c) \in Configs
  BY DEF Configs

LEMMA ConfigPort == \A c \in Configs : c.port \in Ports
<1>1. Nothing.port \in Ports
  BY PortsAreNumbers DEF Nothing
<1>2. ASSUME NEW c \in Customs \cup {Default}
      PROVE  Parsed(c).port \in Ports
  <2>1. c \in [port : Nat, devices : SUBSET STRING]
    BY ConstantsAssumption
  <2>2. Parsed(c).port = PortOf(c.port) /\ c.port \in Nat
    BY <2>1 DEF Parsed
  <2> QED  BY <2>2, PortOfIsPort
<1> QED  BY <1>1, <1>2 DEF Configs
-----------------------------------------------------------------------------
(* Type correctness.                                                       *)

\* A run begins with nothing tried and nobody registered.
Cold == /\ step \in {"off", "load", "save", "write", "default", "create", "start"} => failed = {}
        /\ step \in {"off", "load", "save", "write", "default", "create"} => m_equipments = {}

LEMMA InitType == Init => TypeOK /\ Cold
  BY ConstantsAssumption, PortsAreNumbers DEF Init, TypeOK, Cold, Configs, NoPort

LEMMA OffType ==
  ASSUME TypeOK, Off, disk' = disk, UNCHANGED <<used, edits, runs>>
  PROVE  TypeOK' /\ Cold'
  BY PortsAreNumbers DEF TypeOK, Cold, Off, Configs, NoPort

LEMMA LoadsType ==
  ASSUME TypeOK, Cold, step \in {"load", "default"}, NEW c \in Customs \cup {Default}, Loads(c),
         UNCHANGED <<disk, asked, m_equipments, first, port, failed, edits, runs>>
  PROVE  TypeOK' /\ Cold'
  BY ParsedIsConfig DEF TypeOK, Cold, Loads

LEMMA NextType == TypeOK /\ Cold /\ [Next]_vars => TypeOK' /\ Cold'
<1> SUFFICES ASSUME TypeOK, Cold, [Next]_vars PROVE TypeOK' /\ Cold'
  OBVIOUS
<1> USE DEF TypeOK, Cold, memory
<1>1. CASE Edit
  BY <1>1, ConstantsAssumption DEF Edit
<1>2. CASE Crash \/ ParseThrows \/ ResolveThrows \/ Exit
  BY <1>2, OffType DEF Crash, ParseThrows, ResolveThrows, Exit
<1>3. ASSUME NEW p \in Ports \cup {NoPort}, Begin(p)
      PROVE  TypeOK' /\ Cold'
  BY <1>3, ConstantsAssumption DEF Begin
<1>4. CASE Load
  <2>1. CASE disk.kind = "whole" /\ LoadsFile(disk.config)
    <3>1. disk.config \in Customs \cup {Default}
      BY <2>1 DEF File, Whole
    <3> QED  BY <1>4, <2>1, <3>1, LoadsType DEF Load, LoadsFile
  <2>2. CASE step' = "save" /\ UNCHANGED <<config, used>>
    BY <1>4, <2>2 DEF Load
  <2> QED  BY <1>4, <2>1, <2>2 DEF Load
<1>5. CASE Truncate \/ Write
  BY <1>5 DEF Truncate, Write
<1>6. CASE LoadDefault
  BY <1>6, LoadsType DEF LoadDefault, LoadsDefault
<1>7. CASE Create
  <2>1. Chosen \in Ports
    BY ConfigPort, ConstantsAssumption DEF Chosen
  <2> QED  BY <1>7, <2>1 DEF Create
<1>8. CASE Listen
  BY <1>8 DEF Listen
<1>9. CASE Taken
  BY <1>9, AfterPort DEF Taken
<1>10. CASE Bound \/ NoneFree \/ Announce \/ Stop \/ UNCHANGED vars
  BY <1>10 DEF Bound, NoneFree, Announce, Stop, vars
<1> QED  BY <1>1, <1>2, <1>3, <1>4, <1>5, <1>6, <1>7, <1>8, <1>9, <1>10 DEF Next, Main

LEMMA Invariant == SafeSpec => [](TypeOK /\ Cold)
  BY InitType, NextType, PTL DEF SafeSpec

\* Every variable keeps its type: a port that is configured, asked for or tried has
\* the width of a port, and only parsed configurations are used (configure.cpp,
\* server.cpp).
THEOREM Typing == SafeSpec => []TypeOK
  BY Invariant, PTL
-----------------------------------------------------------------------------
(* The port.                                                               *)

\* What the loop has tried: all ports before the one it is at, or the whole range if
\* that ends at the largest port, where the next one is 0.
Listening ==
    step = "listen" => /\ first + Range \in Ports
                       /\ \/ port \in first..(first + Range + 1) /\ failed = first..(port - 1)
                          \/ port = 0 /\ first..(first + Range) \subseteq failed

LEMMA TakenKeepsListening ==
  ASSUME TypeOK, Listening, Taken
  PROVE  Listening'
<1>1. first \in Nat /\ Range \in Nat /\ port \in Nat /\ PortCount \in Nat
  BY PortsAreNumbers DEF TypeOK
<1>2. first \in Ports /\ port \in Ports /\ port # 0 /\ port <= End
  BY DEF Taken, TypeOK
<1>3. first + Range \in Ports /\ port \in first..(first + Range + 1) /\ failed = first..(port - 1)
  BY <1>2 DEF Listening, Taken
<1>4. End = first + Range
  BY <1>3, PortOfPort DEF End
<1>5. failed' = first..port
  BY <1>1, <1>3 DEF Taken
<1>6. port' = port + 1 \/ (port' = 0 /\ port + 1 = PortCount)
  BY <1>2, AfterPort DEF Taken
<1>7. CASE port' = port + 1
  BY <1>1, <1>2, <1>3, <1>4, <1>5, <1>7 DEF Listening, Taken
<1>8. CASE port' = 0 /\ port + 1 = PortCount
  <2>1. first + Range < PortCount
    BY <1>3, PortsAreNumbers
  <2>2. port = first + Range
    BY <1>1, <1>2, <1>4, <1>8, <2>1
  <2> QED  BY <1>1, <1>3, <1>5, <1>8, <2>2 DEF Listening, Taken
<1> QED  BY <1>6, <1>7, <1>8

LEMMA NextFirstFree ==
  TypeOK /\ Cold /\ Listening /\ FirstFreePort /\ [Next]_vars => Listening' /\ FirstFreePort'
<1> SUFFICES ASSUME TypeOK, Cold, Listening, FirstFreePort, [Next]_vars
             PROVE  Listening' /\ FirstFreePort'
  OBVIOUS
<1>1. first \in Nat /\ Range \in Nat /\ port \in Nat /\ first \in Ports
  BY PortsAreNumbers DEF TypeOK
<1>2. CASE step' \notin {"listen", "announce", "serving", "idle"}
  BY <1>2 DEF Listening, FirstFreePort
<1>3. CASE Listen
  <2>1. failed' = {} /\ port' = first /\ first' = first
    BY <1>3 DEF Listen, Cold
  <2>2. CASE first > End
    BY <1>1, <1>3, <2>1, <2>2, RangeOfListen DEF Listen, Listening, FirstFreePort
  <2>3. CASE ~(first > End)
    <3>1. first + Range \in Ports
      <4>1. End \in Nat
        BY <1>1, RangeOfListen, PortsAreNumbers
      <4> QED  BY <1>1, <2>3, <4>1, RangeOfListen
    <3>2. first \in first..(first + Range + 1) /\ first..(first - 1) = {}
      BY <1>1
    <3> QED  BY <1>3, <2>1, <2>3, <3>1, <3>2 DEF Listen, Listening, FirstFreePort
  <2> QED  BY <2>2, <2>3
<1>4. CASE Taken
  BY <1>4, TakenKeepsListening DEF Taken, FirstFreePort
<1>5. CASE Bound
  <2>1. End = first + Range
    BY <1>5, PortOfPort DEF Bound, Listening, End
  <2>2. UNCHANGED <<first, port, failed>> /\ port <= first + Range
    BY <1>5, <2>1 DEF Bound, memory
  <2>3. CASE port = 0
    <3>1. first = 0 \/ first..(first + Range) \subseteq failed
      BY <1>1, <1>5, <2>3 DEF Bound, Listening
    <3> QED  BY <1>5, <2>2, <2>3, <3>1 DEF Bound, Listening, FirstFreePort
  <2>4. CASE port # 0
    <3>1. port \in first..(first + Range) /\ failed = first..(port - 1)
      BY <1>1, <1>5, <2>2, <2>4 DEF Bound, Listening
    <3> QED  BY <1>5, <2>2, <2>4, <3>1 DEF Bound, Listening, FirstFreePort
  <2> QED  BY <2>3, <2>4
<1>6. CASE NoneFree
  <2>1. End = first + Range
    BY <1>6, PortOfPort DEF NoneFree, Listening, End
  <2>2. first..(first + Range) \subseteq failed
    BY <1>1, <1>6, <2>1 DEF NoneFree, Listening
  <2> QED  BY <1>6, <2>2 DEF NoneFree, Listening, FirstFreePort, memory
<1>7. CASE Announce
  BY <1>7 DEF Announce, Listening, FirstFreePort, memory
<1>8. CASE UNCHANGED vars
  BY <1>8 DEF vars, Listening, FirstFreePort
<1> QED
  BY <1>2, <1>3, <1>4, <1>5, <1>6, <1>7, <1>8
  DEF Next, Main, Load, ParseThrows, Truncate, Write, LoadDefault, Create, ResolveThrows, Edit,
      Crash, Stop, Exit, Begin, Off, Loads, LoadsFile, LoadsDefault

\* A station that serves does so at the first port from the chosen one on that was
\* free, and one that does not had a reason: every port of its range was taken, the
\* range wraps, or it starts at port 0 (Server::listen and start of server.cpp).
THEOREM ServesAtFirstFreePort == SafeSpec => []FirstFreePort
<1>1. Init => Listening /\ FirstFreePort
  BY DEF Init, Listening, FirstFreePort
<1> QED  BY <1>1, Invariant, NextFirstFree, PTL DEF SafeSpec
-----------------------------------------------------------------------------
(* The configuration.                                                      *)

\* A file is only written when there was nothing to be read.
Saving == /\ step \in {"save", "write"} => disk.kind \in {"absent", "broken"}
          /\ step = "default" => disk.kind \in {"absent", "broken"} \/ disk = Whole(Default)

\* What a run that begins now would use.
Source == IF disk.kind = "whole" THEN Parsed(disk.config) ELSE Parsed(Default)

UsedIsSource == used \subseteq {Source}

LEMMA SourceOfWhole == \A c : Whole(c).kind = "whole" /\ Whole(c).config = c
  BY DEF Whole

LEMMA NextSource ==
  TypeOK /\ Saving /\ UsedIsSource /\ [Next]_vars => Saving' /\ UsedIsSource'
<1> SUFFICES ASSUME TypeOK, Saving, UsedIsSource, [Next]_vars
             PROVE  Saving' /\ UsedIsSource'
  OBVIOUS
<1> USE DEF Saving, UsedIsSource, Source
<1>1. CASE Edit
  BY <1>1 DEF Edit
<1>2. CASE Load
  BY <1>2 DEF Load, LoadsFile, Loads
<1>3. CASE Truncate
  <2>1. File("broken").kind = "broken"
    BY DEF File
  <2> QED  BY <1>3, <2>1 DEF Truncate
<1>4. CASE Write
  BY <1>4, SourceOfWhole DEF Write
<1>5. CASE LoadDefault
  BY <1>5, SourceOfWhole DEF LoadDefault, LoadsDefault, Loads
<1>6. CASE /\ UNCHANGED <<disk, used>>
           /\ step' \notin {"save", "write", "default"} \/ step' = step
  BY <1>6
<1> QED
  BY <1>1, <1>2, <1>3, <1>4, <1>5, <1>6
  DEF Next, Main, ParseThrows, Create, Listen, Taken, Bound, NoneFree, Announce, ResolveThrows,
      Crash, Stop, Exit, Begin, Off, vars

LEMMA SourceInvariant == SafeSpec => [](Saving /\ UsedIsSource)
<1>1. Init => Saving /\ UsedIsSource
  BY DEF Init, Saving, UsedIsSource
<1> QED  BY <1>1, NextSource, Invariant, PTL DEF SafeSpec

\* Until the user edits the file every run uses the same configuration, also when an
\* earlier one crashed between emptying the file and writing it, could not open it, or
\* failed to write it (Configure::load and save).
THEOREM RestartsAlike == SafeSpec => []SameAfterRestart
<1>1. UsedIsSource => SameAfterRestart
  BY DEF UsedIsSource, SameAfterRestart
<1> QED  BY <1>1, SourceInvariant, PTL

\* The station never overwrites a configuration it can read (Configure::load and
\* save).
THEOREM NothingReadableIsLost == SafeSpec => FileIsKept
<1>1. Saving /\ [Next]_vars =>
        [disk.kind \in {"whole", "odd"} /\ step # "off" => disk' = disk]_vars
  <2> SUFFICES ASSUME Saving, Next, disk.kind \in {"whole", "odd"}, step # "off"
               PROVE  disk' = disk
    OBVIOUS
  <2> QED
    BY DEF Saving, Next, Main, Load, ParseThrows, Truncate, Write, LoadDefault, Create, Listen,
           Taken, Bound, NoneFree, Announce, ResolveThrows, Edit, Crash, Stop, Exit, Begin, Off
<1> QED  BY <1>1, SourceInvariant, PTL DEF SafeSpec, FileIsKept
=============================================================================
