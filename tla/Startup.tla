------------------------------- MODULE Startup -------------------------------
(***************************************************************************)
(* The station from its start to its exit: main of startup.cpp, class      *)
(* Configure, the registration of the terminals, and the ports             *)
(* Server::start tries; with a crash between any two steps, and restarts.  *)
(*                                                                         *)
(* A port is a number below PortCount, which is 65536 for the uint16_t of  *)
(* the code.  A configuration on disk is whole, broken (no JSON, cut, or   *)
(* of the wrong structure), odd (a terminal that is no string, which parse *)
(* cannot bear) or absent.  The user may edit it while the station is off. *)
(* All runs use the same file, that of the option -c or configure.json.    *)
(***************************************************************************)
EXTENDS Naturals

CONSTANTS PortCount,  \* the number of ports
          Range,      \* how many further ports are tried
          MainPort,   \* the port of main if none is asked for
          Default,    \* the configuration written into the program
          Customs,    \* the configurations a user may write
          MaxEdits,   \* bound on the edits of the user
          MaxRuns     \* bound on the starts

PortOf(n) == n % PortCount

Ports == 0..(PortCount - 1)

ASSUME ConstantsAssumption == /\ PortCount \in Nat \ {0}
                              /\ Range \in Ports
                              /\ MainPort \in Ports \ {0}
                              /\ Customs \cup {Default} \subseteq
                                    [port : Nat, devices : SUBSET STRING]
                              /\ MaxEdits \in Nat /\ MaxRuns \in Nat

VARIABLES disk,         \* the configuration file
          step,         \* where main is
          asked,        \* the port of the option -p
          config,       \* Configure: what was loaded
          m_equipments, \* EquipmentManager: the registered terminals
          first,        \* the port listen starts with
          port,         \* the port tried or served
          failed,       \* the ports that could not be bound
          used,         \* history: what runs since the last edit have loaded
          edits, runs   \* number of edits and of starts so far

vars == <<disk, step, asked, config, m_equipments, first, port, failed, used, edits, runs>>

memory == <<asked, config, m_equipments, first, port, failed>>

NoPort == PortCount   \* greater than every port
Nothing == [port |-> 0, devices |-> {}]

Whole(c) == [kind |-> "whole", config |-> c]
File(kind) == [kind |-> kind]

Init == /\ disk \in {File("absent"), File("broken"), File("odd")} \cup {Whole(c) : c \in Customs}
        /\ step = "off"
        /\ asked = NoPort
        /\ config = Nothing
        /\ m_equipments = {}
        /\ first = 0
        /\ port = 0
        /\ failed = {}
        /\ used = {}
        /\ edits = 0
        /\ runs = 0

Edit == /\ step = "off"
        /\ edits < MaxEdits
        /\ edits' = edits + 1
        /\ used' = {}
        /\ \E c \in Customs : disk' = Whole(c)
        /\ UNCHANGED <<step, memory, runs>>

\* The process ends, by itself, by an exception nobody catches, or killed: what is
\* left is the disk.
Off == /\ step' = "off"
       /\ asked' = NoPort
       /\ config' = Nothing
       /\ m_equipments' = {}
       /\ first' = 0
       /\ port' = 0
       /\ failed' = {}

Crash == /\ step # "off"
         /\ Off
         /\ UNCHANGED <<disk, used, edits, runs>>
-----------------------------------------------------------------------------
(* main up to Server::start.                                               *)

\* A run with or without the option -p, past its options: one with arguments that
\* are wrong, that asks for the help or the version, or that names an empty file
\* returns before it touches anything, and is no step here.
Begin(p) == /\ step = "off"
            /\ runs < MaxRuns
            /\ runs' = runs + 1
            /\ asked' = p
            /\ step' = "load"
            /\ UNCHANGED <<disk, config, m_equipments, first, port, failed, used, edits>>

\* Configure::parse: the port is cut to its width.
Parsed(c) == [c EXCEPT !.port = PortOf(c.port)]

Loads(c) == /\ config' = Parsed(c)
            /\ used' = used \cup {Parsed(c)}
            /\ step' = "create"

\* As it would be if the defaults were only written, and read the next time.
LoadsNothing(c) == /\ config' = Nothing
                   /\ used' = used \cup {Nothing}
                   /\ step' = "create"

LoadsDefault(c) == Loads(c)

\* As it would be if a file that was read were written back as the defaults.
Rewrites(c) == Loads(c) \/ (step' = "save" /\ UNCHANGED <<config, used>>)

LoadsFile(c) == Loads(c)

\* Configure::load: reads the file, or goes on to save the defaults.
Load == /\ step = "load"
        /\ \/ disk.kind = "whole" /\ LoadsFile(disk.config)
           \/ disk.kind \in {"absent", "broken"} /\ step' = "save" /\ UNCHANGED <<config, used>>
        /\ UNCHANGED <<disk, asked, m_equipments, first, port, failed, edits, runs>>

\* std::string(nullptr) throws in parse.
ParseThrows == /\ step = "load"
               /\ disk.kind = "odd"
               /\ Off
               /\ UNCHANGED <<disk, used, edits, runs>>

\* Configure::save opens the file, which empties it, or cannot open it.
Truncate == /\ step = "save"
            /\ \/ disk' = File("broken") /\ step' = "write"
               \/ disk' = disk /\ step' = "default"
            /\ UNCHANGED <<memory, used, edits, runs>>

\* The write may fail, which save does not notice, and leave the file broken.
Write == /\ step = "write"
         /\ \/ disk' = Whole(Default)
            \/ disk' = disk
         /\ step' = "default"
         /\ UNCHANGED <<memory, used, edits, runs>>

LoadDefault == /\ step = "default"
               /\ LoadsDefault(Default)
               /\ UNCHANGED <<disk, asked, m_equipments, first, port, failed, edits, runs>>

\* The port main gives to Server::start.
Chosen == IF asked # NoPort THEN config.port ELSE MainPort

\* EquipmentManager::create, which registers a number once.
Create == /\ step = "create"
          /\ m_equipments' = config.devices
          /\ first' = Chosen
          /\ step' = "start"
          /\ UNCHANGED <<disk, asked, config, port, failed, used, edits, runs>>
-----------------------------------------------------------------------------
(* Server::start, listen and close.                                        *)

\* As it would be if the last port were left out.
EndExclusive == PortOf(first + Range - 1)

\* The last port of the range: port + 10 in the width of a port.
End == PortOf(first + Range)

\* As they would be without the width of a port, or if the loop skipped port 0.
AfterWide(p) == p + 1
AfterSkipping(p) == IF PortOf(p + 1) = 0 THEN 1 ELSE p + 1

\* ++port.
After(p) == PortOf(p + 1)

\* A range that wraps is refused: start returns and nothing listens.
Listen == /\ step = "start"
          /\ port' = first
          /\ step' = IF first > End THEN "idle" ELSE "listen"
          /\ UNCHANGED <<disk, asked, config, m_equipments, first, failed, used, edits, runs>>

\* The acceptor cannot be bound, because another program has the port.  Port 0, a
\* port of the system's choice, can always be bound.
Taken == /\ step = "listen"
         /\ port <= End
         /\ port # 0
         /\ failed' = failed \cup {port}
         /\ port' = After(port)
         /\ UNCHANGED <<disk, step, asked, config, m_equipments, first, used, edits, runs>>

\* It is bound; but start takes a port 0 for the failure of listen and returns.
Bound == /\ step = "listen"
         /\ port <= End
         /\ step' = IF port = 0 THEN "idle" ELSE "announce"
         /\ UNCHANGED <<disk, memory, used, edits, runs>>

NoneFree == /\ step = "listen"
            /\ port > End
            /\ step' = "idle"
            /\ UNCHANGED <<disk, memory, used, edits, runs>>

\* localhost: the network thread runs by now; resolve throws if the name of the host
\* cannot be resolved.
Announce == /\ step = "announce"
            /\ step' = "serving"
            /\ UNCHANGED <<disk, memory, used, edits, runs>>

ResolveThrows == /\ step = "announce"
                 /\ Off
                 /\ UNCHANGED <<disk, used, edits, runs>>

\* The command "stop": Server::close, again without effect.
Stop == /\ step \in {"serving", "idle", "closed"}
        /\ step' = "closed"
        /\ m_equipments' = {}
        /\ UNCHANGED <<disk, asked, config, first, port, failed, used, edits, runs>>

\* The command line ends: Server::close and the return of main.
Exit == /\ step \in {"serving", "idle", "closed"}
        /\ Off
        /\ UNCHANGED <<disk, used, edits, runs>>
-----------------------------------------------------------------------------
Main == \/ Load \/ ParseThrows \/ Truncate \/ Write \/ LoadDefault \/ Create
        \/ Listen \/ Taken \/ Bound \/ NoneFree \/ Announce \/ ResolveThrows

Next == \/ Main \/ Edit \/ Crash \/ Stop \/ Exit
        \/ \E p \in Ports \cup {NoPort} : Begin(p)

SafeSpec == Init /\ [][Next]_vars

\* main goes on by itself until the command line reads commands.
Spec == SafeSpec /\ WF_vars(Main)
-----------------------------------------------------------------------------
(* Properties.                                                             *)

Configs == {Nothing} \cup {Parsed(c) : c \in Customs \cup {Default}}

\* Type invariant: what is configured, tried, bound or announced is a port.
TypeOK == /\ \/ disk \in {File("absent"), File("broken"), File("odd")}
             \/ \E c \in Customs \cup {Default} : disk = Whole(c)
          /\ step \in {"off", "load", "save", "write", "default", "create", "start", "listen",
                       "announce", "serving", "idle", "closed"}
          /\ asked \in Ports \cup {NoPort}
          /\ config \in Configs
          /\ m_equipments \in {{}, config.devices}
          /\ first \in Ports
          /\ port \in Ports
          /\ failed \subseteq Ports
          /\ used \subseteq Configs
          /\ edits \in 0..MaxEdits
          /\ runs \in 0..MaxRuns

\* A station that serves does so at the first port from the chosen one on that was
\* free, and one that does not had a reason: every port of its range was taken, the
\* range wraps, or it starts at port 0 (Server::listen and start of server.cpp).
FirstFreePort ==
    /\ step \in {"announce", "serving"} => /\ port \in first..(first + Range)
                                           /\ failed = first..(port - 1)
    /\ step = "idle" => \/ first..(first + Range) \subseteq failed
                        \/ first + Range \notin Ports
                        \/ first = 0

\* Listening comes to an end: the loop over ports does not go round and round at the
\* largest one, where the next port is 0 and still not past the end.
ListenEnds == step = "listen" ~> step \in {"serving", "idle", "off"}

\* The station never overwrites a configuration it can read: neither the user's nor,
\* after a crash in the middle of save, its own.
FileIsKept == [][disk.kind \in {"whole", "odd"} /\ step # "off" => disk' = disk]_vars

\* Until the user edits the file every run uses the same configuration, also when an
\* earlier one crashed between emptying the file and writing it, could not open it, or
\* failed to write it.
SameAfterRestart == \A c, d \in used : c = d
=============================================================================
