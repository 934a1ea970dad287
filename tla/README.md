# Base Station Simulator: verification project

TLA+ models of the base station (`src/source`, `src/startup.cpp`), the TLC
configurations that check them on small instances, and theorems about them whose
proofs TLAPS checks.

The station lets simulated terminals log in over TCP with heartbeats, and relays
voice calls and short messages between them. It has four threads and five mutexes;
what is hard about it is what those threads do to each other's sessions, calls and
timers, and that is what is modelled.

## 1. Inventory

| Component (source) | State | Operations | Correct means |
|---|---|---|---|
| Message processor (`processor.cpp`) | deques `m_recv`, `m_send`, `m_mutex`, `m_condition`, `m_quit` | `append`, `fetch`, `process`, `resolve`, `cleanup`, `quit`, destructor | no message lost, repeated or overtaken; no sleep while one is queued; both streams move; destruction ends |
| Session registry (`server.cpp`, `equipment.cpp`) | `Server::m_sessions`; per `Session` socket, timer, number, closed; `EquipmentManager::m_equipments`; per `Equipment` session and state | accept, start, receive, append, timeout, disconnect, write, do_close, remove, login, logout, send, clear, close | one open session per number; every open session in exactly one table; none kept that cannot expire; only its own end takes a number offline; stop leaves nothing open |
| Call control (`cmdcall.cpp`, `equipment.cpp`) | `Equipment::m_calls`, one answer timer per call | MAKE_CALL, RECV_CALL, ANSWER_CALL, HANGUP_CALL, the answer timer's callback, clearCall | timers and calls stay paired; no callback begins once a call is settled and no command finds one that has expired; both parties hear an outcome |
| Timer manager (`timer.cpp`) | `m_timers`, `m_counter`, `m_mutex`; per `Timer` a strand, a wait, `m_running`; a worker thread | create, start, stop, reset, remove, schedule, destructor | a timer fires once, never begins to after remove, and fires if it is left alone, also when a reset meets its expiry |
| Short messages (`cmdsmsg.cpp`) | none of its own | SEND_MESSAGE, RECV_MESSAGE | the sender learns the truth about its message, of each of several receivers; order is kept |
| Command builder (`command.cpp`) | a table of factories, filled once | registerCommand, build | read only after start |
| Message format (`processor.cpp`: `Message`) | a frame of 1024 bytes | parse, build, valid | what is built can be parsed |
| Configuration and program entry (`configure.cpp`, `startup.cpp`, `Server::listen`) | the file, port, terminals, options | load, save, parse, listen, start, stop, exit | the same configuration after a crash and restart; the first free port from the one asked for; listening ends |
| Locking (all of `src/source`) | five mutexes, four threads | lock_guard blocks, joins | one order for all threads, nobody waits in a circle |
| Logger (`logger.cpp`) | file, level, mutex | log | output only; its mutex is innermost |

How they interact:

* The **network thread** (`Server::start`) runs the asio context: `accept`, and every
  handler of a session. A received message is given to `MessageProcessor::append(Recv)`.
* The **processor thread** takes one received message, builds and runs its command,
  which reads `EquipmentManager`, uses the calls of an `Equipment`, uses
  `TimerManager` and appends answers with `append(Send)`; then it takes one posted
  message and gives it to `Server::send`.
* The **timer thread** runs the callbacks of expired timers: they remove the timer,
  remove the call and append NO_ANSWER.
* The **main thread** runs the command line, and stops the server; the singletons are
  destroyed when it returns.

The hard behaviours: a notify that falls between the test of a wait's predicate and
the sleep; an expiry that is queued already when the timer is set anew; a session
that changes hands between two tables while its timeout, its errors and a second
connection of the same number arrive; a logout between two steps of a command, or
between two receivers of one message; an answer that races the answer timer; a table of calls that three threads use with no
common mutex. `PROJECT.json` lists each at its line with the properties that watch it.

## 2. Modules

| Module | Models | Kind |
|---|---|---|
| `MessageFlow` | two reliable FIFO streams that keep moving until closed | abstract specification |
| `MessageProcessor` | `MessageProcessor` with its thread, mutex and condition variable | detailed; refines `MessageFlow` |
| `MCMessageProcessor` | instance of it | TLC |
| `MessageProcessorProofs` | four theorems | TLAPS |
| `Presence` | who is reached through which connection | abstract specification |
| `Registry` | `Server`, `Session`, `Equipment`, `EquipmentManager` | detailed; refines `Presence` |
| `MCRegistry` | instances of it | TLC |
| `RegistryProofs` | five theorems | TLAPS |
| `AnswerTimer` | a timer that is armed once and fires at most once | abstract specification |
| `TimerManager` | `Timer`, `TimerManager` with the strands and the worker thread | detailed; refines `AnswerTimer` |
| `MCTimerManager` | two timers | TLC |
| `TimerManagerProofs` | three theorems | TLAPS |
| `CallControl` | the commands of a call, the calls of an equipment, the answer timer | detailed; refines `AnswerTimer` |
| `MCCallControl` | one call of two terminals | TLC |
| `CallControlProofs` | four theorems | TLAPS |
| `ShortMessage` | the commands of a short message, the deques, the cut of a frame | detailed |
| `MCShortMessage` | two messages among three terminals and a stranger | TLC |
| `ShortMessageProofs` | three theorems | TLAPS |
| `Startup` | `main`, `Configure`, the ports tried, crash and restart | detailed |
| `MCStartup` | eight ports | TLC |
| `StartupProofs` | four theorems | TLAPS |
| `LockOrder` | which mutex is taken inside which, and the joins | composition of all components |
| `MCLockOrder` | it has no constants | TLC |
| `LockOrderProofs` | three theorems | TLAPS |

Variables and actions have the names of the code; the `map` of `PROJECT.json` gives
the lines of each definition. An operator whose comment begins "As it would be" is a
fault the code does not have: it is used by no specification, only to show
that the properties notice it.

### MessageProcessor

`m_recv` and `m_send` are the deques; `pc`, `want`, `message` and `todo` are where the
thread is in `process()`, which deque it fetches from, the message in its hand and
what its command has still to append. A critical section is one step, because nothing
it reads is written outside the mutex, except `m_quit`. So the wait in
`fetch()` is split into `FetchNothing` (the predicate was false; the mutex is held),
`Block` (asleep, the mutex released) and a wakeup. `quit()` is `SetQuit` then
`NotifyAll`, neither of which waits for the mutex, as in the code. Both
deques wake either fetch, as in the code: a fetch for the empty one returns null.
The command itself is the choice of at most two answers (`Replies`): enough for every
command of the station. Bounds: `MaxReceived`, `MaxPosted`.

### Registry

A handler of the network thread is one action up to where it gives up the mutex of
`Server` or of `EquipmentManager`, then goes on by `io.step`:

    ReceiveHeart (append) -> NoteHeart (m_number, do_timeout, do_receive or do_close)
    ReadFails, WriteEnds, Timeout -> Remove -> DoLogout -> DoClose    (do_close)

`armed`, `due` and `stale` are the steady timer: its wait is pending; its handler is
queued; a heartbeat was handled since it was queued. `do_timeout` replaces a pending
wait, which cancels it, and cannot take back a queued one. `Alive` is whether the
weak pointer of a handler can be locked, that is whether a table still has the
session. `Send` is the processor thread's write to a number, under both mutexes.
`StopContext`, `Join`, `ClearSession`, `ClearEquipment`, `EndClear` are
`Server::close`. Join waits for the running handler. A peer may fall silent
(`GoSilent`): it sends nothing and does not disconnect. Messages other than the
heartbeat change nothing in the registry and have no action. Assumption: a terminal
uses one number for the life of a connection, as the README's protocol has it.

### CallControl

`cmd` is the step of the command the processor thread runs, `callback` that of the
timer thread, `io` a logout under way on the network thread. A command is broken
wherever it gives up a mutex or touches `m_calls`. Two threads about to use the same
`m_calls`, one of them to change it, are a data race on an `unordered_map`: the
action `Crash` is then possible and ends the behaviour; the behaviours in which the
race does no harm are explored too. The terminals are the environment: each sends a
message at most once per call and only after what prompts it. `heard` is what they
were told last; `sent`, `posted` and `dropped` are histories for the properties.
`posted` is not `heard`: a notice to a terminal that is away when it is delivered is
lost. `BothPartiesHear` is about what is heard, and says only that a party gets some
outcome. The outcomes can contradict each other when a command and a callback overlap:
the callback of a call that a command has found before `RemoveCall` runs to its end, and
both parties hear ACTIVE and then NO_ANSWER (`AnsweredIsFinal`, refuted).
`SettledOrExpired` says that nothing else contradicts: no callback begins after the
announcement of a command, and no command finds a call after that of its callback.
Assumptions: a uuid is used once; a command that is running ends within
the 30 seconds of the answer timer it has started (so `Expire` waits for its own
`MakeCall`); `MaxLogouts` bounds
the logouts. A removed timer starts no callback: that is `AnswerTimer`, which
`TimerManager` implements and which `CallControl` is shown to implement too.

### TimerManager

`strand` is the queue of handlers of each timer, `waiting` the pending waits,
`m_running` the flag as it was set last, `worker` the callback the thread is running.
Public operations are one step under `m_mutex` that posts to a strand; a handler is
one step of the worker, except an expiry that calls back, which is taken apart
(`HandleExpired`, `CallbackRemove`, `EndCallback`) because other threads may remove
the timer meanwhile. `Alive` is whether the handler's weak pointer can be locked: the
table or the running handler has the timer. A wait that has expired is queued and
no cancel takes it back, so a `reset` may be followed by the old expiry; one
that is cancelled or whose timer is destroyed runs a handler that returns at once,
which is left out. `remove` in the callback runs the handler of `stop` in place, as
`asio::dispatch` does on its own strand. `~TimerManager` is `StopContext`, `Join`,
`BeginErase`, `Erase`, `EndErase`; clients may call until it has the mutex for good. The
periodic mode, which nothing uses, is left out. Under the refinement a timer
is armed from the call of `start` to its removal, the handling of a stop, or the
lock of the handler that calls back, and firing while that handler runs.

`CallControl` has timers without strands. `AnswerTimer` is what ties the two together:
both implement it, so what `CallControl` does with its timers is what `TimerManager`
can deliver, and the other way round.

### ShortMessage

A command is two steps, the look at the registry (`SendShortMsg`, `RecvShortMsg`) and
`AppendSend`, and a logout may come between. `to` is a list, from `Lists`: the commands
look at its first receiver only and pass the whole list on. `FetchSend` takes a notice
out, and `Deliver` is one round of the loop of `Server::send`, one receiver; a logout may
come between two rounds, since the mutex of the registry is taken anew in each. A message has the length of the text that
`cJSON_Print` makes of it; `Parses` is whether that fits in a frame. `inbox` is what
each terminal has got and could parse. Terminals send a uuid once and acknowledge what
they get, each receiver for itself and with an empty content; numbers may be one's own,
not registered, or in a list twice. No list is empty.

### Startup

`step` goes through `main` (a start that ends at once, for bad arguments, the help or the
version, is no step; every run uses one file): load, save (`Truncate`, `Write`), default, create, start,
listen, announce, then the command line (serving, idle or closed). A crash can
come at any step and leaves only `disk`. A file may not open, and a write may fail after
the truncation without a word (`Write`). There are `PortCount` ports, and `Range`
of them are tried after the first: 65536 and 1024 in the code, 8 and 2 for TLC, any
numbers in the proofs. `Taken` and `Bound` are whether another program has a port, chosen
each time; port 0 can always be bound. `idle` is a station that runs its command line
and serves nobody.

### LockOrder

`stack` is what a thread holds, `want` what it waits for, `joining` whom main waits for.
`Outer` and `Inner` say which mutex is taken with none or with one held; they are read
off every call in a `lock_guard` block. Any order of such takes is allowed, which
covers every path of the code and more. It relies on `Registry` for one thing: a session
destroyed inside a block was closed before, so its destructor does not call back into
`Server`.

## 3. Runs

| Run | Instance | Shows |
|---|---|---|
| `processor` | 3 kinds of received message (one not valid), 2 of posted, at most 3 and 3 of them; 154,674 states | `TypeOK`, `NothingLost`, `SleepsOnlyWhenIdle`, and `FlowSpec`: safety and liveness of `MessageFlow` |
| `processor_quit` | one of each | finding: `QuitEnds` fails |
| `registry` | 2 connections that may fall silent, 2 numbers, an unregistered number; 367,607 states | `TypeOK`, `Ownership`, `Attended`, `OnlyOwnEndLogsOut`, `DirectorySpec`, `SilentEnds`, `StopClosesAll` |
| `registry_stale` | the same with one number | finding: `HeartbeatKeepsOnline` fails |
| `call` | one call of two terminals, one logout at any point; 341,603 states | `TypeOK`, `TimersHaveCalls`, `SettledOrExpired`, `BothPartiesHear`, `AnswerTimerSpec` |
| `call_hears` | the same | finding: `CallerHears` fails |
| `call_ended` | no logout | finding: `EndedStaysEnded` fails |
| `call_answered` | no logout | finding: `AnsweredIsFinal` fails |
| `timers` | 2 timers, 3 calls of stop or reset; 103,943 states | `TypeOK`, `WaitsAndRuns`, and `AnswerTimerSpec`: safety and liveness of `AnswerTimer` |
| `locks` | 4 threads, 5 mutexes; 43,699 states | `TypeOK` (with mutual exclusion), `InOrder`, `NoDeadlock` |
| `smsg` | 2 messages of one of 3 terminals, to one receiver or three, lengths 1020 and 1021, 1 logout; 87,545 states | `TypeOK`, `AnswersAreTrue`, `ArriveInOrder`, `SenderHears` |
| `startup` | 3 starts, 1 edit, 8 ports, three of them tried; 5,734 states | `TypeOK`, `FirstFreePort`, `SameAfterRestart`, `ListenEnds`, `FileIsKept` |

Why the bounds are enough for the questions asked. *processor*: a lost, repeated or
overtaken message shows with two of one deque, a missed wakeup with one; three leaves
room for one in the hand, one queued and one being appended. *registry*: two
connections compete for one number, or use one each; the theorems hold for any
number of both. Connections are not used again, because the key
generator never repeats within a life of the station. *call*: all races of a call are
between the three threads about one uuid and one table; what two calls do to each
other is not covered. *timers*: one timer shows all races of a strand, the second
that the worker leaves none behind; three calls are a stop and a reset on each side of
an expiry. *smsg*: order needs two messages of one sender, truth two receivers that
answer and a refusal; with a stranger between the two, each round of the loop has a way
to fail; one logout takes one of the three away at any point. The lengths are those on both sides of the cut. *startup*: two
starts show what a crash leaves, the third what the one after it does; the configured
ports include 0, the port whose range ends at the largest, the first whose range
wraps, and one too wide. *locks* is exact: there are four threads and five mutexes.
Deadlock is checked where the end is explicit (`Joined`, `Closed`, `Gone`, `Return`);
in `CallControl`, `ShortMessage` and `Startup` the system rests when the terminals, or
the bounds, leave nothing to do, so `CHECK_DEADLOCK FALSE`.

Fairness:

* `MessageProcessor`: weak fairness of the processor thread and of the destructor once
  entered: the operating system schedules a thread that can run. None for
  terminals, timers, spurious wakeups or the user.
* `Registry`: weak fairness of the rest of a handler that has begun and of
  `Server::close` once begun, for the same reason. Weak fairness of the expiry of a
  silent session's timer: time passes. Strong fairness of its
  handler (`Timeout`): it is enabled only between other handlers, and asio runs
  handlers in the order they were queued, so whatever else is queued it has its turn.
* `CallControl`: weak fairness of the processor thread, of a callback or a logout that
  has begun, and of the expiry of a timer that is not removed.
* `TimerManager`: weak fairness of each expiry (time passes), of the handlers of each
  strand and the rest of a callback (asio runs what is queued in turn), and of the
  destructor once begun. No client has to call anything.
* `ShortMessage`: weak fairness of the processor thread, and of the acknowledgement of a
  terminal that stays logged in, as the README's protocol has it.
* `Startup`: weak fairness of `main` until the command line. `LockOrder` has none.

### Findings

* `quit()` notifies without the mutex, so the wakeup can be missed and the destructor
  waits in `join()` for ever (`QuitEnds`).
* An expiry of 9 seconds that is queued when a heartbeat is handled closes the session
  after it (`HeartbeatKeepsOnline`). `Equipment` and `Server` stay
  consistent: `Ownership` holds all the same.
* When the callee leaves while it rings, its logout removes the answer timer and the
  caller is never told (`CallerHears`).
* `HangupCall` leaves the call in the callee's table, so an answer that was on its way
  makes a call active that both were told is over (`EndedStaysEnded`).
* A callback that has begun is not stopped by `AnswerCall`, which has found the call
  before the callback takes it out of the table: both terminals hear that the call is
  active and then that nobody answers (`AnsweredIsFinal`).

Met while modelling, without a run: `main` takes the port of the configuration when `-p`
was given and its own default when not (`startup.cpp:79`, modelled by `Chosen`), so the
port asked for is never tried; a callee that answers when the caller has left is told
that the call is active, and not the hangup of `README.md:148`; of the receivers of a
short message only the first is checked, so the sender gets no failure for a later one
that is offline or unknown (`cmdsmsg.cpp:27`), and one receipt for each that gets it; the
README's heartbeat has no `uuid`, which the
station requires, and is answered, which the station does not; `callSetupTime` is read
and never used (`MakeCall` waits 30 seconds); a short message whose receiver leaves
before its delivery is lost without the failure the README has the station send
(`SenderHears` excludes that case); an empty `to` means a broadcast in the README and
throws in `to().at(0)`.

## 4. Proofs

All theorems hold for every value of the constants that satisfies
`ConstantsAssumption` of the module: any number of messages, of connections, of
numbers, of timers, of calls, of ports. They are about `SafeSpec`, the specification
without fairness. Together they state every invariant and action property that the
passing runs check, and the safety part of every refinement. Each inductive invariant was
an invariant of the component's run before it was proved.

**MessageProcessorProofs.** `Typing`: TypeOK is inductive. `MessagesAreNotLost`:
NothingLost is inductive relative to it; the lemmas on sequences say what
a push, a take and a finish do to a stream split in done, in hand and queued.
`NoWakeupMissed`: SleepsOnlyWhenIdle is not inductive; the thread falls asleep in
`Block`, some steps after it has found the deques empty, so the invariant must say
that they are empty at "block" already, which the mutex held there keeps true.
`ImplementsMessageFlow`: each step is a step of the abstract streams or a stutter, by
TypeOK and NothingLost.

**RegistryProofs.** `Typing`: TypeOK is inductive. Ownership is not, for two
reasons. What a handler does with its session depends on what its earlier steps
established, e.g. that a refused session is in no table any more (`Handling`). And a
logout is by number, so it has to be known that an open session that
remembers a number is the one that holds it (`NumbersKept`). `IInv` is the three
together; one lemma per kind of step shows that it keeps each conjunct. From it follow
`SessionsAreOwned`, `OthersAreUndisturbed` (a logout is the session's own:
`LogoutIsOwn`) and `ImplementsPresence` (`ReceiveHeart` of a new session is GoOnline, a
logout is GoOffline, a close of a session nobody holds is EndUnseen, all else
stutters). `NobodyIsForgotten`: Attended is inductive relative to `IInv`, which knows that
an open session is in a table, so that a handler which finds its session gone
(`DeadHandler`) is no open session's, and drops no read or timeout of one.

**TimerManagerProofs.** `Typing` needs no more than the types and `StrandsBegin`: the
handler of start is the first that a strand ever gets, so when a stop is handled there
is no start behind it that would arm the timer again. `NoTimerIsForgotten` proves
the halves of WaitsAndRuns apart. `WaitsRun` holds since what ends a run cancels the wait
with it; `RunsWait` since a wait that is gone has been replaced, or its expiry is queued,
or it was taken by the callback that is running, whose timer is out of the table before
the rest of it (`RestIsRemoved`). `ImplementsAnswerTimer`: `start` is Arm, the handler
that calls back is Fire, its end is Finish, the other steps disarm one timer or change
none, and only the stop of the context closes.

**CallControlProofs.** For TypeOK it has to be known what a command is about at each of
its steps (`CommandFits`: from the look-up on, only a call that can be made).
TimersHaveCalls alone is not inductive: the callback drops its call from the table, which
leaves no timer behind only because it removed the timer first and nobody can arm
that timer again (`Removed`). Why nobody can is the core of the proof. A request is
received and processed at most once (`RequestsOnce`) and only the caller dials
(`DialsOnly`), so until the MAKE_CALL of a call has been executed (`Unmade`) no timer,
callback, table or notice knows the call (`NothingBefore`); hence MakeCall always finds a
fresh one, and it is the only command that arms. `OnlyOverlapsContradict` has
two halves. No callback begins late by `SettledHasNoTimer`: answering and hanging up
remove the timer before the notice is posted. No command finds an expired call by
`ExpiredIsGone`: when a callback begins to tell, the call is in no table, and no MakeCall
is about to put it there. `UsesAnswerTimers`: MakeCall is Arm, an expiry is Fire, the last step of the
callback is Finish, HandleTimer and the logout are Disarm, a crash is Close; the theorem
and `ImplementsAnswerTimer` of the timer manager meet in `AnswerTimer`.

**ShortMessageProofs.** TypeOK is not inductive, since a frame of the right type may
pretend to come from anybody; `Typed` says in addition who sends what (`Asked`, `Told`)
and that the loop is at an index of the list it sends to (`At`). The truth of an answer is
about the past: a refusal was sent when the message was in the command's hand and is
therefore nowhere else. `OnePlace` says so of messages and of receipts alike, a receipt
being known by the uuid and who sends it: either is in the deque of requests, in hand, in
the deque of notices or in the loop, once, and only after it has begun (`Alone`). It may
arrive at several terminals, but as one and the same notice, and an answer arrives once
(`OneNotice`). With `AckedWasGot`, that a terminal acknowledges only what it got,
`SendersAreToldTheTruth` follows. `MessagesArriveInOrder` adds `Sorted`: each of those
places is in the order of the history of sends, and what has come further was sent
earlier (`Precede`). A message that is cut or whose receiver has left drops out of the
order and disturbs none.

**StartupProofs.** `Typing` goes along with `Cold`: nothing has been tried or registered
before main comes to it. `ServesAtFirstFreePort` needs the invariant of the loop
(`Listening`): all ports from the first to the one before the current have failed, or the
range ends at the largest port, the current one is 0 and all of the range have failed.
The arithmetic of a sum that wraps is in lemmas on `PortOf`. `RestartsAlike` is about
several runs: whatever was loaded since the last edit is what would be loaded now
(`UsedIsSource`), since the file is written only when there was nothing to read
(`Saving`), and then with the default that was loaded. `NothingReadableIsLost` follows
from `Saving` too.

**LockOrderProofs.** The module has no constants, but its proofs do not go through its
states. `Typing`: mutual exclusion is inductive with the types. `OneOrder`: InOrder is
inductive, since whatever a thread asks for lies under the mutex it took last
(`Levels`), which lies under all it took before. `NobodyWaitsInACircle` is then not
about a step: in a circle, whoever is waited for holds a mutex and itself wants one of a
higher level (`Upwards`), and there are four levels. Main is the exception, since it also
waits in a join; it then holds nothing (`JoinsHoldingNothing`, inductive), so nobody
waits for it.

**Only model-checked:** everything with fairness (the liveness of `FlowSpec` and of
`AnswerTimerSpec`, `SilentEnds`, `StopClosesAll`, `BothPartiesHear`, `SenderHears`,
`ListenEnds`). They rest on fairness and ENABLED, which the prover cannot treat.
`HeartbeatKeepsOnline`, `CallerHears`, `EndedStaysEnded`, `AnsweredIsFinal` and
`QuitEnds` are the findings: TLC refutes them.

## 5. Not modelled, and the plan

Not modelled: the output of the logger, which no other part reads; the vendored libraries
(asio, cJSON, cli, lyra), except for what the station uses of them; the fields of a
message one by one; the bytes of a write (`do_write` hands over the buffer of a
temporary, and what is sent when the socket is full depends on that memory); exceptions
that leave a thread, except in `Startup`; a uuid used twice; what is used after its
destructor at the exit of the process.

Next, proofs:

1. What the findings leave intact: under which condition on the behaviour a refuted
   property does hold, as a theorem, as `OnlyOverlapsContradict` does for `AnsweredIsFinal`
   (an ended call stays ended if the callee's answer is
   not on its way; a heartbeat keeps a session whose expiry is not queued).
2. The consequences of `AnswerTimer`, proved of it alone: at most one callback per timer,
   and none after a disarm; both implementations inherit them.
3. The same for `MessageFlow` and `Presence`, so that what the refinements promise can
   be read off the abstract specifications.
