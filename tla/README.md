# crctrl in TLA+

crctrl runs Clonk games without anybody sitting in front of them. For each
*AutoHost* it starts the game engine again and again, as a child process,
with one scenario after the other; it reads the engine's output line by line,
answers to what players type in the game's chat, sends them messages some
seconds later, and lets administrators look on and interfere over a terminal
or a socket. Settings, scenarios and bans come from a database and can be
loaded again at any time.

The program is some 2500 lines of C++ with threads, its own re-entrant
reader/writer lock, several mutexes, recursion through blocking calls, file
descriptors and raw pointers that many threads share. This directory models
the parts of it in which order matters, checks them with TLC, and proves with
TLAPS what holds of each of them: the lock, the control of a game, the host
around it, its timed messages, the settings, the reading of lines, the file
descriptors, the output and the sessions of admins.

Contents: [components](#components) · [interaction](#how-the-components-interact)
· [modules](#the-modules) · [runs](#the-runs) · [fairness](#fairness)
· [findings](#what-the-code-does-and-says-otherwise) · [proofs](#proofs)
· [limits](#what-is-left-out-and-why) · [plan](#plan)


## Components

| component | state | operations | correct when |
|---|---|---|---|
| `StatusLocks` (helpers/StatusLocks.cpp) | list of readers with their nesting, its head embedded; count and thread of the writer; a condition variable | `LockStatus`, `UnlockStatus`, `StatusUnstable`, `StatusStable` | a writer excludes other readers and writers; nesting never blocks its own thread; no wake-up is lost |
| `Game`: control (src/GameControl.cpp) | `Status`, `clonk`, `ExecTrials`, `cleanup`, `Settings`, `controlmutex` | `Start`, `Control`, `Fail`, `Exit`, the destructor, `SendMsg` | every lock taken is given back on every way through the recursion; the number of attempts is bounded; nothing is used after its end; `Start` returns with a verdict |
| `Game`: timed messages (same file) | `MsgQueue`, `msgmutex`, `msgcond`, one timer thread for all games | `SendMsg(secs, ...)`, `MsgTimer`, the purge in `Exit` | each message is sent or purged exactly once, never for a deleted game, and in time |
| `AutoHost` (src/AutoHost.cpp) | `work`, `Fails`, `ScenQueue`, `CurrentGame` | `Work`, `Enqueue`, `SoftEnd`, the destructor | every scenario has one owner; the host gives up after a streak of failures and not before; told to end it ends |
| `AutoHostList` (same file) | a vector of hosts, without a lock | `Add`, `Remove`, `Exists`, `Find`, `CatchAndLock`, `DelAll` | a host found is there while it is used |
| `Setting` (Configuration) and `ScenarioSet` (src/Config.cpp) | scalar settings; `Scens`, `ScenCount`, `ChanceTotal`; `Bans`, `BanCount` | `Standard`, `Reload`, `GetScen` (4), `GetBan`, copies of a `ScenarioSet` and its `GetPath` | the counts fit the arrays; what was chosen is what is played; a reload always ends |
| `UserControl` (src/Control.cpp) | `sel`, the selected host; `conn`, its stream | `Work`: one command per line; `PrintStatus`, `Write`, constructor, destructor | commands reach the host and the game that were selected, and give back what they lock |
| `OutprintControl` (same file) | `ctrls`, the list of `UserControl`s; `mutex` | `Put`, `Add`, `Remove` | everybody reads the messages in one order; a call comes back |
| `Stream` (helpers/Stream.cpp) | file descriptors; the buffer of `StreamIn` | `ReadLine`, `WriteFinal`, `Close` | lines come out whole and in order; the scan stays in the buffer |
| `Process` (helpers/ExternalApp.cpp) | `pid`, the pipes to and from the engine, `Status` | `Start`, `Kill`, `ClosePipeTo`, `Wait`, destructor | it reads from and writes to its own engine; it closes what it has opened, once |
| `ListenSocket` (helpers/ListenSocket.cpp) | a listening descriptor | `Init`, `AwaitConnection` | |
| `main`, signal handlers (src/Main.cpp) | | start everything, accept admins, end on SIGINT, die on SIGSEGV and the like | |
| `AppManagement`, `StringCollector`, `StringFunctions`, `Lib.hpp`'s regular expressions | | system calls and text | |

`PROJECT.json` lists the same components with the state of their modelling.


## How the components interact

    UserControl --(AutoHostList::CatchAndLock, LockStatus)--> AutoHost --> Game
    Game::Control --(a player's %start)--> AutoHost::Enqueue
    AutoHost::Work --new/Start/delete--> Game --new/delete--> Process --> Stream
    Game::Control --SendMsg(secs)--> MsgQueue --MsgTimer--> Game::SendMsg
    AutoHost::Work, Game --GetScen, GetBan, GetPath--> Configuration <--Reload-- UserControl
    everybody, and signal handlers --OutprintControl::Put--> UserControl::Write --> Stream
    main --AwaitConnection--> UserControl

Everything blocking happens inside these calls. `Game::Start` "blocks, until
the game is over": the thread of an AutoHost is the control thread of its
games. Locks are nested across components:

* the control thread has the lock of its game when it takes `msgmutex`
  (a timed message), the lock of the host (`Enqueue`), that of the
  Configuration, or the output's mutex (each line is put out);
* the timer has `msgmutex` when it takes the lock of a game;
* the destructor of a host has the host's lock when it takes that of the game
  and then waits for `controlmutex`;
* an admin takes the lock of a game and then that of its host for reading,
  and has both when `SendMsg` asks for the game's for writing;
* who is in `Put` has the output's mutex while a write to one admin after the
  other may wait for that admin; a signal handler calls `Put` on top of it.

What all threads share besides are the numbers of file descriptors: a number
that is closed is the next one to be handed out, and a forked engine inherits
whatever is open.

What makes this hard to test: the interleavings of the control thread, the
timer, admins and whoever deletes a host; a retry that is a recursion
(`Start` → `Control` → `Fail` → `Start`) and returns into frames that believe
that nothing has happened; pointers that are read again after a lock has been
given back; counts that pass below zero when a table is thrown away; signals
sent while nobody waits; scenarios compared and freed by address; numbers
closed twice; text cut by `read()` at any place. `PROJECT.json` lists these
hazards at their lines, each with the properties that would catch it. Two have
none: readers that overtake a waiting writer without end (StatusLocks.cpp:54;
no text promises that they do not), and two first messages that both
initialise `msgmutex` (GameControl.cpp:46; what that does is undefined). Some
of the others the code does meet: a circle of locks, a lost signal, an early
return with the lock, inherited ends of pipes, a reader that stalls, a fetch
cut short. A property of a passing run can only name these as its exceptions;
what it shows is that there are no others, and the hazard's note says so.


## The modules

Every module is one component or one question about several; a component uses
another through the latter's abstract specification, not its details.

    RWLock  <--refines--  StatusLocks  (MCStatusLocks, StatusLocksProofs)
      ^ INSTANCE
      |-- GameControl    (MCGameControl, GameControlProofs)
      |-- Config         (MCConfig, ConfigProofs)
      .   the same locks, of a host and its games in one function
      |-- HostSession    (MCHostSession, HostSessionProofs)   admins, host, games
    AutoHost             (MCAutoHost, AutoHostProofs)   the game is how it ends
    MsgTimer             (MCMsgTimer, MsgTimerProofs)   the game is its lock and its end
    Stream               (MCStream, StreamProofs)       ReadLine with its buffer
    Descriptors          (MCDescriptors, StreamProofs)  Process, Stream's Close, connections
    Output               (MCOutput, OutputProofs)       UserControl, Put, signals

A section of code between a lock and its unlock that calls nothing that waits
is one action: nobody else can see its middle. Wherever the code gives a lock
back and goes on to use what it has read, or calls something that waits, the
action ends and `pc` says where the thread is. Memory is modelled as far as
its life is concerned: a pointer may be null, valid or stale, and an access
through a stale one is recorded in `faults` and kills the controller or goes
unnoticed, as either may happen (`CrashHandler` ends the program:
`alive = FALSE`). The history variables are marked so at their declaration;
no guard reads them. Definitions marked *Mutant* are deliberate bugs; no
behaviour uses them. Each shows, put in the place of its neighbour, that a
property can fail.

**RWLock** is what callers of a `StatusLocks` object may count on: `reads[t]`
and `writes[t]`, how many locks of either kind thread t holds, and four
actions, the returns of the four functions.

**StatusLocks** is the object. `readerinfo` is the list (a sequence, head
first), `writercount` and `writer` are the fields of these names, `pc[t]` is
where a thread is in `LockStatus` or `StatusUnstable`: about to test its
condition or asleep on `statuscond`. `AddReader` and `DropNode` are what the
two functions do with the list: the head is part of the object, so an empty
list is a head with count 0 whose thread field still names the last reader,
and a head that goes takes over its successor's contents. `WakeAll` is
`pthread_cond_broadcast`. Spurious wake-ups are left out, to make a missing
broadcast visible. `ImplementsRWLock` is the refinement.

**GameControl** is one `Game`: the control thread (`pc.control`, with its
suspended callers in `stack`), the engine behind `clonk`, the thread that
deletes the object, the timer and an admin that send messages. Actions in
the order of the code:

| code | actions |
|---|---|
| `Start` 74–120 | `BuildCommand`, `Launch`, `ReturnToLaunch` |
| `Control` 123–274 | `EnterControl`, `CallReadLine`, `ReadLine`, `HandleLine`, `EndOfOutput`, `ReturnToFlood`, `ReturnToEnd` |
| `Fail` 318–332 | `CountFailure`, `Retry` |
| destructor with `Exit` 276–306 | `TearDown`, `AwaitControl`, `FreeObject` |
| `SendMsg` 335–348 | `TimerCheck`, `TimerWrite`; `AdminLock`, `AdminCheck`, `AdminWrite`, `AdminUnlock` |
| end of the engine | `EngineExit` (external) |

A retry pushes the frame that called `Fail` and goes to `start`; `Return`
pops it. A line of output is its kind, by the regular expression that it
matches. `TouchGone` is the control thread running on in a freed object.

**AutoHost** is the worker of a host, its queue and the threads that end it.
`ScenarioSet`s are addresses: `live` is what is allocated, `new` takes any
address that is not, `delete` removes it and leaves the pointer. `work` is
written without the lock by `SoftEnd`, so each of its reads is a step. The
game is one state (`play`) in which players wish for scenarios
(`PlayerCommand`, `Enqueue`, with the two locks in the code's order) and from
which `GameOver` takes it with any status with which `Start` returns.
`SkipRepeated`, `NextGame`, `Judge` and `GiveUp` are the passages of `Work`.

**MsgTimer** is the queue of timed messages with its mutex: senders
(`BeginSend` … `EndSend`), the timer (`StartTimer` … `EndRound`), the
destructor of a game (`BeginExit`, `LockToPurge`, then `PurgeNext` for one
message after the other, `EndPurge`, `FreeGame`) and a clock. Both scans of
the queue, `Look`/`SendDue` and `PurgeNext`, go backwards by an index
(`timer.i`, `place[g]`) and erase while they go, one step per message, so that
nothing but `msgmutex` keeps them apart. `msgmutex` is the name of its owner.
`MsgTimer` locks it once but unlocks it every round; from the second round
`pthread_cond_wait` is called without it, and what that does with a normal
mutex is to unlock it whoever has it: `Unlock` sets it to `Nobody` and notes
in `stolen` if it was somebody else's. `lost` notes a signal that came between
unlock and wait.

**Config** is the table of scenarios and the list of bans: `Reload` step by
step under the write lock (`BeginReload`, with what `Standard` resets,
`Connect`, `LoadRow`, `EndRows`, `SetNames`, `LoadBans`, `EndReload`), the
readers (`PickNone`, `PickOnly`, `PickByChance`, `Search`, `MatchBan`) up to
their `UnlockStatus`, and what they do after it (`TakeScen`, `TakeReason`,
`AskPath`). `ScenCount` is a number that may be negative, as in the code. Rows
are loaded from the last element of the array to the first and carry their
place in `IntIndex`.

What comes from the database is taken as it may come. Each query may fail; the
count of the rows and the rows are two queries, which may see different
tables; rows may stop arriving before their end, as `fetch_row` gives the same
answer for a lost connection (`EndRows`, `FetchMayFail`), so the first
elements of the array may stay unassigned (`Unread`), and whoever follows one
dies or gets anything (`HasAnything`); the row of a count may not come at all,
and it is read nevertheless (`CountIsLost`: that the library throws is
external). A name may be that of a scenario which is not in the list, and a
ban's pattern no regular expression. Chances are numbers of a smallest float;
`ChanceTotal` adds them as floats, each sum off by up to `Rounding`
(`FloatSums`), while the draw subtracts them from a double, which has room for
them (`ChanceUpTo`).

**HostSession** composes what an admin's command goes through: the list of
hosts, the lock of the host and the lock of its current game, while the host
works and somebody may end it.

| code | actions |
|---|---|
| `AutoHost::Work` 48–82 | `Begin`, `NextGame`, `BreakOff`, `Judge`, `DeletePlayed`, `DeleteThis`, `Leave`; inside `Start`: `GameLine`, `LineDone`, `Wish`, `Enqueue`, `GameOver` |
| `UserControl::Work` 48–75, `PrintStatus` 80–94 | `Command`, `SoftEnd`, `UseGame`, `PrintEach` |
| `CatchAndLock`, `LockStatus` 104–107, 175–179 | `Look` (the host is found, `CurrentGame` is read), `LockGame`, `LockHost`, `UseFreedHost` |
| `UnlockStatus` 109–112 | `UnlockGame`, `UnlockHost` |
| `~AutoHost` 35–46 with `~Game` | `StopWork`, `EndGame` or `NoGame`, `GameDeleted`, `Join` |

Games are addresses that the next game may get again. `UnlockStatus` reads
`CurrentGame` anew: an unlock that reaches a game which was not locked is the
fault `foreignUnlock`. `%status` locks every host and calls `PrintStatus`,
which locks it again: `doing[a]` goes from `all` to `inner` and back to
`printed`. `raced` notes that somebody changed the host or its game while
an admin was in the *window*, between the search in the list and the lock.

**Stream** is `StreamIn::ReadLine`: the memory of its buffer with whatever
stands in it, `rv` and `buff`, and `read()`, which delivers any number of
characters that fit (`Fill`) or fails (`ReadFinalFails`). `EndLine` is the
loop that has found CR or LF, `KeepText` the one that has found the NUL which
the code puts behind what it has read. A character is a letter, CR, LF or NUL.
`Words(input)` is what a reader makes of the whole input: the words that a line
end has completed after each of its prefixes, and the word still open. The
specification is called `ReadSpec` (with `ReadInit`, `ReadNext`), so that one
module can speak of it and of Descriptors, the two halves of Stream.cpp.

**Descriptors** is the table of file descriptors of the controller, a function
from numbers to the ends of pipes and sockets they stand for. `MakePipes`,
`Fork`, `ClosePidWrite`, `ReadPid`, `CloseEnds`, `ReturnFromStart` are
`Process::Start`, with `PipesFail`, `ForkFails` and `SecondForkFails` for its
failures; `ReadEnd`, `StopGame`, `StopProcess`, `DeleteProcess` the end of a
`Process`, by its own thread or by one that deletes the game; `Connect` to
`CloseIn` a connection from `accept` to the second close of `~StreamIn`.
`Close` frees a number whoever it belongs to by then and notes in `foreign`
where it was somebody else's. A forked engine keeps a copy of the table
(`held`), so the end of a pipe is seen when the last copy is closed.

**Output** is everything that writes to admins. A thread has a stack of the
calls that write: `Put` (`LockPut`, then `WriteOne`, `PassOver` or
`TouchFreed` for each element of `ctrls`, `EndPut`), the notice of
`~UserControl` (`SeeEnd`, `EndNotice`) and a write to an engine (`Text`,
`EndSend`). Signal handlers push a `Put` on top of whatever their thread does
(`SigPipe`, `SigInt`). A deleted `UserControl` stays in `ctrls`, because
nobody calls `Remove`. A stream may be open, stalled, hung up or closed; a
write to one that is not open does not come back.


## The runs

Run TLC in this directory, e.g. `tlc -config MCConfig.cfg MCConfig`. All
bounds are constants of the instances; the only state constraint is that of
`engines` (below), and the runs use no symmetry, as those that pass also check
liveness or are small enough.

| run | module | states | what it shows |
|---|---|---|---|
| `locks` | MCStatusLocks | 3 954 | a writer excludes the others, nobody sleeps without reason, nesting never blocks, refinement of `RWLock`; once no new calls are made all that wait are let in |
| `game` | MCGameControl | 52 612 | balance of locks, attempts, verdicts and the end of a game through its retries |
| `host` | MCAutoHost | 529 186 | ownership of scenarios, giving up, causes of invalid accesses, soft end |
| `session` | MCHostSession | 422 347 | what admins lock, use and unlock while the host goes on or ends; that commands end, but for three ways to wait in a circle |
| `messages` | MCMsgTimer | 748 846 | no message lost, doubled, late or sent to a deleted game, with the three exceptions that the code has |
| `config` | MCConfig | 1 644 272 | whoever gets the lock finds a table with the same relation of array, counts and sum, wherever the load was cut short; in a first load each thing that goes wrong has its cause in the data; the game plays what was chosen; `Reload` ends |
| `lines` | MCStream | 1 204 315 | text comes out in whole lines however it is cut; the scan never leaves what was read |
| `engines` | MCDescriptors | 256 496 | every process has its own pipes, nothing leaks, and a launch comes to its end, with the exceptions that the code has |
| `output` | MCOutput | 229 155 | one order of messages for all; only handlers wait for their own thread; a call of `Put` comes back unless a reader, a closed stream or a handler jams it |
| `host_stop`, `config_pick`, `lines_blank` | | | what comments and assertions say and the code does not do, see [below](#what-the-code-does-and-says-otherwise) |

`locks`. Three threads, nesting up to two, one thread that upgrades. Three
threads are what it takes for a list with a node in its middle, for a reader
and a writer that wait for a third, and for a broadcast that must wake more
than one; a nesting of two makes the counts matter. With two threads that
upgrade at the same time both wait for ever; the callers that do that are two
admins, and `session` has them.

`game`. `MaxExecTrials` is 3 (the depth of the recursion: three frames of
each kind, so that a retry within a retry returns into a retry), launches
may fail, the master server may complain, and another thread may delete the
object at any moment. `LocksBalanced` relates what the control thread holds
to the frames on its stack in every state; `AttemptsBounded` counts launches
through all levels against `MaxExecTrials`; `OneLateStart` allows a game
that has been told to end one more launch (the code reads `cleanup` without
the lock, before `Start`); `OutcomeTold` says with what `Start` may return;
`OutlivesControl` that the destructor does not overtake `Control`;
`FaultsHaveCauses` that a first attempt that is left alone is clean and that
admins never write to a deleted engine; `StatusSteps` how the status may
change, the case included in which `Start` overwrites a verdict of the inner
`Fail`; `StartReturns` that no retry waits for its own locks.

`host`. Two places in the queue, three failures, five addresses: at most four
scenarios are allocated at a time (queue, worker, game, and the copy being
made takes the place of one), so there is always a choice between an
address never used and one freed a moment ago. All outcomes, a soft end and a
destructor may occur. A host gives up after three games at the least, so a
streak that is interrupted and one that is not both occur.

`session`. Two admins, one host, games at two addresses: two admins are what
it takes to upgrade against each other, to type while the other stops the
host, and to stop it twice; with two addresses a game may have the address of
the last one or another. `OnlyTheWindow` makes the FIXME of AutoHost.cpp:177
precise: no freed host or game is touched and nothing is unlocked that was not
locked unless host or game changed between look and lock, or `CurrentGame`
pointed to a deleted game already. `LocksPaired` adds that without that a
finished command leaves no lock. `GamePinned` is what commands rely on between
lock and unlock. `CommandsEnd` has the three circles as exceptions:
`TwoUpgrades`, `GameThenHost`, `WishThenHost`. Each is necessary: without it
TLC finds a command that never ends.

`messages`. Two games, two messages, delays of 0 to 2 ticks on a clock of 3:
a message that is due at once, one that is later and one that overtakes an
earlier one; two messages in the queue make the backward scans with their erase
go wrong if they can, and two games let one be purged while the other's message
stays or is being sent. The uninitialised `tv_nsec` may make the wait fail.

`config`. Two loads of the settings and one worker: workers meet only in the
lock, which RWLock has, and the lock of another worker that stays (`leaked`) is
what its own would be. A second load is what the counts get wrong; the third
starts from the same kind of state as the second. Two databases, of which each
query sees either: `Two` has two scenarios, one of them named, and a ban;
`Stray` has three, of which the first two are never drawn, a name for one that
it does not have, and two bans, one of which is no pattern. So a list may be longer
or shorter than its count by one, the fetch may end after any row (with none,
some or all elements unassigned, `ScenCount` 0 to 3), all chances that arrive may
be 0, and the sum of 3 and 2 may be 4, 5 or 6: a draw may outlast the table on
the first load. `TableConsistent` is what every load leaves behind: only the first
elements are unassigned, `ScenCount` is the number of the others (one less from the
second load on), `ChanceTotal` their sum within the rounding.
`FirstLoadFaults` gives, with one load, the cause of each fault: no element
is missed by a search, and no assertion fails, unless the data are such.
`HostsTheChosen` is about the place that a copy remembers. `TypeOK` is
one of this run's properties: that counts stay numbers of elements is a matter
of the loops here. `config_pick` and `MCConfig_path` have two workers, exact
sums and one sound database that nobody changes, so that what they find is due to
the code alone.

`lines`. Every input of up to five characters over two letters, CR, LF and
NUL, a buffer of four characters of which `read()` fills up to three, every
way to cut the input and every initial content of the buffer: a line that
spans three reads, a pair of line ends in one read or in two, text that fills
the buffer exactly. `WordsKept` relates what was returned to what is to come:
there is a prefix of the input whose words are the lines returned so far, with
none open, and exactly the rest of the input is still ahead, in the buffer or
unread. It is stated for input without NUL (`ReadLine` stops at one, as C
strings do) and for lines that are not blank (blank ones are the finding of
`lines_blank`).

`engines`. Two hosts with two launches between them, one admin who hangs up,
twelve descriptors: two launches at the same time need all twelve, so that a
connection makes a `pipe()` or an `accept()` fail. Either `fork` may fail.
States behind the first close of somebody else's number are looked at but not
left (`NobodyRobbed`): every property speaks of what happens up to that
moment, and behind it any number means anything. `FirstIsSecondClose` says
where that first close can be: in the second of two closes of one stream
(pidread, the destructors of `Process` and of a connection), never in a first.
`NothingElseBlocks` says what a launch or the end of an engine may wait for:
an engine forked by another host between `pipe` and `close`, a child that
hangs in `exit`, or such a close.

`output`. The terminal, one admin on a socket and one host, three calls of
`Put` in all, of which handlers may be some: two readers are what an order of
messages needs, three calls let one be interrupted while another waits. The
admin may stall, hang up and be deleted, the engine may end, and SIGINT may
come in any thread.


## Fairness

`FairSpec` is the specification of all runs that check liveness.

* StatusLocks: a thread that is runnable runs, and what is done under the lock
  ends. Nothing is assumed of callers: they need not call.
* GameControl: the control thread, the destructor once it has begun, and
  senders run when they can. The engine exits some day (players leave, or
  it is told to). An admin need not come, and `StartReturns` is stated for
  admins who stay away in the end: overlapping ones starve a writer. It also
  excludes a thread that reads from the terminal for ever, which a failed
  launch makes it do (descriptor 0 of a `Process` that never ran).
* AutoHost: the worker runs, and a game ends however many wishes its players
  have (strong fairness of `GameOver`: each wish disables it for a moment). That
  someone ends the host is not assumed.
* HostSession: the worker goes on, lines and the end of a game excepted, which
  are the engine's; a game whose engine has been killed ends; a command that
  was typed goes on. `CommandsEnd` is stated for behaviours that become quiet
  (`<>[][QuietStep]_vars`: no line, no command, no end of a game but a killed
  one): a writer that readers overtake again and again has no right to
  come first.
* MsgTimer: the clock and all threads that have begun something go on. That
  players make a game send, or that a game is deleted, is not assumed.
* Config: a reload that has been called goes on: the database answers, or the
  library gives the connection up. Readers need not come.
* Descriptors: what a host's thread or an admin's has begun goes on; that an
  engine ends, a launch begins or somebody connects is not assumed.
* Output: who waits for the mutex of `Put` gets it if it is free again and
  again (strong fairness of each thread's steps in `Put`; the mutex is held for
  one call at a time), other writes go on when the other end takes them.
  Nothing is assumed of the other ends and of signals.


## What the code does and says otherwise

Three have a run that is part of the project:

* `host_stop` — the destructor of a host has the host's lock and asks for the
  game's, a player's wish has the game's and asks for the host's.
  AutoHost.cpp:42 says that the thread ends.
* `config_pick` — `Standard` sets `ScenCount` to 0 before the loop that counts it
  down, so it is -1 when rows are loaded a second time and stays one too
  small; the draw runs into the assertion of Config.cpp:240.
* `lines_blank` — Stream.cpp:35 says that a second LF is not ignored. It is
  compared with a character that line 33 has just overwritten, so that of two
  LF in one read the second is ignored.

The other configurations end in a counterexample of the same kind, to be read
with `tlc -config <name>.cfg <module>`:

* `MCGameControl_flood` — after a complaint of the master server `Control` calls
  `Fail`, which starts the next attempt *inside*; its `Control` deletes `clonk`
  at the end of the output; back in the outer `Control` the loop reads on through
  the null pointer. AutoHost.cpp:65 counts on `Start` to play the whole game.
* `MCGameControl_stop` — the destructor waits for `Control` but not for `Start`
  and `Fail`: a game deleted before its launch launches all the same, in a freed
  object or with a freed scenario.
* `MCAutoHost_replay` — a scenario that was played goes back into the queue as the
  game's own object, and the game deletes it two lines later. Everywhere else
  the queue gets a copy (GameControl.cpp:164).
* `MCMsgTimer_done` — the timer has `msgmutex` and asks for the game's lock,
  `Control` or the destructor have the game's and ask for `msgmutex`.
* `MCConfig_path` — a copy remembers its place in the table and looks there
  without the lock; during or after a reload nothing may be there
  (the assertion of Config.cpp:357).
* `MCDescriptors_notice` — an admin hangs up; the notice that "Your connection
  got Terminated" is written to the closed number, which by then is the
  connection of another admin.

The passing runs state the same matters as exceptions: `OneOwner` holds until a
played scenario is queued again, `NothingElseDelays` and `CommandsEnd` name the
circles of locks, `FirstLoadFaults` says what a first load needs to go wrong,
`FirstIsSecondClose` where numbers change hands.


## Proofs

Every component that has a module has its proofs, and every invariant and
action property of a passing run that is not about liveness is a theorem, for
all values of the constants that the named assumptions allow. All of them
follow from one inductive invariant per module. What appending to and removing
from a sequence does is proved in the modules that need it
(`RemoveAtProperties`, `RangeAppend`, `RangeTail`).

### StatusLocksProofs

For every set of threads, every set of upgraders and
every nesting depth:

| theorem | says |
|---|---|
| `Invariance` | `Spec => []Inv` |
| `ExclusionHolds` | a writer excludes other threads' read locks |
| `NoLostWakeupHolds` | a thread sleeps only while its condition keeps it out |
| `ReentryHolds` | a nested lock never makes its own thread sleep |
| `Refinement` | `Spec => ImplementsRWLock` |

The assumptions are `UpgradersAssumption` and `MaxNestAssumption`, both
stated in StatusLocks. The argument:

`Inv` is `TypeOK`, `ListWellFormed`, `Exclusion` and `NoLostWakeup` together,
and is inductive. None of them is so alone. Exclusion needs the form of
the list, because `StatusUnstable` does not look at threads but at the head
and at whether there is a second node; only in a well-formed list does that
mean "somebody else reads" (lemma `OthersReadMeaning`). The form of the list
needs that `AddReader` looks for the thread's node first, and that a head of
count 0 stands alone; the lost wake-ups need that the last release of a
thread always ends with a broadcast, which in turn means that the scan of
`UnlockStatus` found the thread's only node.

The proof has two layers. The first is about lists, without any state: what
`AddReader`, `DropNode` and a decrement do to the read count of *every*
thread, and that they keep a list well formed (`AddReaderEffect`,
`DropNodeEffect`, `DecrementEffect`, on top of `RemoveAtProperties` and
`CountAfterUpdate`). The second (`StepInv`) goes through the actions and speaks
of read counts only, one step per action and conjunct. The refinement
(`InitRefines`, `StepRefines`) uses the same lemmas: each action is a step of
RWLock or changes no count.

`ReentryNeverSleeps` is not a conjunct of `Inv` but follows from one:
who holds a lock and would be kept asleep by `NoLostWakeup`'s conditions is
excluded by them, except for an upgrader, which waits for *other* readers.

### GameControlProofs

For every `MaxExecTrials` (0 included), and whether or not launches fail, the
master server complains and others delete the object:

| theorem | says |
|---|---|
| `InvHolds` | `Spec => []Inv` |
| `TypesHold` | `Spec => []TypeOK`; no count of locks passes below zero |
| `LocksAreBalanced` | every lock is given back, at any depth of the retries |
| `AttemptsAreBounded` | no more launches than `MaxExecTrials` |
| `AtMostOneLateStart` | one launch at the most after `cleanup` |
| `ObjectOutlivesControl` | the object is not freed below a `Control` |
| `FaultsAlwaysHaveCauses` | what an invalid access of the game's thread needs; none by an admin |
| `OutcomeIsTold` | with what `Start` returns |
| `StatusAdvances` | `Spec => StatusSteps`, an action property |

From `MaxExecTrialsAssumption` only. The invariant is a conjunction of parts;
each has a lemma of its own in which it is inductive relative to the others:

* `Balanced`: types, `LocksBalanced` and `MutexWellFormed`. A type that says
  that counts of locks are natural needs the balance (a frame on the stack
  that gives a lock back accounts for one), the balance needs that only the
  control thread and the destructor lock `controlmutex`. The arithmetic of
  frames is about cardinalities of sets of positions: `CountTail` maps the
  positions of a tail to those of its sequence, one to one.
* `Attempts`: when a launch is ahead there has been at least one failure for
  each launch made, and an attempt is left. `AttemptsBounded` alone does not
  exclude a launch too many; this does, because `Fail` counts before it tests.
* `LateStarts`: who has launched after `cleanup` was set is not on the way to
  another launch: he meets the test of `Fail` first.
* `Deletion`: past its wait the destructor owns `controlmutex` for good.
  With the balance, `OutlivesControl` follows: `Control` would own it too.
* `AdminReads`: an admin past `LockStatus` has the read lock, so nobody
  frees the object or touches `clonk`, which both need the write lock.
* `Causes`: with what a pointer can be null or memory freed while a thread is
  about to use it, and that nothing is suspended before the first failure.
* `Verdicts`: `Control` only runs in a game past `Setting`, and what is
  returning has been played, has failed or was told to end.

### AutoHostProofs

For every queue size, number of trials, set of addresses and set of outcomes:

| theorem | says |
|---|---|
| `InvHolds`, `TypesHold` | `Spec => []Inv` and its type part |
| `ScenariosHaveOneOwner` | a scenario object has one owner until a played one is queued again |
| `CurrentGameIsValid` | who finds the host unlocked and working finds `CurrentGame` null or a living game |
| `GivingUpIsEarned` | the worker gives up after `MaxExecTrials` failures in a row only |
| `FaultsAlwaysHaveCauses` | each access to freed memory has one of the named causes |

The assumptions are those of AutoHost; `AddressAssumption` says that null is no
address. `Inv` has, besides `TypeOK`, a part for each thing that the worker's
place decides: `Places` says who has the host's lock there and what is over,
`Pointers` what `CurrentGame` can be, `Counts` that `Fails` is the streak of
failures but for the game not judged yet, `Causes` what must have happened
before a fault. `OneOwner` is inductive once the validity of `CurrentGame` is
known: a game that is deleted takes its scenario along, and only a valid
pointer says which. Validity in turn follows from who has the lock, since
`CurrentGame` is only written under it.

### MsgTimerProofs

For every set of games, delays, length of time and number of messages:

| theorem | says |
|---|---|
| `InvHolds`, `TypesHold` | `Spec => []Inv` and its type part |
| `NoMessageForTheDead` | no queued message names a game that has been purged, and the timer uses none |
| `MessagesAreAccounted` | each message is queued, sent or purged, exactly once in all |
| `AlarmIsUpToDate` | a sleeping timer wakes no later than the earliest message is due |

All three say what holds until a mutex has been taken from its holder
(`stolen`), the last one also until an alarm was lost to a busy timer. That is
how `Inv` is built: `TypeOK`, `GameLocks`, `Numbered` and `HasPlace` hold always;
`MutexHeld`, `InBounds`, `Purged`, `Accounts` and the absence of faults while
nothing is stolen; `Alarm` while nothing is lost either. While `msgmutex` was
taken from nobody, what scans the queue is alone with it, so its position
stays in bounds. The accounts count a message in the queue: `TimesAppend` and
`TimesRemove` say what adding and erasing do to that count, through a bijection
between positions before and after. `Purged` says that what `purge` has gone past
holds nothing of its game, and that a game whose destructor is there
queues nothing more, because both need the game's lock.

### HostSessionProofs

For any admins and any number of games:

| theorem | says |
|---|---|
| `InvHolds`, `TypesHold` | `Spec => []Inv` and its type part |
| `WindowIsTheOnly` | nothing deleted is used and nothing unlocked that was not locked, unless the host or its game changed between search and lock |
| `LocksArePaired` | and until then who has no command under way has nothing locked |
| `GameIsPinned` | while an admin has the host locked, `CurrentGame` stays and its game is not freed, an action property |

`Inv` is `TypeOK`, `PlacesFit` (who is at which place together with whom),
`HostLocked` (how deep each place holds the host's lock) and, until the host or
its game has changed inside that window (`raced`), `Calm`: there are no faults, the list
has the host while it lives, there is one destructor, and who has locked
host and game finds the *same* game when it unlocks (`Followed`,
`GameLocked`). The last is what AutoHost.cpp:105 takes for granted, reading
`CurrentGame` without a lock. It holds because `CurrentGame` changes under the
host's write lock and a follower has the read lock from before its first
look to after its last.

### StreamProofs

The two modules about Stream.cpp. `ReadLine`, for any buffer of more than one
character, any alphabet and any input:

| theorem | says |
|---|---|
| `ReadInvHolds`, `ReadTypesHold` | `ReadSpec => []ReadInv` and its type part |
| `ScanStopsInTime` | nothing is read outside the buffer, and a scan for the end of a line stops at the latest at the closing NUL |
| `WordsAreKept` | the lines returned are those of the text, whole, once and in order, and the rest of the text is still ahead |

The assumptions are `BufferAssumption`, `MaxInputAssumption` and
`LettersAssumption`. `ReadInv` adds to the types that nothing outside has
been read, that what was read ends below the closing NUL (`Closed`), and that a
scan has something to look at (`ScansSomething`).

`WordsKept` is inductive once `ReadInv` is known. What is still ahead is three
parts in a row: the text collected in this call, the rest of the buffer, and what
has not been read. `KeepText` and `Fill` move text from one part to the next and
leave the whole as it is (`KeepTextKeeps`, `FillKeeps`); `EndLine` takes a line
and its end off the front (`LineAhead`, `AheadAfterLine`, `EndLineKeeps`), and in
`Words(input)` the same characters leave a word open (`TextOpens`) and complete
it (`LineEnds`). A line end that stays ahead, because it was cut from its
twin, makes a blank line, which `NotBlank` drops on both sides.

`Words` and `NotBlank` are recursive functions over a text of any length. That
they exist and obey their equations is `FoldExists`, and what that is proved
with is `LeastElement`: if some length has no such function, a first one
has none, but the one before has one that can be extended.

`Process` and the descriptors, for any hosts (finitely many), admins, launches
and size of the table:

| theorem | says |
|---|---|
| `InvHolds`, `TypesHold` | `Spec => []Inv` and its type part |
| `OwnEndsHold` | a running host reads from and writes to its own engine, and a connection is its admin's, until a number has been closed in somebody else's hands |
| `NothingIsLeft` | a launch brought to its end leaves nothing open, unless a `pipe()` failed |
| `SecondCloses` | the first close that hits somebody else's number is the second close of one stream, an action property |

The assumptions are `NumbersAssumption`, `LaunchesAssumption`, `HostsAssumption`
and `NamesAssumption`. `OwnEnds` speaks of two ends of a game that runs; to be
inductive it has to speak of all six from `pipe()` on. `Keeps(h, k, e)` says
which of the six are open where host h is, under which number; `Holdings` says
that these numbers stand for these ends (`HoldTheirs`) and, while no `pipe()`
has failed, that no other end of a pipe is open (`NoOthers`). A host that
closes what it keeps disturbs nobody (`HostCloses`), and that is why the first
disturbance must be a second close. That `pipe()` gets different, free
numbers rests on what "the lowest free numbers" are (`NthFreeProperties`): the
rank of a number among the free ones grows by one with each (`RankStep`), so
there is one number for each rank.

### ConfigProofs

For every set of workers, any number of loads, and whatever rows, names and
patterns the queries bring, complete or cut short:

| theorem | says |
|---|---|
| `InvHolds`, `TypesHold` | `Spec => []Inv` and its type part: `ScenCount` is -1 or fits the array, through any number of loads |
| `TableIsConsistent` | who is let in by the lock finds only the first elements unassigned, `ScenCount` the number of the others (or one less, from the second load on), and `ChanceTotal` the sum of their chances within one rounding for each |
| `FirstFaultsHaveCauses` | before a second load has begun, what goes wrong has its cause in the data: a fetch cut short, a name without a scenario, a pattern that is none, chances that are all 0, a sum rounded up; and nothing freed is touched |
| `GamesPlayTheChosen` | a game gets the path of the scenario that was chosen, unless the table was loaded in between or an unassigned element followed |
| `EveryDrawStops` | in a table that is whole and counted right, the loop of `GetScen` ends at an element for every number below `ChanceTotal` by more than one rounding per element; with exact sums (`Rounding = 0`) for every number |

The assumptions are those of Config, and say what kind of values the constants
are: a list of scenarios, a set of named ones that need not be listed, a
Boolean for each ban. Chances are naturals, in units of the smallest float: a
negative chance is not covered. That a float sum is off by no more than
`Rounding`, is exact with 0 and never below an operand, and that the
subtractions of the draw are exact in a double, is how the model describes the
arithmetic; it is not proved of the machine's. `Inv` has these parts besides
the types:

* `Locks`: the write lock is the admin's from `BeginReload` to `EndReload`.
* `Table`: at all times some number m of missing elements fits the table
  (`Fits`). The first m are unassigned and no others (`Assigned`), `ScenCount`
  is right or, later than in the first load, one too small (`Counted`),
  `ChanceTotal` is near the sum of what is there (`Near`) and not 0 if a chance
  above 0 is (`Worth`). While rows come, m is what the next row says.
* `Loader`: what is known at each place of `Reload`.
* `FirstLoad`: what is different while main's load is the only one: nobody
  reads before it is over, and only certain faults are possible at each place.
* `Held`: what a worker holds is still in its place, unless loaded again or
  never assigned.
* `FirstLoadFaults` and `HostsTheChosen` themselves.

The sums are a recursive function over an array that is filled from its end,
while the sum counts from its beginning. `SumExists` and `SumEquation` say that
the function is what its definition says, `SumOfUnread` that elements not
assigned add nothing, `SumReplace` that the next row adds its chance. As a row
adds at most one rounding to the difference, `Near` allows one for each
element that is there. `DrawExists` finds the place where a draw stops as the first
whose sum is above it (`FirstOf`).

### OutputProofs

For any admins, hosts and number of calls of `Put`:

| theorem | says |
|---|---|
| `InvHolds`, `TypesHold` | `Spec => []Inv` and its type part |
| `OrderIsTheSame` | two admins that see the same two lines see them in the same order |
| `OthersNeverSelfWait` | only a signal handler ever waits for the mutex of its own thread |

`SameOrder` needs to be told about the line that is on its way: it is the last of
every log that has it, and who has it is at a place of the list that the
writer has passed. This holds because the mutex lets one line on its way at a time, and
that comes from the stacks of calls (`Stacks`): the holder of the mutex is
inside `Put`, handlers are only on top, and two calls never have the same
line.

### What ties them together

What GameControl, AutoHost, HostSession and Config take from RWLock is what
`Refinement` proves. They use it as an open module (their threads call as
their own code says), and all obey the assumptions of StatusLocks' callers:
nobody asks for a read lock while writing, nobody gives back what it does not
hold. That upgraders meet is the case HostSession is about.

### What is only model-checked

Liveness: `WaitersDrain`, `StartReturns`, `SoftEndWorks`, `CommandsEnd`,
`NothingElseDelays`, `ReloadEnds`, `NothingElseBlocks`, `NothingElseJams`.
Liveness under fairness and ENABLED are out of the prover's reach.

The library's theorems about induction take an operator as a parameter, which
the provers cannot instantiate. Where a proof needs induction over data (the sums
of Config, the words and lines of Stream) it goes by the first
counterexample instead: of a set of naturals, which is no operator, there is a
least one (`LeastElement`, `FirstOf`). The modules declare no RECURSIVE
operator; recursion is a recursive function.


## What is left out, and why

* Text. Lines of the engine are kinds of lines, names are values; formatting and
  regular expressions are not modelled. Nor are the commands `%end`, `%auto` and
  `%fork` of an admin.
* StatusLocks: its destructor, and an `UnlockStatus` by a thread that holds
  nothing (no caller does that).
* GameControl: the setters that are called before `Start`; `AwaitEnd`, which is
  declared and not defined; the contents of messages; signals other than
  those that end the program; a `MaxExecTrials` that a reload changes between two
  attempts (`Fail` reads it each time; here it is a constant). `waitpid` on the
  engine returns at once, because
  the engine is the child of a child that has ended; so `Exit` never waits.
* AutoHost: what is destroyed in the heap of freed hosts (an access to one is a
  fault and that is all). Scenarios in the queue of a deleted host still count
  as owned, so one that nobody deletes any more is not noticed.
* AutoHostList: several hosts, `DelAll`, and the data race of the vector, which has no
  lock: a search while another thread inserts is undefined.
* MsgTimer: the first message's `Init`, which two games may run at the same
  time; what a mutex does that is initialised while it is held is undefined.
  `Deinit`, which nobody calls.
* Config: the scalar settings, which `Start` reads without the lock; the
  fixed scenarios of an admin; the names of a copy; `%list`, which walks through
  `GetScen(int)`; chances below 0.
* Process: `SetArguments`, `Wait`, the code for Windows. An `execl` that fails is an
  engine that ends at once.
* ListenSocket: its `Init`. main: the arguments and the order in which things are
  started. Descriptors that libraries open.
* UserControl: what is in the memory of one that was freed; what `Put` does with it
  is a choice.
* The lock order across all components at once: each module has the locks that
  meet in it (HostSession those of host and game, AutoHost the same against the
  destructor, MsgTimer a game's and `msgmutex`, Output the mutex of `Put` and the
  streams).


## Plan

Done, in the order of importance: the lock that all the rest uses, the control of
a game, the host around it, its messages, the settings; then the lines and the
descriptors they come from, the output, the sessions of admins with a host; and
the proofs of all of them, up to liveness.

What would come next:

1. Abstract specifications besides RWLock, with proofs that they are
   implemented: a bag of messages of which each leaves once (for MsgTimer); an
   owner per scenario (for AutoHost); a game that is played or fails, which is
   what AutoHost's `play` stands for (for GameControl); a sequence of lines (for
   Stream, where `WordsKept` says most of it).
2. Several hosts in HostSession: `%status` walks the list while others insert and
   delete.
3. The two `Init`s of MsgTimer, once it is decided what a mutex that is
   initialised twice may do.
