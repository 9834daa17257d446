----------------------------- MODULE Descriptors -----------------------------
(***************************************************************************)
(* The file descriptors of the controller: Process::Start, its end and its *)
(* destructor (src/helpers/ExternalApp.cpp), what Close of a stream does   *)
(* (src/helpers/Stream.cpp), and connections of admins from accept to the  *)
(* destructor of UserControl (ListenSocket.cpp, Main.cpp, Control.cpp).    *)
(*                                                                         *)
(* A descriptor is a number.  All threads share one table of them, an open *)
(* takes the lowest free one, a forked process gets a copy of the whole    *)
(* table, and Close neither forgets the number nor remembers that it was   *)
(* called.  The same number is closed twice in several places, and in      *)
(* between it may be somebody else's.                                      *)
(*                                                                         *)
(* Left out: descriptors of other libraries, which open and close numbers  *)
(* of their own, and the numbers below those of the first pipe.            *)
(***************************************************************************)
EXTENDS Naturals, FiniteSets

CONSTANTS Hosts,        \* threads that launch engines
          Admins,       \* people who connect, once each
          MaxNumber,    \* how many descriptors may be open (RLIMIT_NOFILE)
          MaxLaunches,  \* bound: launches of all hosts together
          MayFailToFork \* either fork() may fail

ASSUME NumbersAssumption == MaxNumber \in Nat
ASSUME LaunchesAssumption == MaxLaunches \in Nat
ASSUME HostsAssumption == IsFiniteSet(Hosts)
ASSUME NamesAssumption == Hosts \cap Admins = {}
ASSUME ForkAssumption == MayFailToFork \in BOOLEAN

Numbers == 1 .. MaxNumber
Launch  == Hosts \X (1 .. MaxLaunches)

(* What a number stands for: an end of the pipe to an engine (fd1), from   *)
(* an engine (fd2) or for its pid (fdtmp), or a connection.                *)
PipeEnd == [owner : Launch, of : {"to", "from", "pid"}, end : {"r", "w"}]
Socket  == [owner : Admins \X {1}, of : {"socket"}, end : {"rw"}]
End     == PipeEnd \cup Socket

Free == [owner |-> <<"nobody", 0>>, of |-> "none", end |-> "none"]
None == 0

PipeOf(l, which, e) == [owner |-> l, of |-> which, end |-> e]
SocketOf(a)         == [owner |-> <<a, 1>>, of |-> "socket", end |-> "rw"]

VARIABLES
    table,     \* the descriptors of the controller
    host,      \* host[h]: pc, launches so far, and the numbers of its pipes
    stopper,   \* stopper[h]: where a thread that deletes the game of h is
    engine,    \* engine[l]: none, runs or gone
    held,      \* held[l]: the ends that this engine has open
    stuck,     \* stuck[l]: the ends of a forked child that never ends
    admin,     \* admin[a]: where his UserControl is, and its number
    listening, \* main is still in its loop
    alive,     \* FALSE once an exception has ended the controller
    foreign,   \* history: where a number was closed that was somebody else's
    told,      \* history: who was told that a connection got terminated
    leaked,    \* history: a launch has failed with pipes open
    overlaps   \* history: <<l, m>>: m was forked while l was between pipe and close

vars == <<table, host, stopper, engine, held, stuck, admin, listening, alive, foreign,
          told, leaked, overlaps>>

NumberPair == [r : {None} \cup Numbers, w : {None} \cup Numbers]
NoPair     == [r |-> None, w |-> None]

Sites == {"readLine", "start", "pidread", "process", "exit", "freedProcess",
          "userControl"}

TypeOK == /\ table \in [Numbers -> End \cup {Free}]
          /\ host \in [Hosts -> [pc : {"idle", "fork", "closePid", "readPid", "close",
                                     "return", "run", "ended", "gone"},
                               n : 0 .. MaxLaunches, known : BOOLEAN,
                               to : NumberPair, from : NumberPair, pid : NumberPair]]
          /\ stopper \in [Hosts -> {"none", "closed", "deleted"}]
          /\ engine \in [Launch -> {"none", "runs", "gone"}]
          /\ held \in [Launch -> SUBSET End]
          /\ stuck \in [Launch -> SUBSET End]
          /\ admin \in [Admins -> [pc : {"away", "open", "notice", "close", "closeAgain",
                                       "gone"}, number : {None} \cup Numbers]]
          /\ listening \in BOOLEAN
          /\ alive \in BOOLEAN
          /\ foreign \subseteq Sites
          /\ told \subseteq Admins \X (Launch \cup (Admins \X {1}))
          /\ leaked \in BOOLEAN
          /\ overlaps \subseteq Launch \X Launch

Init == /\ table = [k \in Numbers |-> Free]
        /\ host = [h \in Hosts |-> [pc |-> "idle", n |-> 0, known |-> FALSE,
                                    to |-> NoPair, from |-> NoPair, pid |-> NoPair]]
        /\ stopper = [h \in Hosts |-> "none"]
        /\ engine = [l \in Launch |-> "none"]
        /\ held = [l \in Launch |-> {}]
        /\ stuck = [l \in Launch |-> {}]
        /\ admin = [a \in Admins |-> [pc |-> "away", number |-> None]]
        /\ listening = TRUE
        /\ alive = TRUE
        /\ foreign = {}
        /\ told = {}
        /\ leaked = FALSE
        /\ overlaps = {}

-----------------------------------------------------------------------------
(* The table.                                                              *)

FreeNumbers == {k \in Numbers : table[k] = Free}

\* How many free numbers there are up to k.
Rank(k) == Cardinality({j \in FreeNumbers : j <= k})

NthFree(i) == CHOOSE k \in FreeNumbers : Rank(k) = i

\* pipe() that many times, nothing closed in between: the read end comes first.
PipeNames == <<"to", "from", "pid">>

WithPipes(l, count) ==
    [k \in Numbers |->
        IF table[k] = Free /\ Rank(k) <= 2 * count
        THEN PipeOf(l, PipeNames[(Rank(k) + 1) \div 2], IF Rank(k) % 2 = 1 THEN "r" ELSE "w")
        ELSE table[k]]

PipeNumbers(i) == [r |-> NthFree(2 * i - 1), w |-> NthFree(2 * i)]

\* close() of these numbers, each with the end that the caller takes it for.
Close(pairs, site) ==
    /\ table' = [k \in Numbers |-> IF \E p \in pairs : p[1] = k THEN Free ELSE table[k]]
    /\ foreign' = IF \E p \in pairs : p[1] # None /\ table[p[1]] \notin {Free, p[2]}
                  THEN foreign \cup {site} ELSE foreign

Open == {table[k] : k \in Numbers} \ {Free}

IsOpen(e) == \/ e \in Open
             \/ \E l \in Launch : e \in held[l] \cup stuck[l]

\* read() of the other end of a pipe returns 0.  It waits with the file that
\* the number stood for when it was called.
AtEnd(write) == ~IsOpen(write)

\* write() to this number succeeds; otherwise WriteFinal repeats it.
CanWrite(k) == LET e == table[k]
               IN  \/ e \in Socket
                   \/ e \in PipeEnd /\ e.end = "w" /\ IsOpen([e EXCEPT !.end = "r"])

-----------------------------------------------------------------------------
(* Process::Start.                                                         *)

At(h, where) == alive /\ host[h].pc = where

Goto(h, to) == host' = [host EXCEPT ![h].pc = to]

Current(h) == <<h, host[h].n>>

Own(h, which, e) == PipeOf(Current(h), which, e)

CanPipe(h) ==
    /\ At(h, "idle")
    /\ Cardinality({l \in Launch : l[2] <= host[l[1]].n}) < MaxLaunches

\* Line 63: the three pipes of a new Process.
MakePipes(h) ==
    /\ CanPipe(h)
    /\ Cardinality(FreeNumbers) >= 6
    /\ host' = [host EXCEPT ![h] =
           [pc |-> "fork", n |-> host[h].n + 1, known |-> FALSE, to |-> PipeNumbers(1),
            from |-> PipeNumbers(2), pid |-> PipeNumbers(3)]]
    /\ table' = WithPipes(<<h, host[h].n + 1>>, 3)
    /\ UNCHANGED <<stopper, engine, held, stuck, admin, listening, alive, foreign, told,
                   leaked, overlaps>>

\* Line 63: one of them fails; nobody closes those before it.
PipesFail(h) ==
    /\ CanPipe(h)
    /\ Cardinality(FreeNumbers) < 6
    /\ host' = [host EXCEPT ![h].n = @ + 1]
    /\ table' = WithPipes(<<h, host[h].n + 1>>, Cardinality(FreeNumbers) \div 2)
    /\ leaked' = (leaked \/ Cardinality(FreeNumbers) >= 2)
    /\ UNCHANGED <<stopper, engine, held, stuck, admin, listening, alive, foreign, told,
                   overlaps>>

\* A launch has pipes that the controller has not closed its ends of.
Starting(h) == host[h].pc \in {"fork", "closePid", "readPid", "close"}

\* What a process that h forks now gets, without the numbers that it closes.
Inherited(numbers) == {table[k] : k \in Numbers \ numbers} \ {Free}

NoteOverlaps(h) ==
    overlaps' = overlaps \cup {<<Current(g), Current(h)>> : g \in {g \in Hosts \ {h} : Starting(g)}}

\* Lines 66 to 99: the child forks the engine, writes its pid and ends.
Fork(h) ==
    /\ At(h, "fork")
    /\ engine' = [engine EXCEPT ![Current(h)] = "runs"]
    /\ held' = [held EXCEPT ![Current(h)] =
                   Inherited({host[h].pid.r, host[h].to.w, host[h].from.r})]
    /\ NoteOverlaps(h)
    /\ host' = [host EXCEPT ![h].pc = "closePid", ![h].known = TRUE]
    /\ UNCHANGED <<table, stopper, stuck, admin, listening, alive, foreign, told, leaked>>

\* Line 65: an exception that nobody catches.
ForkFails(h) ==
    /\ At(h, "fork")
    /\ MayFailToFork
    /\ alive' = FALSE
    /\ UNCHANGED <<table, host, stopper, engine, held, stuck, admin, listening, foreign,
                   told, leaked, overlaps>>

\* Line 69: the child calls exit, which destroys its copy of the list of
\* hosts.  That kills engines of the others, and it waits for threads and
\* locks of threads that the child does not have: it may hang.
SecondForkFails(h) ==
    /\ At(h, "fork")
    /\ MayFailToFork
    /\ \E killed \in SUBSET {l \in Launch : engine[l] = "runs" /\ l[1] # h} :
          /\ engine' = [l \in Launch |-> IF l \in killed THEN "gone" ELSE engine[l]]
          /\ held' = [l \in Launch |-> IF l \in killed THEN {} ELSE held[l]]
    /\ \/ stuck' = [stuck EXCEPT ![Current(h)] = Inherited({host[h].pid.r})]
       \/ UNCHANGED stuck
    /\ NoteOverlaps(h)
    /\ Goto(h, "closePid")
    /\ UNCHANGED <<table, stopper, admin, listening, alive, foreign, told, leaked>>

\* Line 101.
ClosePidWrite(h) ==
    /\ At(h, "closePid")
    /\ Close({<<host[h].pid.w, Own(h, "pid", "w")>>}, "start")
    /\ Goto(h, "readPid")
    /\ UNCHANGED <<stopper, engine, held, stuck, admin, listening, alive, told, leaked,
                   overlaps>>

\* Lines 102 to 106: the child has ended, and its text is there, or the pipe
\* is at its end and ReadLine closes it.
ReadPid(h) ==
    /\ At(h, "readPid")
    /\ stuck[Current(h)] = {}
    /\ \/ host[h].known /\ UNCHANGED <<table, foreign>>
       \/ /\ ~host[h].known
          /\ AtEnd(Own(h, "pid", "w"))
          /\ Close({<<host[h].pid.r, Own(h, "pid", "r")>>}, "readLine")
    /\ Goto(h, "close")
    /\ UNCHANGED <<stopper, engine, held, stuck, admin, listening, alive, told, leaked,
                   overlaps>>

\* Lines 107 to 109.  Mutants: the wrong end is closed, one end is kept, or
\* the other end of the pid's pipe is closed again.
WrongEnd(h) == {<<host[h].pid.r, Own(h, "pid", "r")>>, <<host[h].to.r, Own(h, "to", "r")>>,
                <<host[h].from.r, Own(h, "from", "r")>>}
TwoEnds(h)  == {<<host[h].pid.r, Own(h, "pid", "r")>>, <<host[h].to.r, Own(h, "to", "r")>>}
SameAgain(h) == {<<host[h].pid.w, Own(h, "pid", "w")>>, <<host[h].to.r, Own(h, "to", "r")>>,
                 <<host[h].from.w, Own(h, "from", "w")>>}
EnginesEnds(h) == {<<host[h].pid.r, Own(h, "pid", "r")>>, <<host[h].to.r, Own(h, "to", "r")>>,
                   <<host[h].from.w, Own(h, "from", "w")>>}

CloseEnds(h) ==
    /\ At(h, "close")
    /\ Close(EnginesEnds(h), IF host[h].known THEN "start" ELSE "pidread")
    /\ Goto(h, "return")
    /\ UNCHANGED <<stopper, engine, held, stuck, admin, listening, alive, told, leaked,
                   overlaps>>

\* Lines 111 to 159, with the destructor of pidread.
ReturnFromStart(h) ==
    /\ At(h, "return")
    /\ Close({<<host[h].pid.r, Own(h, "pid", "r")>>}, "pidread")
    /\ Goto(h, "run")
    /\ UNCHANGED <<stopper, engine, held, stuck, admin, listening, alive, told, leaked,
                   overlaps>>

-----------------------------------------------------------------------------
(* The end of a Process.                                                   *)

EngineExit(l) ==
    /\ engine[l] = "runs"
    /\ engine' = [engine EXCEPT ![l] = "gone"]
    /\ held' = [held EXCEPT ![l] = {}]
    /\ UNCHANGED <<table, host, stopper, stuck, admin, listening, alive, foreign, told,
                   leaked, overlaps>>

\* ReadLine in Control meets the end and closes fd_in, also in a Process
\* that another thread has just deleted.
ReadEnd(h) ==
    /\ At(h, "run")
    /\ AtEnd(Own(h, "from", "w"))
    /\ Close({<<host[h].from.r, Own(h, "from", "r")>>},
             IF stopper[h] = "deleted" THEN "freedProcess" ELSE "readLine")
    /\ Goto(h, IF stopper[h] = "deleted" THEN "gone" ELSE "ended")
    /\ UNCHANGED <<stopper, engine, held, stuck, admin, listening, alive, told, leaked,
                   overlaps>>

\* What ~Process closes: fd_out, then fd_in.  Mutant: fd_in only.
InOnly(h)      == {<<host[h].from.r, Own(h, "from", "r")>>}
ProcessEnds(h) == {<<host[h].to.w, Own(h, "to", "w")>>,
                   <<host[h].from.r, Own(h, "from", "r")>>}

\* Kill(true): SIGKILL, if the pid is known.
Kill(h) ==
    LET killed == {l \in {Current(h)} : host[h].known /\ engine[l] = "runs"}
    IN  /\ engine' = [l \in Launch |-> IF l \in killed THEN "gone" ELSE engine[l]]
        /\ held' = [l \in Launch |-> IF l \in killed THEN {} ELSE held[l]]

\* delete clonk in Control, after the loop.
DeleteProcess(h) ==
    /\ At(h, "ended")
    /\ stopper[h] # "closed"
    /\ IF stopper[h] = "deleted" THEN UNCHANGED <<table, foreign, engine, held>>
       ELSE Kill(h) /\ Close(ProcessEnds(h), "process")
    /\ Goto(h, IF stopper[h] = "deleted" THEN "gone" ELSE "idle")
    /\ UNCHANGED <<stopper, stuck, admin, listening, alive, told, leaked, overlaps>>

\* ~Game in another thread, which has the write lock from Exit to delete:
\* first Exit with ClosePipeTo ...
StopGame(h) ==
    /\ At(h, "run") \/ At(h, "ended")
    /\ stopper[h] = "none"
    /\ Close({<<host[h].to.w, Own(h, "to", "w")>>}, "exit")
    /\ stopper' = [stopper EXCEPT ![h] = "closed"]
    /\ UNCHANGED <<host, engine, held, stuck, admin, listening, alive, told, leaked,
                   overlaps>>

\* ... then delete clonk.
StopProcess(h) ==
    /\ alive
    /\ stopper[h] = "closed"
    /\ Kill(h)
    /\ Close(ProcessEnds(h), "process")
    /\ stopper' = [stopper EXCEPT ![h] = "deleted"]
    /\ UNCHANGED <<host, stuck, admin, listening, alive, told, leaked, overlaps>>

-----------------------------------------------------------------------------
(* Connections.                                                            *)

AdminAt(a, where) == alive /\ admin[a].pc = where

AdminGoes(a, to) == admin' = [admin EXCEPT ![a].pc = to]

\* AwaitConnection: accept() takes the lowest free number.
Connect(a) ==
    /\ AdminAt(a, "away")
    /\ listening
    /\ FreeNumbers # {}
    /\ LET k == NthFree(1)
       IN  /\ admin' = [admin EXCEPT ![a] = [pc |-> "open", number |-> k]]
           /\ table' = [table EXCEPT ![k] = SocketOf(a)]
    /\ UNCHANGED <<host, stopper, engine, held, stuck, listening, alive, foreign, told,
                   leaked, overlaps>>

\* Main.cpp, line 71: the loop ends for good.
AcceptFails(a) ==
    /\ AdminAt(a, "away")
    /\ listening
    /\ FreeNumbers = {}
    /\ listening' = FALSE
    /\ UNCHANGED <<table, host, stopper, engine, held, stuck, admin, alive, foreign, told,
                   leaked, overlaps>>

Connection(a) == {<<admin[a].number, SocketOf(a)>>}

\* He hangs up, and ReadLine closes fd_in, which is fd_out too.
HangUp(a) ==
    /\ AdminAt(a, "open")
    /\ Close(Connection(a), "readLine")
    /\ AdminGoes(a, "notice")
    /\ UNCHANGED <<host, stopper, engine, held, stuck, listening, alive, told, leaked,
                   overlaps>>

\* ~UserControl, "Your connection got Terminated": WriteFinal repeats until
\* the number can be written to again, whoever has it now.
Notice(a) ==
    /\ AdminAt(a, "notice")
    /\ CanWrite(admin[a].number)
    /\ told' = told \cup {<<a, table[admin[a].number].owner>>}
    /\ AdminGoes(a, "close")
    /\ UNCHANGED <<table, host, stopper, engine, held, stuck, listening, alive, foreign,
                   leaked, overlaps>>

\* delete conn: ~StreamOut, then ~StreamIn.
CloseOut(a) ==
    /\ AdminAt(a, "close")
    /\ Close(Connection(a), "userControl")
    /\ AdminGoes(a, "closeAgain")
    /\ UNCHANGED <<host, stopper, engine, held, stuck, listening, alive, told, leaked,
                   overlaps>>

CloseIn(a) ==
    /\ AdminAt(a, "closeAgain")
    /\ Close(Connection(a), "userControl")
    /\ AdminGoes(a, "gone")
    /\ UNCHANGED <<host, stopper, engine, held, stuck, listening, alive, told, leaked,
                   overlaps>>

-----------------------------------------------------------------------------

StartStep(h) == \/ Fork(h) \/ ForkFails(h) \/ SecondForkFails(h) \/ ClosePidWrite(h)
                \/ ReadPid(h) \/ CloseEnds(h) \/ ReturnFromStart(h)

HostStep(h) == StartStep(h) \/ ReadEnd(h) \/ DeleteProcess(h)

AdminStep(a) == Notice(a) \/ CloseOut(a) \/ CloseIn(a)

Next == \/ \E h \in Hosts : \/ MakePipes(h) \/ PipesFail(h) \/ HostStep(h)
                            \/ StopGame(h) \/ StopProcess(h)
        \/ \E l \in Launch : EngineExit(l)
        \/ \E a \in Admins : \/ Connect(a) \/ AcceptFails(a) \/ HangUp(a) \/ AdminStep(a)

Spec == Init /\ [][Next]_vars

(* Threads that have begun something go on.  Nothing is assumed of engines *)
(* and admins, nor that a launch or a deletion begins.                     *)
FairSpec == /\ Spec
            /\ \A h \in Hosts : WF_vars(HostStep(h)) /\ WF_vars(StopProcess(h))
            /\ \A a \in Admins : WF_vars(AdminStep(a))

-----------------------------------------------------------------------------
(* Properties.                                                             *)

\* As long as no number has been closed in somebody else's hands, each
\* Process reads from and writes to its own engine and each connection is its
\* admin's, however launches, ends and connections interleave.
OwnEnds ==
    foreign = {} =>
        /\ \A h \in Hosts : host[h].pc = "run" /\ stopper[h] = "none" =>
              /\ table[host[h].from.r] = Own(h, "from", "r")
              /\ table[host[h].to.w] = Own(h, "to", "w")
        /\ \A a \in Admins : admin[a].pc = "open" => table[admin[a].number] = SocketOf(a)

\* The first close of somebody else's number is a second close: that of
\* pidread's destructor (line 159), of a Process whose stream has met its end
\* or has been closed by Exit, or of the UserControl of an admin who hung up.
\* No first close ever hits another's (Stream.cpp, lines 65 to 69).
FirstIsSecondClose ==
    [][foreign = {} => foreign' \subseteq {"pidread", "process", "freedProcess",
                                           "userControl"}]_vars

Owns(h) == host[h].pc \notin {"idle", "gone"}

\* When a launch has been brought to its end, its descriptors are closed:
\* only a pipe() that failed leaves any behind (line 63).
NothingLeaks ==
    foreign = {} /\ ~leaked =>
        \A k \in Numbers : LET l == table[k].owner
                            IN  table[k] \in PipeEnd => Owns(l[1]) /\ host[l[1]].n = l[2]

\* Who else keeps this pipe of launch l from its end: engines and children
\* forked by other threads.
Keepers(l, which) ==
    {m \in Launch \ {l} : PipeOf(l, which, "w") \in held[m] \cup stuck[m]}

Kept == \/ foreign # {}
        \/ \E l \in Launch : \/ stuck[l] # {}
                             \/ \E m \in Keepers(l, "from") \cup Keepers(l, "pid") : <<l, m>> \in overlaps

\* Start is under way, or there is no engine to be waited for.
Pending(h) == \/ Starting(h) \/ host[h].pc = "return"
              \/ host[h].pc = "run" /\ engine[Current(h)] # "runs"

\* A launch is brought to its end, and the end of its engine is seen, unless
\* its output or its pid is kept open by what another host forked between the
\* pipes of this launch and their close (line 64), a child hangs (line 69), or
\* a number has been closed in somebody else's hands.
NothingElseBlocks ==
    [](alive /\ ~Kept) => \A h \in Hosts : Pending(h) ~> ~Pending(h)

\* "Your connection got Terminated" (Control.cpp, line 31) is said to the
\* admin whose connection is terminated, or to nobody.
NoticeToItsAdmin == \A t \in told : t[2] = <<t[1], 1>>
=============================================================================
