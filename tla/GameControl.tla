---------------------------- MODULE GameControl ----------------------------
(***************************************************************************)
(* One Game object (src/GameControl.cpp): the thread that runs it, the     *)
(* game engine it has started, and the other threads that reach the        *)
(* object.                                                                 *)
(*                                                                         *)
(* The control thread is the work thread of an AutoHost.  Start launches   *)
(* the engine and calls Control, which reads the engine's output line by   *)
(* line until it ends.  When the engine gives up too early, Control calls  *)
(* Fail, and Fail calls Start again: a retry is a recursion, and up to     *)
(* MaxExecTrials of these frames are on the stack at a time.  A caller     *)
(* that still has something to do when the callee returns is an element of *)
(* stack:                                                                  *)
(*   "launched"  Start, in line 116: sets the status, gives its write lock *)
(*               back and calls Control                                    *)
(*   "flood"     Control, in line 263: gives its write lock back, reads on *)
(*   "end"       Control, in lines 254 and 271: gives controlmutex back    *)
(*               and returns                                               *)
(*                                                                         *)
(* The lock of the object is the abstract RWLock that StatusLocks          *)
(* implements.  A section between StatusUnstable and StatusStable that     *)
(* calls nothing that waits is one action; nobody else can see its middle. *)
(***************************************************************************)
EXTENDS Naturals, Sequences, FiniteSets

CONSTANTS MaxExecTrials,   \* the Configuration's value of that name
          LaunchMayFail,   \* Process::Start may return false (no pipes left)
          FloodMayHappen,  \* the master server may complain (rx::ms_flood)
          MayBeDestroyed   \* another thread may delete the object any time

ASSUME MaxExecTrialsAssumption == MaxExecTrials \in Nat
ASSUME ScenarioAssumption ==
    {LaunchMayFail, FloodMayHappen, MayBeDestroyed} \subseteq BOOLEAN

Threads == {"control", "destroyer", "timer", "admin"}
Nobody  == "nobody"

VARIABLES
    status,      \* Game::Status
    clonk,       \* the pointer: "null", or a Process "prerun" or "active"
    engine,      \* the program behind it: "none", "up" or "exited"
    execTrials,  \* Game::ExecTrials
    cleanup,     \* Game::cleanup
    scen,        \* Settings.Scen: "set" or, with the pointer kept, "freed"
    reads,       \* the lock of the object, see RWLock
    writes,
    controlmutex,\* recursive: who has it, and how often
    pc,          \* where each thread is
    stack,       \* the suspended frames of the control thread
    line,        \* what kind of line ReadLine has returned
    alive,       \* FALSE once a signal has killed the controller
    faults,      \* history: the invalid accesses made so far
    starts,      \* history: launches of an engine
    lateStarts   \* history: those made with cleanup set

vars == <<status, clonk, engine, execTrials, cleanup, scen, reads, writes,
          controlmutex, pc, stack, line, alive, faults, starts, lateStarts>>

lockVars == <<reads, writes>>
history  == <<alive, faults, starts, lateStarts>>

Lock == INSTANCE RWLock

GameStatus == {"Setting", "PreLobby", "Lobby", "Load", "Run", "Failed"}

\* Lines by the regular expression they match: gm_lobby, gm_load, gm_go;
\* ctrl_err or gm_exit; ms_flood; gm_tick0; anything else.
Lines == {"lobby", "load", "go", "exit", "flood", "tick0", "other"}

Frames == {"launched", "flood", "end"}

Faults == {"nullClonk", "freedClonk", "freedScen", "freedGame",
           "timerWrite", "adminWrite"}

PC == [control   : {"start", "launch", "control", "read", "reading", "line",
                    "eof", "fail", "retry", "return", "done"},
       destroyer : {"idle", "tornDown", "waited", "gone"},
       timer     : {"idle", "write"},
       admin     : {"idle", "locked", "write", "unlock"}]

TypeOK == /\ status \in GameStatus
          /\ clonk \in {"null", "prerun", "active"}
          /\ engine \in {"none", "up", "exited"}
          /\ execTrials \in Nat
          /\ cleanup \in BOOLEAN
          /\ scen \in {"set", "freed"}
          /\ Lock!TypeOK
          /\ controlmutex \in [owner : Threads \cup {Nobody}, depth : Nat]
          /\ pc \in PC
          /\ stack \in Seq(Frames)
          /\ line \in Lines
          /\ alive \in BOOLEAN
          /\ faults \subseteq Faults
          /\ starts \in Nat
          /\ lateStarts \in Nat

\* Constructed, given a scenario, and about to be started by AutoHost::Work.
Init == /\ status = "Setting"
        /\ clonk = "null"
        /\ engine = "none"
        /\ execTrials = 0
        /\ cleanup = FALSE
        /\ scen = "set"
        /\ Lock!Init
        /\ controlmutex = [owner |-> Nobody, depth |-> 0]
        /\ pc = [control |-> "start", destroyer |-> "idle",
                 timer |-> "idle", admin |-> "idle"]
        /\ stack = <<>>
        /\ line = "other"
        /\ alive = TRUE
        /\ faults = {}
        /\ starts = 0
        /\ lateStarts = 0

-----------------------------------------------------------------------------
(* Helpers.                                                                *)

At(t, where) == alive /\ pc[t] = where

Goto(t, to) == pc' = [pc EXCEPT ![t] = to]

\* StatusUnstable would return at once.  Mutant: readers do not count.
MayWriteWithReaders(t) == \A u \in Threads \ {t} : writes[u] = 0
MayWrite(t) == Lock!NobodyBut(t)

\* Mutant: the lock is given back before the call.
KeepNothing(t) == UNCHANGED <<reads, writes>>

\* StatusUnstable without, and StatusStable of an earlier, StatusStable.
KeepWriting(t) == writes' = [writes EXCEPT ![t] = @ + 1] /\ UNCHANGED reads
StopWriting(t) == writes' = [writes EXCEPT ![t] = @ - 1] /\ UNCHANGED reads

\* The mutex is recursive.  Mutant: it is not.
LockControlOnce(t) == /\ controlmutex.owner = Nobody
                      /\ controlmutex' = [owner |-> t, depth |-> 1]

LockControl(t) == /\ controlmutex.owner \in {Nobody, t}
                  /\ controlmutex' = [owner |-> t, depth |-> controlmutex.depth + 1]

\* Mutant: a return without it.
ForgetControl == UNCHANGED controlmutex

UnlockControl ==
    controlmutex' = IF controlmutex.depth = 1
                    THEN [owner |-> Nobody, depth |-> 0]
                    ELSE [controlmutex EXCEPT !.depth = @ - 1]

Push(frame) == stack' = <<frame>> \o stack

\* An invalid access kills the controller (CrashHandler) ...
Crash(fault) == /\ alive' = FALSE
                /\ faults' = faults \cup {fault}
                /\ UNCHANGED <<starts, lateStarts>>

\* ... or, when the memory is still what it was, goes unnoticed.
Survive(fault) == /\ faults' = faults \cup {fault}
                  /\ UNCHANGED <<alive, starts, lateStarts>>

\* The object's memory is gone.
Gone == pc.destroyer = "gone"

-----------------------------------------------------------------------------
(* Start, Fail and Control.                                                *)

\* A look at *Settings.Scen, which the destructor frees.
UseScen == IF scen = "freed" THEN Crash("freedScen") \/ Survive("freedScen")
                             ELSE UNCHANGED history

\* Start up to line 107: the command line is built from the scenario.
BuildCommand ==
    /\ At("control", "start") /\ ~Gone
    /\ Goto("control", "launch")
    /\ UseScen
    /\ UNCHANGED <<status, clonk, engine, execTrials, cleanup, scen, lockVars,
                   controlmutex, stack, line>>

\* Lines 108 to 118: the old process is deleted, which kills its engine.
Launch ==
    /\ At("control", "launch") /\ ~Gone
    /\ MayWrite("control")
    /\ starts' = starts + 1
    /\ lateStarts' = IF cleanup THEN lateStarts + 1 ELSE lateStarts
    /\ \/ /\ clonk' = "active"
          /\ engine' = "up"
          /\ status' = "PreLobby"
          /\ Goto("control", "control")
          /\ UNCHANGED <<lockVars, stack>>
       \/ /\ LaunchMayFail
          /\ clonk' = "prerun"
          /\ engine' = "none"
          /\ KeepWriting("control")
          /\ Push("launched")
          /\ Goto("control", "fail")
          /\ UNCHANGED status
    /\ UNCHANGED <<execTrials, cleanup, scen, controlmutex, line, alive, faults>>

\* Line 322.  Mutant: one attempt more.
TrialsExceeded(trials) == trials > MaxExecTrials
TrialsUsed(trials)     == trials >= MaxExecTrials

\* Fail up to line 327.
CountFailure ==
    /\ At("control", "fail")
    /\ MayWrite("control")
    /\ execTrials' = execTrials + 1
    /\ \/ /\ TrialsUsed(execTrials')
          /\ status' = "Failed"
          /\ Goto("control", "return")
       \/ /\ ~TrialsUsed(execTrials')
          /\ Goto("control", "retry")
          /\ UNCHANGED status
    /\ UNCHANGED <<clonk, engine, cleanup, scen, lockVars, controlmutex, stack,
                   line, history>>

\* Line 328 reads cleanup.  Mutant: the test is forgotten.
NeverTold == FALSE
ToldToEnd == cleanup

\* Line 328, without the lock; then Halt(5) and Start.
Retry ==
    /\ At("control", "retry")
    /\ Goto("control", IF ToldToEnd THEN "return" ELSE "start")
    /\ UNCHANGED <<status, clonk, engine, execTrials, cleanup, scen, lockVars,
                   controlmutex, stack, line, history>>

EnterControl ==
    /\ At("control", "control") /\ ~Gone
    /\ LockControl("control")
    /\ Goto("control", "read")
    /\ UNCHANGED <<status, clonk, engine, execTrials, cleanup, scen, lockVars,
                   stack, line, history>>

\* clonk->ReadLine is called ...
CallReadLine ==
    /\ At("control", "read")
    /\ \/ clonk # "null" /\ Goto("control", "reading") /\ UNCHANGED history
       \/ clonk = "null" /\ Crash("nullClonk") /\ UNCHANGED pc
    /\ UNCHANGED <<status, clonk, engine, execTrials, cleanup, scen, lockVars,
                   controlmutex, stack, line>>

\* ... and returns.  A Process that never ran has descriptor 0: its ReadLine
\* takes what somebody types at the controller's own terminal.  A pointer
\* that is null by now means that the Process is freed while it is read.
ReadLine ==
    /\ At("control", "reading")
    /\ \/ /\ clonk = "active" /\ engine = "up"
          /\ line' \in IF FloodMayHappen THEN Lines ELSE Lines \ {"flood"}
          /\ Goto("control", "line")
          /\ UNCHANGED history
       \/ /\ clonk = "prerun"
          /\ line' = "other"
          /\ Goto("control", "line")
          /\ UNCHANGED history
       \/ /\ clonk = "prerun" \/ engine = "exited"
          /\ Goto("control", "eof")
          /\ UNCHANGED <<line, history>>
       \/ /\ clonk = "null"
          /\ Goto("control", "eof")
          /\ Crash("freedClonk") \/ Survive("freedClonk")
          /\ UNCHANGED line
    /\ UNCHANGED <<status, clonk, engine, execTrials, cleanup, scen, lockVars,
                   controlmutex, stack>>

\* Lines 233 to 258.  Mutant: the old status is not looked at.
StatusByLine(old, l) == CASE l = "lobby" -> "Lobby"
                          [] l = "load"  -> "Load"
                          [] l = "go"    -> "Run"
                          [] OTHER       -> old
StatusAfter(old, l) == CASE old = "PreLobby" /\ l = "lobby" -> "Lobby"
                         [] old = "Lobby"    /\ l = "load"  -> "Load"
                         [] old = "Load"     /\ l = "go"    -> "Run"
                         [] OTHER                           -> old

\* Lines 128 to 266, for the lines that change the game.
HandleLine ==
    /\ At("control", "line")
    /\ MayWrite("control")
    /\ \/ /\ status = "PreLobby" /\ line = "exit"
          /\ Push("end")
          /\ Goto("control", "fail")
          /\ UNCHANGED <<status, lockVars>>
       \/ /\ status = "PreLobby" /\ line = "flood"
          /\ KeepWriting("control")
          /\ Push("flood")
          /\ Goto("control", "fail")
          /\ UNCHANGED status
       \/ /\ ~(status = "PreLobby" /\ line \in {"exit", "flood"})
          /\ status' = StatusAfter(status, line)
          /\ Goto("control", "read")
          /\ UNCHANGED <<lockVars, stack>>
    /\ IF <<status, line>> \in {<<"PreLobby", "lobby">>, <<"Run", "tick0">>}
       THEN UseScen ELSE UNCHANGED history
    /\ UNCHANGED <<clonk, engine, execTrials, cleanup, scen, controlmutex, line>>

\* Line 271.  Mutant: the test is forgotten.
NoRetry   == FALSE
EndsEarly == status = "PreLobby"

\* Lines 268 to 273: the output has ended.
EndOfOutput ==
    /\ At("control", "eof")
    /\ MayWrite("control")
    /\ clonk' = "null"
    /\ engine' = "none"
    /\ \/ /\ EndsEarly
          /\ Push("end")
          /\ Goto("control", "fail")
          /\ UNCHANGED controlmutex
       \/ /\ ~EndsEarly
          /\ UnlockControl
          /\ Goto("control", "return")
          /\ UNCHANGED stack
    /\ UNCHANGED <<status, execTrials, cleanup, scen, lockVars, line, history>>

\* A call returns: to the innermost suspended frame ...
ReturnTo(frame) == /\ At("control", "return")
                   /\ stack # <<>> /\ Head(stack) = frame
                   /\ stack' = Tail(stack)

ReturnToLaunch ==
    /\ ReturnTo("launched")
    /\ status' = "PreLobby"
    /\ StopWriting("control")
    /\ Goto("control", "control")
    /\ UNCHANGED <<clonk, engine, execTrials, cleanup, scen, controlmutex, line, history>>

ReturnToFlood ==
    /\ ReturnTo("flood")
    /\ StopWriting("control")
    /\ Goto("control", "read")
    /\ UNCHANGED <<status, clonk, engine, execTrials, cleanup, scen, controlmutex,
                   line, history>>

ReturnToEnd ==
    /\ ReturnTo("end")
    /\ UnlockControl
    /\ UNCHANGED <<pc, status, clonk, engine, execTrials, cleanup, scen, lockVars,
                   line, history>>

\* ... or, from the outermost Start, to the AutoHost.
ReturnToHost ==
    /\ At("control", "return")
    /\ stack = <<>>
    /\ Goto("control", "done")
    /\ UNCHANGED <<status, clonk, engine, execTrials, cleanup, scen, lockVars,
                   controlmutex, stack, line, history>>

Return == ReturnToLaunch \/ ReturnToFlood \/ ReturnToEnd \/ ReturnToHost

\* A member function runs on although the object is freed.
TouchGone ==
    /\ alive
    /\ Gone
    /\ pc.control \notin {"return", "done"}
    /\ Crash("freedGame")
    /\ UNCHANGED <<status, clonk, engine, execTrials, cleanup, scen, lockVars,
                   controlmutex, pc, stack, line>>

ControlStep == \/ BuildCommand \/ Launch \/ CountFailure \/ Retry
               \/ EnterControl \/ CallReadLine \/ ReadLine
               \/ HandleLine \/ EndOfOutput \/ Return \/ TouchGone

-----------------------------------------------------------------------------
(* The engine.                                                             *)

EngineExit ==
    /\ alive
    /\ engine = "up"
    /\ engine' = "exited"
    /\ UNCHANGED <<status, clonk, execTrials, cleanup, scen, lockVars,
                   controlmutex, pc, stack, line, history>>

-----------------------------------------------------------------------------
(* The destructor, run by AutoHost::Work after Start has returned, or by   *)
(* the thread that deletes the AutoHost.                                   *)

\* Lines 297 to 302, with Exit: waitpid never waits, as the engine is no
\* child of the controller but of a child that has ended.
TearDown ==
    /\ At("destroyer", "idle")
    /\ MayBeDestroyed \/ pc.control = "done"
    /\ MayWrite("destroyer")
    /\ cleanup' = TRUE
    /\ clonk' = "null"
    /\ engine' = "none"
    /\ scen' = "freed"
    /\ Goto("destroyer", "tornDown")
    /\ UNCHANGED <<status, execTrials, lockVars, controlmutex, stack, line, history>>

\* Mutant: the destructor does not wait.
AwaitNothing ==
    /\ At("destroyer", "tornDown")
    /\ Goto("destroyer", "waited")
    /\ UNCHANGED <<status, clonk, engine, execTrials, cleanup, scen, lockVars,
                   controlmutex, stack, line, history>>

AwaitControl ==
    /\ At("destroyer", "tornDown")
    /\ LockControl("destroyer")
    /\ Goto("destroyer", "waited")
    /\ UNCHANGED <<status, clonk, engine, execTrials, cleanup, scen, lockVars,
                   stack, line, history>>

\* Line 304: the lock is taken for good.
FreeObject ==
    /\ At("destroyer", "waited")
    /\ MayWrite("destroyer")
    /\ KeepWriting("destroyer")
    /\ Goto("destroyer", "gone")
    /\ UNCHANGED <<status, clonk, engine, execTrials, cleanup, scen, controlmutex,
                   stack, line, history>>

DestroyerStep == TearDown \/ AwaitControl \/ FreeObject

-----------------------------------------------------------------------------
(* SendMsg, lines 335 to 348, from the timer thread and from an admin who  *)
(* holds the object locked (AutoHostList::CatchAndLock).                   *)

MayReceive == clonk = "active" /\ status \in {"Lobby", "Run"}

SendVars == <<status, clonk, engine, execTrials, cleanup, scen, controlmutex,
              stack, line>>

TimerCheck ==
    /\ At("timer", "idle")
    /\ ~Gone
    /\ MayWrite("timer")
    /\ MayReceive
    /\ Goto("timer", "write")
    /\ UNCHANGED <<SendVars, lockVars, history>>

\* WriteList through a pointer that is read again, without the lock.
WriteTo(fault) == IF Gone \/ clonk = "null" THEN Crash(fault) ELSE UNCHANGED history

TimerWrite ==
    /\ At("timer", "write")
    /\ WriteTo("timerWrite")
    /\ Goto("timer", "idle")
    /\ UNCHANGED <<SendVars, lockVars>>

AdminLock ==
    /\ At("admin", "idle")
    /\ ~Gone
    /\ Lock!AcquireRead("admin")
    /\ Goto("admin", "locked")
    /\ UNCHANGED <<SendVars, history>>

AdminCheck ==
    /\ At("admin", "locked")
    /\ MayWrite("admin")
    /\ Goto("admin", IF MayReceive THEN "write" ELSE "unlock")
    /\ UNCHANGED <<SendVars, lockVars, history>>

AdminWrite ==
    /\ At("admin", "write")
    /\ WriteTo("adminWrite")
    /\ Goto("admin", "unlock")
    /\ UNCHANGED <<SendVars, lockVars>>

AdminUnlock ==
    /\ At("admin", "unlock")
    /\ Lock!ReleaseRead("admin")
    /\ Goto("admin", "idle")
    /\ UNCHANGED <<SendVars, history>>

SendStep == \/ TimerCheck \/ TimerWrite
            \/ AdminLock \/ AdminCheck \/ AdminWrite \/ AdminUnlock

-----------------------------------------------------------------------------

Next == ControlStep \/ EngineExit \/ DestroyerStep \/ SendStep

Spec == Init /\ [][Next]_vars

(* A thread that can run does.  The engine ends some day: players leave, or *)
(* it is told to by the end of its input.                                   *)
FairSpec == /\ Spec
            /\ WF_vars(ControlStep)
            /\ WF_vars(EngineExit)
            /\ WF_vars(pc.destroyer # "idle" /\ DestroyerStep)
            /\ WF_vars(TimerWrite \/ AdminCheck \/ AdminWrite \/ AdminUnlock)

-----------------------------------------------------------------------------
(* Properties.                                                             *)

FramesOf(kinds) == Cardinality({i \in DOMAIN stack : stack[i] \in kinds})

InControl == pc.control \in {"read", "reading", "line", "eof"}

(* Whatever way Start, Control and Fail return, early or from any depth of *)
(* the recursion, every StatusUnstable gets its StatusStable and every     *)
(* lock of controlmutex its unlock: what the control thread holds is what  *)
(* its suspended frames account for, and nothing when Start returns.       *)
LocksBalanced ==
    /\ writes["control"] = FramesOf({"launched", "flood"})
    /\ controlmutex.owner = "control"
          <=> FramesOf({"flood", "end"}) + (IF InControl THEN 1 ELSE 0) > 0
    /\ controlmutex.owner = "control"
          => controlmutex.depth = FramesOf({"flood", "end"})
                                  + (IF InControl THEN 1 ELSE 0)

(* MaxExecTrials is what etc/db calls it, the maximal number of attempts   *)
(* to run a game, through all levels of the recursion.  (The first attempt *)
(* is made even if the value is 0.)                                        *)
AttemptsBounded == starts <= IF MaxExecTrials = 0 THEN 1 ELSE MaxExecTrials

(* A game told to end (Exit sets cleanup) launches at most one more        *)
(* engine: the one whose Start was already past the test in Fail.          *)
OneLateStart == lateStarts <= 1

(* When Start returns, AutoHost::Work decides by the status: the game was  *)
(* played, or all attempts are used up, or it was told to end.  It is      *)
(* never a game that is still waiting for its lobby.                       *)
OutcomeTold ==
    pc.control = "done" =>
        \/ status \in {"Lobby", "Load", "Run"}
        \/ status = "Failed" /\ execTrials >= MaxExecTrials
        \/ cleanup

(* The destructor waits on controlmutex: it never frees the object while   *)
(* the control thread is inside Control or called from there.              *)
OutlivesControl ==
    Gone => ~InControl /\ FramesOf({"flood", "end"}) = 0

(* A game that succeeds at its first attempt and is left alone makes no    *)
(* invalid access from its own thread: the null pointer needs a retry, the *)
(* freed memory a deletion.  And an admin, who holds the object locked     *)
(* while SendMsg writes, never writes to an engine that is gone.           *)
FaultsHaveCauses ==
    /\ faults \cap {"freedClonk", "freedScen", "freedGame"} # {} => cleanup
    /\ "nullClonk" \in faults => cleanup \/ execTrials > 0
    /\ "adminWrite" \notin faults

(* The status goes from lobby to loading to running and not back.  Only a  *)
(* launch makes a game wait for its lobby again, and so does a failed      *)
(* launch when Fail has come back, whatever the status has become by then: *)
(* a verdict "Failed" is lost in no other way, and it is only given when   *)
(* the attempts are used up.                                               *)
StatusSteps ==
    [][ status' # status =>
          \/ <<status, status'>> \in {<<"PreLobby", "Lobby">>, <<"Lobby", "Load">>,
                                      <<"Load", "Run">>}
          \/ status' = "PreLobby" /\ starts' > starts /\ execTrials < MaxExecTrials
          \/ status' = "PreLobby" /\ starts' = 1
          \/ status' = "PreLobby" /\ stack # <<>> /\ Head(stack) = "launched"
          \/ status' = "Failed" /\ execTrials' >= MaxExecTrials ]_vars

(* Start returns once admins leave the object alone for good, unless the   *)
(* controller dies or Control reads, for a Process that never ran, from    *)
(* the controller's own terminal for ever: no retry waits for the locks of *)
(* the frames below it.                                                    *)
ReadsTerminal == clonk = "prerun" /\ pc.control \in {"read", "reading", "line"}

StartReturns ==
    <>[][~AdminLock]_vars /\ []<>~ReadsTerminal
        => <>(pc.control = "done" \/ ~alive)

(* src/AutoHost.cpp:65 says of Start: "This blocks, until the game is      *)
(* over."  So the pointer that Control reads the game through is there.    *)
NoNullClonk == "nullClonk" \notin faults

(* src/AutoHost.cpp:42 says, after the deletion of the game: "And my own   *)
(* thread will end when all that is done."                                 *)
StoppedThreadEnds == pc.destroyer = "tornDown" ~> pc.control = "done"
=============================================================================
