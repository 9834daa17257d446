------------------------------ MODULE AutoHost ------------------------------
(***************************************************************************)
(* One AutoHost (src/AutoHost.cpp): a thread that plays one game after the *)
(* other, the queue of scenarios that players ask for, and the threads     *)
(* that end it.                                                            *)
(*                                                                         *)
(* ScenarioSets live on the heap and are handed around by address, so the  *)
(* module keeps the heap: live is the set of addresses that are allocated, *)
(* new takes any address that is not, and a freed address stays where it   *)
(* was stored.  The game is abstract here: it is played, players may wish  *)
(* for scenarios meanwhile, and it ends with one of the statuses with      *)
(* which GameControl's Start returns.                                      *)
(*                                                                         *)
(* A section in which the lock of the host is held and nothing waits is    *)
(* one action.  work is the exception: SoftEnd writes it without the lock, *)
(* so each of its reads is a step of its own.                              *)
(***************************************************************************)
EXTENDS Naturals, Sequences, Functions

CONSTANTS Address,        \* where a ScenarioSet can be
          MaxQueueSize,   \* Configuration's values of these names
          MaxExecTrials,
          Outcomes,       \* the statuses with which games end
          MaySoftEnd,     \* an admin may say %stop forced (SoftEnd)
          MayBeDestroyed  \* an admin may say %stop or %end (the destructor)

ASSUME LimitsAssumption == MaxQueueSize \in Nat /\ MaxExecTrials \in Nat
ASSUME OutcomesAssumption ==
    Outcomes \subseteq {"Lobby", "Load", "Run", "Failed"}
ASSUME EndingsAssumption == {MaySoftEnd, MayBeDestroyed} \subseteq BOOLEAN

Null   == "null"
Nobody == "nobody"

ASSUME AddressAssumption == Null \notin Address

VARIABLES
    work,        \* AutoHost::work
    fails,       \* AutoHost::Fails
    queue,       \* AutoHost::ScenQueue, addresses
    currentGame, \* AutoHost::CurrentGame: null, a live Game or a deleted one
    gameScen,    \* the copy that the game has made for itself
    gameStatus,  \* Game::Status once Start has returned
    scn,         \* the local variable of Work
    live,        \* the heap: addresses of ScenarioSets not yet deleted
    hostLock,    \* who holds the host's StatusLocks for writing
    gameLock,    \* the same for the game's
    freed,       \* the AutoHost itself is deleted
    pc,          \* where the worker and the destroyer are
    alive,       \* FALSE once a signal has killed the controller
    faults,      \* history: the invalid accesses made so far
    streak,      \* history: failed games since the last one that did not fail
    replayed     \* history: a played scenario has been put in the queue again

vars == <<work, fails, queue, currentGame, gameScen, gameStatus, scn, live,
          hostLock, gameLock, freed, pc, alive, faults, streak, replayed>>

gameVars == <<currentGame, gameScen, gameStatus>>

history == <<alive, faults, streak, replayed>>

Pointer == Address \cup {Null}

Faults == {"freedScen", "nullGame", "freedGame", "freedHost"}

TypeOK == /\ work \in BOOLEAN
          /\ fails \in Nat
          /\ queue \in Seq(Address)
          /\ currentGame \in {Null, "live", "deleted"}
          /\ gameScen \in Pointer
          /\ gameStatus \in {"none"} \cup Outcomes
          /\ scn \in Pointer
          /\ live \subseteq Address
          /\ hostLock \in {Nobody, "worker", "destroyer"}
          /\ gameLock \in {Nobody, "worker"}
          /\ freed \in BOOLEAN
          /\ pc \in [worker : {"begin", "loop", "start", "play", "wish", "judge",
                               "ended"},
                     destroyer : {"idle", "called", "deleteGame", "awaitGame",
                                  "join", "gone"}]
          /\ alive \in BOOLEAN
          /\ faults \subseteq Faults
          /\ streak \in Nat
          /\ replayed \in BOOLEAN

\* The constructor has ended and the thread is created.
Init == /\ work = TRUE
        /\ fails = 0
        /\ queue = <<>>
        /\ currentGame = Null
        /\ gameScen = Null
        /\ gameStatus = "none"
        /\ scn = Null
        /\ live = {}
        /\ hostLock = Nobody
        /\ gameLock = Nobody
        /\ freed = FALSE
        /\ pc = [worker |-> "begin", destroyer |-> "idle"]
        /\ alive = TRUE
        /\ faults = {}
        /\ streak = 0
        /\ replayed = FALSE

-----------------------------------------------------------------------------
(* Helpers.                                                                *)

At(t, where) == alive /\ pc[t] = where

Goto(t, to) == pc' = [pc EXCEPT ![t] = to]

\* An invalid access kills the controller or goes unnoticed.
Fault(set) == /\ faults' = faults \cup set
              /\ IF set = {} THEN UNCHANGED alive ELSE alive' \in {TRUE, FALSE}

\* ~Game, as far as the heap is concerned.  Mutant: it keeps its scenario.
WithGame    == live
WithoutGame == live \ {gameScen}

\* Enqueue: there is room for one more.
HasRoom == Len(queue) < MaxQueueSize

-----------------------------------------------------------------------------
(* The worker.                                                             *)

\* Line 51.
Begin ==
    /\ At("worker", "begin")
    /\ hostLock = Nobody
    /\ hostLock' = "worker"
    /\ Goto("worker", "loop")
    /\ UNCHANGED <<work, fails, queue, gameVars, scn, live, gameLock, freed, history>>

\* Lines 54 to 59: the next scenario is the first of the queue or, if there
\* is none, a copy of one that the Configuration has chosen.
\* Mutant: the Configuration has none.
CandidatesOrNull == IF queue = <<>> THEN {Null} ELSE {Head(queue)}

Candidates == IF queue = <<>> THEN Address \ live ELSE {Head(queue)}

Taken(next) == IF queue = <<>> THEN live \cup {next} ELSE live

\* Mutant: the first entry stays in the queue.
LookAtNext(next) == scn' = next /\ UNCHANGED queue

TakeNext(next) == /\ scn' = next
                  /\ queue' = IF queue = <<>> THEN <<>> ELSE Tail(queue)

\* Line 60 compares addresses; its last condition is always true.
Repeats(next) == fails > 0 /\ next = scn

\* Mutant: the lock is given back.
SkipUnlocked ==
    /\ At("worker", "loop")
    /\ work
    /\ \E next \in Candidates : /\ Repeats(next)
                                /\ TakeNext(next)
                                /\ live' = Taken(next)
    /\ hostLock' = Nobody
    /\ UNCHANGED <<work, fails, gameVars, gameLock, freed, pc, history>>

SkipRepeated ==
    /\ At("worker", "loop")
    /\ work
    /\ \E next \in Candidates : /\ Repeats(next)
                                /\ TakeNext(next)
                                /\ live' = Taken(next)
    /\ UNCHANGED <<work, fails, gameVars, hostLock, gameLock, freed, pc, history>>

\* Lines 61 to 64: the last scenario is deleted, the new game gets a copy of
\* the next one.
NextGame ==
    /\ At("worker", "loop")
    /\ work
    /\ \E next \in Candidates :
          LET kept == Taken(next) \ {scn}
          IN  /\ ~Repeats(next)
              /\ TakeNext(next)
              /\ \E copy \in Address \ kept : /\ live' = kept \cup {copy}
                                              /\ gameScen' = copy
              /\ Fault(IF scn \in Taken(next) \cup {Null} /\ next \in kept
                       THEN {} ELSE {"freedScen"})
    /\ currentGame' = "live"
    /\ gameStatus' = "none"
    /\ hostLock' = Nobody
    /\ Goto("worker", "start")
    /\ UNCHANGED <<work, fails, gameLock, freed, streak, replayed>>

\* Line 65 reads CurrentGame after the lock is given back.
StartGame ==
    /\ At("worker", "start")
    /\ IF currentGame = "live"
       THEN /\ Goto("worker", "play")
            /\ UNCHANGED history
       ELSE /\ faults' = faults \cup {IF currentGame = Null THEN "nullGame"
                                                            ELSE "freedGame"}
            /\ alive' = FALSE
            /\ UNCHANGED <<pc, streak, replayed>>
    /\ UNCHANGED <<work, fails, queue, gameVars, scn, live, hostLock, gameLock, freed>>

\* A player types "%start": Game::Control takes the game's lock ...
PlayerCommand ==
    /\ At("worker", "play")
    /\ gameLock = Nobody
    /\ gameLock' = "worker"
    /\ Goto("worker", "wish")
    /\ UNCHANGED <<work, fails, queue, gameVars, scn, live, hostLock, freed, history>>

\* ... and, with it, calls Enqueue, which takes the host's.  The copy that it
\* offers becomes the queue's or is deleted.
Enqueue ==
    /\ At("worker", "wish")
    /\ hostLock = Nobody
    /\ \/ /\ HasRoom
          /\ \E copy \in Address \ live : /\ queue' = Append(queue, copy)
                                          /\ live' = live \cup {copy}
       \/ ~HasRoom /\ UNCHANGED <<queue, live>>
    /\ gameLock' = Nobody
    /\ Goto("worker", "play")
    /\ UNCHANGED <<work, fails, gameVars, scn, hostLock, freed, history>>

\* Start returns.  (The streak counts here, whatever Work does with it.)
GameOver ==
    /\ At("worker", "play")
    /\ gameStatus' \in Outcomes
    /\ streak' = IF gameStatus' = "Failed" THEN streak + 1 ELSE 0
    /\ Goto("worker", "judge")
    /\ UNCHANGED <<work, fails, queue, currentGame, gameScen, scn, live, hostLock,
                   gameLock, freed, alive, faults, replayed>>

\* Lines 66 and 67.
BreakOff ==
    /\ At("worker", "judge")
    /\ hostLock = Nobody
    /\ ~work
    /\ Goto("worker", "ended")
    /\ UNCHANGED <<work, fails, queue, gameVars, scn, live, hostLock, gameLock, freed,
                   history>>

\* Line 70.  Mutant: one more.
FailsExceeded(n) == n > MaxExecTrials
FailsReached(n)  == n >= MaxExecTrials

\* Lines 69 to 73: the host deletes itself, with the game; the queue is
\* forgotten.  The lock that Work then gives back is the freed object's.
GiveUp ==
    /\ At("worker", "judge")
    /\ hostLock = Nobody
    /\ work
    /\ gameStatus = "Failed"
    /\ FailsReached(fails + 1)
    /\ fails' = fails + 1
    /\ work' = FALSE
    /\ currentGame' = Null
    /\ live' = WithoutGame
    /\ freed' = TRUE
    /\ Fault({"freedHost"})
    /\ Goto("worker", "ended")
    /\ UNCHANGED <<queue, gameScen, gameStatus, scn, hostLock, gameLock, streak,
                   replayed>>

\* Lines 68 to 79: a scenario that has been played is queued again, as the
\* game's own copy, which goes with the game.  The pointer stays.
Judge ==
    /\ At("worker", "judge")
    /\ hostLock = Nobody
    /\ work
    /\ IF gameStatus = "Failed" THEN ~FailsReached(fails + 1) /\ fails' = fails + 1
                                ELSE fails' = 0
    /\ IF gameStatus \in {"Load", "Run"} /\ HasRoom
       THEN queue' = Append(queue, gameScen) /\ replayed' = TRUE
       ELSE UNCHANGED <<queue, replayed>>
    /\ live' = WithoutGame
    /\ currentGame' = "deleted"
    /\ hostLock' = "worker"
    /\ Goto("worker", "loop")
    /\ UNCHANGED <<work, gameScen, gameStatus, scn, gameLock, freed, alive, faults,
                   streak>>

\* The loop's condition fails; line 81.
Leave ==
    /\ At("worker", "loop")
    /\ ~work
    /\ hostLock' = Nobody
    /\ Goto("worker", "ended")
    /\ UNCHANGED <<work, fails, queue, gameVars, scn, live, gameLock, freed, history>>

WorkerStep == \/ Begin \/ SkipRepeated \/ NextGame \/ StartGame \/ PlayerCommand \/ Enqueue
              \/ GameOver \/ BreakOff \/ GiveUp \/ Judge \/ Leave

-----------------------------------------------------------------------------
(* The others.                                                             *)

\* Mutant: it takes the lock and keeps it.
SoftEndLocks ==
    /\ MaySoftEnd
    /\ alive /\ ~freed
    /\ work
    /\ hostLock = Nobody
    /\ work' = FALSE
    /\ hostLock' = "destroyer"
    /\ UNCHANGED <<fails, queue, gameVars, scn, live, gameLock, freed, pc, history>>

\* SoftEnd(false): one assignment, no lock.
SoftEnd ==
    /\ MaySoftEnd
    /\ alive /\ ~freed
    /\ work
    /\ work' = FALSE
    /\ UNCHANGED <<fails, queue, gameVars, scn, live, hostLock, gameLock, freed, pc,
                   history>>

\* The host was found in the list; its destructor is entered.
CallDestructor ==
    /\ MayBeDestroyed
    /\ At("destroyer", "idle")
    /\ ~freed
    /\ Goto("destroyer", "called")
    /\ UNCHANGED <<work, fails, queue, gameVars, scn, live, hostLock, gameLock, freed,
                   history>>

\* Lines 36 to 38.
StopWork ==
    /\ At("destroyer", "called")
    /\ ~freed
    /\ hostLock = Nobody
    /\ hostLock' = "destroyer"
    /\ work' = FALSE
    /\ Goto("destroyer", "deleteGame")
    /\ UNCHANGED <<fails, queue, gameVars, scn, live, gameLock, freed, history>>

\* The host has deleted itself between the search in the list and line 36.
StopFreed ==
    /\ At("destroyer", "called")
    /\ freed
    /\ faults' = faults \cup {"freedHost"}
    /\ alive' = FALSE
    /\ UNCHANGED <<work, fails, queue, gameVars, scn, live, hostLock, gameLock, freed,
                   pc, streak, replayed>>

\* Line 39, up to the wait in ~Game for the game's lock and, beyond, for
\* Control.
DeleteGame ==
    /\ At("destroyer", "deleteGame")
    /\ \/ /\ currentGame = "live"
          /\ gameLock = Nobody
          /\ Goto("destroyer", "awaitGame")
          /\ UNCHANGED <<gameVars, live, hostLock, history>>
       \/ /\ currentGame # "live"
          /\ Fault(IF currentGame = "deleted" THEN {"freedGame"} ELSE {})
          /\ currentGame' = Null
          /\ hostLock' = Nobody
          /\ Goto("destroyer", "join")
          /\ UNCHANGED <<gameScen, gameStatus, live, streak, replayed>>
    /\ UNCHANGED <<work, fails, queue, scn, gameLock, freed>>

\* Lines 39 to 41 once Control has returned or if it was never called.
GameDeleted ==
    /\ At("destroyer", "awaitGame")
    /\ pc.worker \notin {"play", "wish"}
    /\ live' = WithoutGame
    /\ currentGame' = Null
    /\ hostLock' = Nobody
    /\ Goto("destroyer", "join")
    /\ UNCHANGED <<work, fails, queue, gameScen, gameStatus, scn, gameLock, freed,
                   history>>

\* Lines 42 to 46.
Join ==
    /\ At("destroyer", "join")
    /\ At("worker", "ended")
    /\ freed' = TRUE
    /\ Goto("destroyer", "gone")
    /\ UNCHANGED <<work, fails, queue, gameVars, scn, live, hostLock, gameLock, history>>

DestroyerStep == \/ CallDestructor \/ StopWork \/ StopFreed \/ DeleteGame
                 \/ GameDeleted \/ Join

Next == WorkerStep \/ SoftEnd \/ DestroyerStep

Spec == Init /\ [][Next]_vars

(* A thread that can run does, and a game ends however many wishes its      *)
(* players have.  Nothing says that an admin ends the host.                 *)
FairSpec == /\ Spec
            /\ WF_vars(WorkerStep)
            /\ SF_vars(GameOver)
            /\ WF_vars(pc.destroyer # "idle" /\ DestroyerStep)

-----------------------------------------------------------------------------
(* Properties.                                                             *)

\* The live game's scenario, if there is a game.
Games == IF currentGame = "live" THEN {gameScen} ELSE {}

\* The worker's, once it has taken one.
Works == {scn} \ {Null}

(* Until a played scenario is queued again, every scenario has one owner,  *)
(* the queue (each of its entries a set of its own), the game or the       *)
(* worker, and only what has an owner is allocated: Work, Enqueue, the     *)
(* "%start" command and ~Game delete nothing twice and lose nothing.       *)
OneOwner ==
    ~replayed =>
        /\ live = Range(queue) \cup Games \cup Works
        /\ IsInjective(queue)
        /\ Range(queue) \cap (Games \cup Works) = {}
        /\ Games \cap Works = {}

(* Who finds the host's lock free finds no deleted game in CurrentGame, as *)
(* long as the host works: AutoHost::LockStatus, GetGame and the           *)
(* destructor follow the pointer.                                          *)
GamePointerValid ==
    hostLock = Nobody /\ work => currentGame # "deleted"

(* An AutoHost ends itself when MaxExecTrials games in a row have failed,  *)
(* and not before: a game that was played starts the count anew.           *)
GivesUpOnStreak ==
    /\ pc.worker \in {"start", "play", "wish"} => streak = 0 \/ streak < MaxExecTrials
    /\ freed /\ pc.destroyer = "idle" => streak > 0 /\ streak >= MaxExecTrials

(* Where invalid accesses come from: a freed scenario is only used after a *)
(* played one was queued again, a missing game only when the host is       *)
(* deleted before its game has begun, a game is only deleted twice after   *)
(* SoftEnd, and a host is only used after it has deleted itself.           *)
FaultsHaveCauses ==
    /\ "freedScen" \in faults => replayed
    /\ "nullGame" \in faults => pc.destroyer \in {"join", "gone"}
    /\ "freedGame" \in faults => MaySoftEnd /\ ~work
    /\ "freedHost" \in faults => streak >= MaxExecTrials

(* A host that is told to end softly, and not destroyed meanwhile, does    *)
(* end, after the game it is playing.                                      *)
SoftEndWorks ==
    [](pc.destroyer = "idle") => (~work ~> pc.worker = "ended" \/ ~alive)

(* src/GameControl.cpp:164 says of a scenario for the queue: "Make a Copy  *)
(* of it.", and line 190 that it is given back when the queue is full: the *)
(* queue owns what it holds.                                               *)
QueueOwnsItsScenarios == Range(queue) \subseteq live

(* src/AutoHost.cpp:42 says in the destructor: "And my own thread will end *)
(* when all that is done."                                                 *)
OwnThreadEnds == pc.destroyer = "deleteGame" ~> pc.worker = "ended" \/ ~alive
=============================================================================
