---------------------------- MODULE HostSession ----------------------------
(***************************************************************************)
(* What admins do with a host (UserControl::Work and PrintStatus in        *)
(* src/Control.cpp) while it goes from game to game and may be deleted:    *)
(* AutoHostList::Exists and CatchAndLock, AutoHost::LockStatus and         *)
(* UnlockStatus (src/AutoHost.cpp), and Game::SendMsg and ~Game            *)
(* (src/GameControl.cpp) as far as they lock.                              *)
(*                                                                         *)
(* Every command first looks, without any lock, at a host that may be gone *)
(* by then, and takes the game's lock before the host's; the host's own    *)
(* thread and the destructor take the host's before the game's.  The locks *)
(* are what module RWLock says of them.  What the host plays is in module  *)
(* AutoHost; here a game is an address, which the next game may get again. *)
(***************************************************************************)
EXTENDS Naturals, FiniteSets

CONSTANTS Admins,     \* the threads of the UserControls
          Games,      \* addresses of Game objects
          MaySoftEnd, \* an admin may say %stop forced (SoftEnd)
          MayStop     \* an admin may say %stop (the destructor)

ASSUME EndingsAssumption == {MaySoftEnd, MayStop} \subseteq BOOLEAN

Worker  == "worker"
Threads == {Worker} \cup Admins
Nobody  == "nobody"
Host    == "host"
Null    == "null"

ASSUME NamesAssumption == {Worker, Nobody} \cap Admins = {} /\ {Host, Null} \cap Games = {}

Locks == {Host} \cup Games

VARIABLES
    listed,   \* the host is in AutoHostList::Instances
    exists,   \* the AutoHost is not deleted
    work,     \* AutoHost::work
    current,  \* AutoHost::CurrentGame
    live,     \* the games that are not deleted
    lock,     \* lock[l]: readers (with their counts) and writer
    pc,       \* where each thread is
    doing,    \* doing[a]: the command, and how deep PrintStatus is in itself
    looked,   \* looked[a]: the CurrentGame that the lock or unlock follows
    alive,    \* FALSE once a signal has killed the controller
    faults,   \* history: the invalid accesses made so far
    raced     \* history: the host or its game was another, or gone, before
              \* somebody who had found it had it locked

vars == <<listed, exists, work, current, live, lock, pc, doing, looked, alive, faults,
          raced>>

host == <<listed, exists, work>>

TypeOK == /\ listed \in BOOLEAN
          /\ exists \in BOOLEAN
          /\ work \in BOOLEAN
          /\ current \in {Null} \cup Games
          /\ live \subseteq Games
          /\ lock \in [Locks -> [reads : [Admins -> Nat],
                                 writer : {Nobody} \cup Threads]]
          /\ pc \in [Threads -> {"begin", "loop", "play", "line", "wish", "judge", "delete",
                                 "giveUp", "ended", "idle", "look", "lockGame", "lockHost",
                                 "in", "unlock", "unlockHost", "destroy", "destroyGame",
                                 "awaitGame", "join"}]
          /\ doing \in [Admins -> {"text", "each", "all", "inner", "printed", "stop"}]
          /\ looked \in [Admins -> {Null} \cup Games]
          /\ alive \in BOOLEAN
          /\ faults \subseteq {"freedGame", "freedHost", "foreignUnlock"}
          /\ raced \in BOOLEAN

Unlocked == [reads |-> [a \in Admins |-> 0], writer |-> Nobody]

Init == /\ listed = TRUE
        /\ exists = TRUE
        /\ work = TRUE
        /\ current = Null
        /\ live = {}
        /\ lock = [l \in Locks |-> Unlocked]
        /\ pc = [t \in Threads |-> IF t = Worker THEN "begin" ELSE "idle"]
        /\ doing = [a \in Admins |-> "text"]
        /\ looked = [a \in Admins |-> Null]
        /\ alive = TRUE
        /\ faults = {}
        /\ raced = FALSE

-----------------------------------------------------------------------------
(* Locks and steps.                                                        *)

At(t, where) == alive /\ pc[t] = where

Goto(t, to) == pc' = [pc EXCEPT ![t] = to]

Reads(a, l) == lock[l].reads[a] > 0

MayRead(l) == lock[l].writer = Nobody

MayWrite(t, l) == /\ lock[l].writer \in {Nobody, t}
                  /\ \A a \in Admins \ {t} : ~Reads(a, l)

AddRead(a, l, n) == lock' = [lock EXCEPT ![l].reads[a] = n]

SetWriter(l, t) == lock' = [lock EXCEPT ![l].writer = t]

\* Between the search in the list and the lock on what was found.
Window(a) == pc[a] \in {"look", "lockGame", "lockHost", "destroy"}

\* t changes what the others may be looking at.
Changes(t) == raced' = (raced \/ \E a \in Admins \ {t} : Window(a))

\* Memory that is deleted is used: the end, or nothing comes of it.
Fault(what) == faults' = faults \cup {what} /\ alive' \in BOOLEAN

-----------------------------------------------------------------------------
(* The worker (AutoHost::Work), and Game::Start in it.                     *)

\* Lines 51 to 64, 66: the host's lock is taken for one game after another.
Begin ==
    /\ At(Worker, "begin")
    /\ MayWrite(Worker, Host)
    /\ SetWriter(Host, Worker)
    /\ Goto(Worker, "loop")
    /\ UNCHANGED <<host, current, live, doing, looked, alive, faults, raced>>

NextGame ==
    /\ At(Worker, "loop")
    /\ work
    /\ \E g \in Games \ live :
          /\ current' = g
          /\ live' = live \cup {g}
          /\ lock' = [lock EXCEPT ![g] = Unlocked, ![Host].writer = Nobody]
    /\ Goto(Worker, "play")
    /\ Changes(Worker)
    /\ UNCHANGED <<host, doing, looked, alive, faults>>

\* The loop's condition fails; line 81.  CurrentGame stays.
Leave ==
    /\ At(Worker, "loop")
    /\ ~work
    /\ SetWriter(Host, Nobody)
    /\ Goto(Worker, "ended")
    /\ UNCHANGED <<host, current, live, doing, looked, alive, faults, raced>>

\* Start and Control take the game's lock, for the launch and for each line.
GameLine ==
    /\ At(Worker, "play")
    /\ current \in live
    /\ MayWrite(Worker, current)
    /\ SetWriter(current, Worker)
    /\ Goto(Worker, "line")
    /\ UNCHANGED <<host, current, live, doing, looked, alive, faults, raced>>

\* Mutant of LineDone: the lock is kept.
LineKept ==
    /\ At(Worker, "line")
    /\ Goto(Worker, "play")
    /\ UNCHANGED <<host, current, live, lock, doing, looked, alive, faults, raced>>

LineDone ==
    /\ At(Worker, "line")
    /\ SetWriter(current, Nobody)
    /\ Goto(Worker, "play")
    /\ UNCHANGED <<host, current, live, doing, looked, alive, faults, raced>>

\* "%start" in the line: Enqueue, with the game's lock held.
Wish ==
    /\ At(Worker, "line")
    /\ Goto(Worker, "wish")
    /\ UNCHANGED <<host, current, live, lock, doing, looked, alive, faults, raced>>

Enqueue ==
    /\ At(Worker, "wish")
    /\ MayWrite(Worker, Host)
    /\ SetWriter(current, Nobody)
    /\ Goto(Worker, "play")
    /\ UNCHANGED <<host, current, live, doing, looked, alive, faults, raced>>

GameOver ==
    /\ At(Worker, "play")
    /\ Goto(Worker, "judge")
    /\ UNCHANGED <<host, current, live, lock, doing, looked, alive, faults, raced>>

\* Lines 66 and 67.
BreakOff ==
    /\ At(Worker, "judge")
    /\ MayWrite(Worker, Host)
    /\ ~work
    /\ Goto(Worker, "ended")
    /\ UNCHANGED <<host, current, live, lock, doing, looked, alive, faults, raced>>

\* Lines 66 to 78; or lines 69 to 72 and, of the destructor, 36 to 38.  (That
\* Work then unlocks the freed host is in module AutoHost.)
\* Mutant: the host is not locked.
JudgeUnlocked ==
    /\ At(Worker, "judge")
    /\ MayWrite(Worker, Host)
    /\ work
    /\ Goto(Worker, "delete")
    /\ UNCHANGED <<host, current, live, lock, doing, looked, alive, faults, raced>>

Judge ==
    /\ At(Worker, "judge")
    /\ MayWrite(Worker, Host)
    /\ work
    /\ SetWriter(Host, Worker)
    /\ \/ Goto(Worker, "delete") /\ UNCHANGED <<host, raced>>
       \/ /\ Goto(Worker, "giveUp")
          /\ listed' = FALSE
          /\ work' = FALSE
          /\ UNCHANGED exists
          /\ Changes(Worker)
    /\ UNCHANGED <<current, live, doing, looked, alive, faults>>

\* Line 79: ~Game takes the game's lock.  CurrentGame keeps its value.
DeletePlayed ==
    /\ At(Worker, "delete")
    /\ MayWrite(Worker, current)
    /\ live' = live \ {current}
    /\ lock' = [lock EXCEPT ![current] = Unlocked]
    /\ Goto(Worker, "loop")
    /\ Changes(Worker)
    /\ UNCHANGED <<host, current, doing, looked, alive, faults>>

\* Lines 39 to 46 in the worker itself.
DeleteThis ==
    /\ At(Worker, "giveUp")
    /\ MayWrite(Worker, current)
    /\ live' = live \ {current}
    /\ current' = Null
    /\ exists' = FALSE
    /\ lock' = [lock EXCEPT ![current] = Unlocked, ![Host] = Unlocked]
    /\ Goto(Worker, "ended")
    /\ Changes(Worker)
    /\ UNCHANGED <<listed, work, doing, looked, alive, faults>>

WorkerStep == \/ Begin \/ NextGame \/ Leave \/ GameLine \/ LineDone \/ Wish \/ Enqueue
              \/ GameOver \/ BreakOff \/ Judge \/ DeletePlayed \/ DeleteThis

-----------------------------------------------------------------------------
(* Commands.                                                               *)

Commands == {"text", "each", "all"} \cup (IF MayStop THEN {"stop"} ELSE {})

\* Text for the game, %sel (each), %status (all) and %stop: the host is found
\* in the list, without a lock.
Command(a) ==
    /\ At(a, "idle")
    /\ listed
    /\ \E c \in Commands : doing' = [doing EXCEPT ![a] = c]
    /\ Goto(a, "look")
    /\ UNCHANGED <<host, current, live, lock, looked, alive, faults, raced>>

\* %stop forced.
SoftEnd(a) ==
    /\ At(a, "idle")
    /\ MaySoftEnd
    /\ listed /\ exists /\ work
    /\ current # Null
    /\ work' = FALSE
    /\ UNCHANGED <<listed, exists, current, live, lock, pc, doing, looked, alive, faults,
                   raced>>

\* What comes first of AutoHost::LockStatus, line 105, and GetGame in %stop.
Look(a) ==
    /\ At(a, "look")
    /\ exists
    /\ looked' = [looked EXCEPT ![a] = current]
    /\ raced' = (raced \/ current \notin live \cup {Null})
    /\ Goto(a, IF doing[a] = "stop" THEN (IF current = Null THEN "idle" ELSE "destroy")
               ELSE (IF current = Null THEN "lockHost" ELSE "lockGame"))
    /\ UNCHANGED <<host, current, live, lock, doing, alive, faults>>

\* Line 105: the game's lock.  Mutant: it is not taken.
SkipLock(a) ==
    /\ At(a, "lockGame")
    /\ Goto(a, "lockHost")
    /\ UNCHANGED <<host, current, live, lock, doing, looked, alive, faults, raced>>

LockGame(a) ==
    /\ At(a, "lockGame")
    /\ \/ /\ looked[a] \in live
          /\ MayRead(looked[a])
          /\ AddRead(a, looked[a], lock[looked[a]].reads[a] + 1)
          /\ UNCHANGED <<alive, faults>>
       \/ /\ looked[a] \notin live
          /\ Fault("freedGame")
          /\ UNCHANGED lock
    /\ Goto(a, "lockHost")
    /\ UNCHANGED <<host, current, live, doing, looked, raced>>

\* Line 106.
LockHost(a) ==
    /\ At(a, "lockHost")
    /\ exists
    /\ MayRead(Host)
    /\ AddRead(a, Host, lock[Host].reads[a] + 1)
    /\ Goto(a, "in")
    /\ UNCHANGED <<host, current, live, doing, looked, alive, faults, raced>>

\* The host is deleted: its members and its lock are used all the same.
UseFreedHost(a) ==
    /\ alive
    /\ pc[a] \in {"look", "lockHost", "destroy", "join"}
    /\ ~exists
    /\ Fault("freedHost")
    /\ Goto(a, "idle")
    /\ UNCHANGED <<host, current, live, lock, doing, looked, raced>>

\* %status calls PrintStatus for the host that it has locked, which looks for
\* it in the list and locks it again.
PrintEach(a) ==
    /\ At(a, "in")
    /\ doing[a] = "all"
    /\ doing' = [doing EXCEPT ![a] = IF listed THEN "inner" ELSE "printed"]
    /\ Goto(a, IF listed THEN "look" ELSE "unlock")
    /\ UNCHANGED <<host, current, live, lock, looked, alive, faults, raced>>

\* The game's name is read, or SendMsg takes the game's lock for writing and
\* gives it back before it writes to the engine.
UseGame(a) ==
    /\ At(a, "in")
    /\ doing[a] \in {"text", "each", "inner"}
    /\ \/ /\ current \in live \cup {Null}
          /\ doing[a] = "text" /\ current # Null => MayWrite(a, current)
          /\ UNCHANGED <<alive, faults>>
       \/ current \notin live \cup {Null} /\ Fault("freedGame")
    /\ Goto(a, "unlock")
    /\ UNCHANGED <<host, current, live, lock, doing, looked, raced>>

\* Line 110: what is CurrentGame now is unlocked.  If it was never locked the
\* search runs off the list, or the count of a reader who has gone passes 0.
\* Mutant: it is not unlocked.
KeepGame(a) ==
    /\ At(a, "unlock")
    /\ Goto(a, "unlockHost")
    /\ UNCHANGED <<host, current, live, lock, doing, looked, alive, faults, raced>>

UnlockGame(a) ==
    /\ At(a, "unlock")
    /\ \/ current = Null /\ UNCHANGED <<lock, alive, faults>>
       \/ /\ current \in live
          /\ Reads(a, current)
          /\ AddRead(a, current, lock[current].reads[a] - 1)
          /\ UNCHANGED <<alive, faults>>
       \/ /\ current \in live
          /\ ~Reads(a, current)
          /\ Fault("foreignUnlock")
          /\ lock' = IF alive' THEN [lock EXCEPT ![current].reads[a] = 1] ELSE lock
       \/ /\ current \notin live \cup {Null}
          /\ Fault("freedGame")
          /\ UNCHANGED lock
    /\ Goto(a, "unlockHost")
    /\ UNCHANGED <<host, current, live, doing, looked, raced>>

\* Line 111, and back to %status or to the next command.
UnlockHost(a) ==
    /\ At(a, "unlockHost")
    /\ AddRead(a, Host, lock[Host].reads[a] - 1)
    /\ Goto(a, IF doing[a] = "inner" THEN "unlock" ELSE "idle")
    /\ doing' = [doing EXCEPT ![a] = IF @ = "inner" THEN "printed" ELSE @]
    /\ UNCHANGED <<host, current, live, looked, alive, faults, raced>>

-----------------------------------------------------------------------------
(* The destructor, in the thread of the admin who typed %stop.             *)

\* Lines 36 to 38.
StopWork(a) ==
    /\ At(a, "destroy")
    /\ exists
    /\ MayWrite(a, Host)
    /\ SetWriter(Host, a)
    /\ work' = FALSE
    /\ listed' = FALSE
    /\ Changes(a)
    /\ Goto(a, "destroyGame")
    /\ UNCHANGED <<exists, current, live, doing, looked, alive, faults>>

\* Line 39: ~Game takes the game's lock, ends the engine and gives it back.
EndGame(a) ==
    /\ At(a, "destroyGame")
    /\ current \in live
    /\ MayWrite(a, current)
    /\ Goto(a, "awaitGame")
    /\ UNCHANGED <<host, current, live, lock, doing, looked, alive, faults, raced>>

\* Lines 39 to 41, without a game, or with one that the worker has deleted.
NoGame(a) ==
    /\ At(a, "destroyGame")
    /\ current \notin live
    /\ IF current = Null THEN UNCHANGED <<alive, faults>> ELSE Fault("freedGame")
    /\ current' = Null
    /\ SetWriter(Host, Nobody)
    /\ Goto(a, "join")
    /\ UNCHANGED <<host, live, doing, looked, raced>>

\* The rest of ~Game, once Control has returned; lines 40 and 41.
GameDeleted(a) ==
    /\ At(a, "awaitGame")
    /\ pc[Worker] \notin {"play", "line", "wish"}
    /\ MayWrite(a, current)
    /\ live' = live \ {current}
    /\ current' = Null
    /\ lock' = [lock EXCEPT ![current] = Unlocked, ![Host].writer = Nobody]
    /\ Changes(a)
    /\ Goto(a, "join")
    /\ UNCHANGED <<host, doing, looked, alive, faults>>

\* Lines 42 to 46.
Join(a) ==
    /\ At(a, "join")
    /\ exists
    /\ pc[Worker] = "ended"
    /\ MayWrite(a, Host)
    /\ exists' = FALSE
    /\ lock' = [lock EXCEPT ![Host] = Unlocked]
    /\ Changes(a)
    /\ Goto(a, "idle")
    /\ UNCHANGED <<listed, work, current, live, doing, looked, alive, faults>>

-----------------------------------------------------------------------------

AdminStep(a) == \/ Look(a) \/ LockGame(a) \/ LockHost(a) \/ UseFreedHost(a)
                \/ PrintEach(a) \/ UseGame(a) \/ UnlockGame(a) \/ UnlockHost(a)
                \/ StopWork(a) \/ EndGame(a) \/ NoGame(a) \/ GameDeleted(a) \/ Join(a)

Next == WorkerStep \/ \E a \in Admins : Command(a) \/ SoftEnd(a) \/ AdminStep(a)

Spec == Init /\ [][Next]_vars

\* Somebody deletes the game: its engine has been killed.
Killed == \E a \in Admins : pc[a] = "awaitGame"

(* A thread that can run does.  Engines print lines and end when they like *)
(* and at the latest when they are killed, and admins type when they like. *)
FairSpec == /\ Spec
            /\ WF_vars(\/ Begin \/ NextGame \/ Leave \/ LineDone \/ Enqueue \/ BreakOff
                       \/ Judge \/ DeletePlayed \/ DeleteThis)
            /\ WF_vars(Killed /\ GameOver)
            /\ \A a \in Admins : WF_vars(AdminStep(a))

-----------------------------------------------------------------------------
(* Properties.                                                             *)

\* From LockStatus to UnlockStatus a host keeps its game, and nobody deletes
\* it: what PrintStatus and the text of an admin rely on (Control.cpp, lines
\* 69 to 73 and 82 to 85).
GamePinned ==
    [][\A a \in Admins : Reads(a, Host) /\ Reads(a, Host)' =>
           /\ current' = current
           /\ current \in live => current \in live']_vars

\* AutoHost.cpp, line 177, fears for the host between Exists and LockStatus.
\* It is right, and its game has the same window: but nothing that is deleted
\* is used, and nothing unlocked that was not locked, unless the host or its
\* game has changed just there or its game had been deleted before.
OnlyTheWindow == faults # {} => raced

\* And without that, who has no command under way has nothing locked.
LocksPaired ==
    ~raced => \A a \in Admins : pc[a] = "idle" =>
        \A l \in Locks : ~Reads(a, l) /\ lock[l].writer # a

HasGame(a) == current # Null /\ Reads(a, current)

\* Two admins have the game locked for reading, and SendMsg of both waits to
\* write.
TwoUpgrades ==
    \E a, b \in Admins : /\ a # b
                         /\ \A c \in {a, b} : /\ pc[c] = "in"
                                              /\ doing[c] = "text"
                                              /\ HasGame(c)

\* An admin has the game locked and waits for the host; who has the host
\* locked waits to delete the game.
GameThenHost ==
    \E a \in Admins : /\ pc[a] = "lockHost"
                      /\ HasGame(a)
                      /\ lock[Host].writer # Nobody

\* A player's wish, with the game's lock, waits for the host; who has the
\* host locked waits for the game.
WishThenHost ==
    /\ pc[Worker] = "wish"
    /\ \E a \in Admins : \/ lock[Host].writer = a
                         \/ Reads(a, Host) /\ pc[a] \in {"in", "look", "lockGame"}

Embrace == TwoUpgrades \/ GameThenHost \/ WishThenHost

\* No line of the engine, no new command, and no end of a game but one that
\* somebody waits for.
QuietStep == /\ ~GameLine
             /\ \A a \in Admins : ~Command(a)
             /\ GameOver => Killed

\* These three are all: a command that is under way when engines and admins
\* fall silent comes to its end.  (A writer who is overtaken by new readers
\* without end waits without end: nothing in StatusLocks prevents it.)
CommandsEnd ==
    [](alive /\ faults = {} /\ ~Embrace) /\ <>[][QuietStep]_vars =>
        \A a \in Admins : pc[a] # "idle" ~> pc[a] = "idle"
=============================================================================
