------------------------------ MODULE MsgTimer ------------------------------
(***************************************************************************)
(* Timed messages (src/GameControl.cpp: SendMsg with seconds, MsgTimer and *)
(* the purge in Exit).  The control thread of a game puts a message for    *)
(* its own players in MsgQueue; one timer thread for all games sends it    *)
(* when its time has come; a game that is deleted takes its messages out.  *)
(*                                                                         *)
(* Two locks meet here.  The control thread has the lock of its game       *)
(* (handling a line of output) when it takes msgmutex to put the message   *)
(* in, and so has the destructor; the timer has msgmutex when SendMsg      *)
(* takes the lock of the game.                                             *)
(*                                                                         *)
(* MsgTimer locks msgmutex once, before its loop, but unlocks it at the    *)
(* end of every round.  From the second round on, pthread_cond_wait is     *)
(* called without the mutex.  That is undefined; what the pthread library  *)
(* does with a normal mutex is to unlock it, whoever has it, and to lock   *)
(* it properly on return.  msgmutex is therefore the name of its owner,    *)
(* and unlocking sets it to Nobody in any case.                            *)
(***************************************************************************)
EXTENDS Naturals, Sequences, FiniteSets, SequencesExt

CONSTANTS Games,        \* the games that exist
          MaxMessages,  \* bound: how many messages are sent in all
          MaxTime,      \* bound: when the clock stops
          Delays,       \* the seconds messages are delayed
          MayBeInvalid  \* the uninitialised ts.tv_nsec may be out of range

ASSUME BoundsAssumption == MaxMessages \in Nat /\ MaxTime \in Nat \ {0}
ASSUME DelaysAssumption == Delays \subseteq Nat
ASSUME InvalidAssumption == MayBeInvalid \in BOOLEAN

\* Who may have a lock; no time at all (time(NULL) is never 0).
Nobody       == <<>>
Timer        == <<"timer">>
Sender(g)    == <<"sender", g>>
Destroyer(g) == <<"destroyer", g>>
None         == 0

VARIABLES
    queue,     \* Game::MsgQueue: [id, stamp, game]
    msgmutex,  \* its owner, or Nobody
    gameLock,  \* gameLock[g]: who has the lock of game g for writing
    cleanup,   \* Game::cleanup
    now,       \* time(NULL)
    timer,     \* where MsgTimer is: pc, its index i, its local nextevent
    sender,    \* sender[g]: where the control thread of g is, its message
    destroyer, \* destroyer[g]: where the destructor of g is
    place,     \* place[g]: the index i of its Exit
    sent,      \* history: how many messages the games have begun to send
    done,      \* history: done[id]: how often the message was sent or purged
    stolen,    \* history: msgmutex was not with the thread that counted on it
    lost,      \* history: a signal met the timer between unlock and wait
    faults     \* history: the invalid accesses made so far

vars == <<queue, msgmutex, gameLock, cleanup, now, timer, sender, destroyer, place,
          sent, done, stolen, lost, faults>>

Message == [id : 1 .. MaxMessages, stamp : 1 .. MaxTime, game : Games]

Owners == {Nobody, Timer} \cup {Sender(g) : g \in Games} \cup {Destroyer(g) : g \in Games}

TypeOK == /\ queue \in Seq(Message)
          /\ msgmutex \in Owners
          /\ gameLock \in [Games -> Owners]
          /\ cleanup \in [Games -> BOOLEAN]
          /\ now \in 1 .. MaxTime
          /\ timer \in [pc : {"start", "test", "wait", "timedwait", "asleep",
                              "asleepTimed", "woken", "scan", "send"},
                        i : Nat, nextevent : Nat]
          /\ sender \in [Games -> [pc : {"idle", "lock", "push", "signal"},
                                id : 0 .. MaxMessages, stamp : 0 .. MaxTime]]
          /\ destroyer \in [Games -> {"idle", "lock", "purge", "purged", "gone"}]
          /\ place \in [Games -> Nat]
          /\ sent \in 0 .. MaxMessages
          /\ done \in [1 .. MaxMessages -> Nat]
          /\ stolen \in BOOLEAN
          /\ lost \in BOOLEAN
          /\ faults \subseteq {"outOfRange", "deadGame"}

Init == /\ queue = <<>>
        /\ msgmutex = Nobody
        /\ gameLock = [g \in Games |-> Nobody]
        /\ cleanup = [g \in Games |-> FALSE]
        /\ now = 1
        /\ timer = [pc |-> "start", i |-> 0, nextevent |-> None]
        /\ sender = [g \in Games |-> [pc |-> "idle", id |-> 0, stamp |-> 0]]
        /\ destroyer = [g \in Games |-> "idle"]
        /\ place = [g \in Games |-> 0]
        /\ sent = 0
        /\ done = [id \in 1 .. MaxMessages |-> 0]
        /\ stolen = FALSE
        /\ lost = FALSE
        /\ faults = {}

-----------------------------------------------------------------------------
(* The mutex and the condition variable.                                   *)

Lock(me) == msgmutex = Nobody /\ msgmutex' = me

Unlock(me) == /\ msgmutex' = Nobody
              /\ stolen' = (stolen \/ msgmutex \notin {me, Nobody})

\* Mutant: the signal is forgotten.
NoSignal == UNCHANGED <<timer, lost>>

\* pthread_cond_signal(&msgcond), with the timer's next state.
Signal ==
    /\ timer' = IF timer.pc \in {"asleep", "asleepTimed"}
                THEN [timer EXCEPT !.pc = "woken"] ELSE timer
    /\ lost' = (lost \/ timer.pc \in {"test", "wait", "timedwait"})

\* The messages with these properties count as done once more.
Finish(ids) == done' = [id \in DOMAIN done |-> IF id \in ids THEN done[id] + 1
                                                             ELSE done[id]]

\* Lines 287 and 403.  Mutant: one place too far.
EraseNext(k) == queue' = RemoveAt(queue, k + 1)
Erase(k)     == queue' = RemoveAt(queue, k)

-----------------------------------------------------------------------------
(* SendMsg(secs, ...), called by Control while it handles a line.          *)

\* Line 351.  Mutant: the test is forgotten.
MayQueueAlways(g) == TRUE
MayQueue(g)       == ~cleanup[g]

\* Line 352.  Mutant: the delay is taken for the time.
StampRelative(secs) == secs
Stamp(secs)         == now + secs

\* With the game's lock taken in line 128.
BeginSend(g) ==
    /\ sender[g].pc = "idle"
    /\ gameLock[g] = Nobody
    /\ destroyer[g] # "gone"
    /\ MayQueue(g)
    /\ gameLock' = [gameLock EXCEPT ![g] = Sender(g)]
    /\ sent < MaxMessages
    /\ sent' = sent + 1
    /\ \E d \in Delays :
          /\ now + d <= MaxTime
          /\ sender' = [sender EXCEPT ![g] = [pc |-> "lock", id |-> sent + 1,
                                              stamp |-> Stamp(d)]]
    /\ UNCHANGED <<queue, msgmutex, cleanup, now, timer, destroyer, place, done,
                   stolen, lost, faults>>

LockToPush(g) ==
    /\ sender[g].pc = "lock"
    /\ Lock(Sender(g))
    /\ sender' = [sender EXCEPT ![g].pc = "push"]
    /\ UNCHANGED <<queue, gameLock, cleanup, now, timer, destroyer, place, sent,
                   done, stolen, lost, faults>>

\* Lines 372 and 373.
Push(g) ==
    /\ sender[g].pc = "push"
    /\ queue' = Append(queue, [id |-> sender[g].id, stamp |-> sender[g].stamp, game |-> g])
    /\ Unlock(Sender(g))
    /\ sender' = [sender EXCEPT ![g].pc = "signal"]
    /\ UNCHANGED <<gameLock, cleanup, now, timer, destroyer, place, sent, done,
                   lost, faults>>

\* Line 374, and the end of the line's handling.
EndSend(g) ==
    /\ sender[g].pc = "signal"
    /\ Signal
    /\ sender' = [sender EXCEPT ![g].pc = "idle"]
    /\ gameLock' = [gameLock EXCEPT ![g] = Nobody]
    /\ UNCHANGED <<queue, msgmutex, cleanup, now, destroyer, place, sent, done,
                   stolen, faults>>

-----------------------------------------------------------------------------
(* The destructor of a game, with Exit.                                    *)

BeginExit(g) ==
    /\ destroyer[g] = "idle"
    /\ gameLock[g] = Nobody
    /\ gameLock' = [gameLock EXCEPT ![g] = Destroyer(g)]
    /\ cleanup' = [cleanup EXCEPT ![g] = TRUE]
    /\ destroyer' = [destroyer EXCEPT ![g] = "lock"]
    /\ UNCHANGED <<queue, msgmutex, now, timer, sender, place, sent, done,
                   stolen, lost, faults>>

\* Lines 282 and 283.
LockToPurge(g) ==
    /\ destroyer[g] = "lock"
    /\ Lock(Destroyer(g))
    /\ destroyer' = [destroyer EXCEPT ![g] = "purge"]
    /\ place' = [place EXCEPT ![g] = Len(queue)]
    /\ UNCHANGED <<queue, gameLock, cleanup, now, timer, sender, sent, done,
                   stolen, lost, faults>>

\* Line 285, of the message at place k.
IsFor(g, k) == queue[k].game = g

\* Lines 284 to 287: a message of this game is taken out.
PurgeNext(g) ==
    /\ destroyer[g] = "purge"
    /\ place[g] > 0
    /\ \/ /\ place[g] > Len(queue)
          /\ faults' = faults \cup {"outOfRange"}
          /\ UNCHANGED <<queue, done>>
       \/ /\ place[g] <= Len(queue)
          /\ IF IsFor(g, place[g])
             THEN Finish({queue[place[g]].id}) /\ Erase(place[g])
             ELSE UNCHANGED <<queue, done>>
          /\ UNCHANGED faults
    /\ place' = [place EXCEPT ![g] = @ - 1]
    /\ UNCHANGED <<msgmutex, gameLock, cleanup, now, timer, sender, destroyer,
                   sent, stolen, lost>>

\* Lines 289 and 302: the game's lock is given back.
EndPurge(g) ==
    /\ destroyer[g] = "purge"
    /\ place[g] = 0
    /\ Unlock(Destroyer(g))
    /\ gameLock' = [gameLock EXCEPT ![g] = Nobody]
    /\ destroyer' = [destroyer EXCEPT ![g] = "purged"]
    /\ UNCHANGED <<queue, cleanup, now, timer, sender, place, sent, done, lost,
                   faults>>

\* Lines 303 to 306: Control has returned, nobody has the game's lock.
FreeGame(g) ==
    /\ destroyer[g] = "purged"
    /\ sender[g].pc = "idle"
    /\ gameLock[g] = Nobody
    /\ destroyer' = [destroyer EXCEPT ![g] = "gone"]
    /\ UNCHANGED <<queue, msgmutex, gameLock, cleanup, now, timer, sender,
                   place, sent, done, stolen, lost, faults>>

-----------------------------------------------------------------------------
(* MsgTimer.                                                               *)

At(where) == timer.pc = where

TimerGoes(to) == timer' = [timer EXCEPT !.pc = to]

\* Line 388.
StartTimer ==
    /\ At("start")
    /\ Lock(Timer)
    /\ TimerGoes("test")
    /\ UNCHANGED <<queue, gameLock, cleanup, now, sender, destroyer, place,
                   sent, done, stolen, lost, faults>>

\* Line 391, without msgmutex from the second round on.
TestQueue ==
    /\ At("test")
    /\ TimerGoes(IF queue = <<>> THEN "wait" ELSE "timedwait")
    /\ UNCHANGED <<queue, msgmutex, gameLock, cleanup, now, sender, destroyer,
                   place, sent, done, stolen, lost, faults>>

\* Lines 394 and 395, up to falling asleep.
Wait ==
    /\ At("wait") \/ At("timedwait")
    /\ TimerGoes(IF At("wait") THEN "asleep" ELSE "asleepTimed")
    /\ Unlock(Timer)
    /\ UNCHANGED <<queue, gameLock, cleanup, now, sender, destroyer, place,
                   sent, done, lost, faults>>

\* Line 394 when tv_nsec is no number of nanoseconds: EINVAL, at once and
\* without a look at the mutex.
InvalidTime ==
    /\ At("timedwait")
    /\ MayBeInvalid
    /\ timer' = [pc |-> "scan", i |-> Len(queue), nextevent |-> None]
    /\ stolen' = (stolen \/ msgmutex # Timer)
    /\ UNCHANGED <<queue, msgmutex, gameLock, cleanup, now, sender, destroyer,
                   place, sent, done, lost, faults>>

TimeOut ==
    /\ At("asleepTimed")
    /\ timer.nextevent <= now
    /\ TimerGoes("woken")
    /\ UNCHANGED <<queue, msgmutex, gameLock, cleanup, now, sender, destroyer,
                   place, sent, done, stolen, lost, faults>>

\* The wait returns with the mutex; lines 398 and 399.
Wake ==
    /\ At("woken")
    /\ Lock(Timer)
    /\ timer' = [pc |-> "scan", i |-> Len(queue), nextevent |-> None]
    /\ UNCHANGED <<queue, gameLock, cleanup, now, sender, destroyer, place,
                   sent, done, stolen, lost, faults>>

\* Line 405.  Mutant: the latest one wins.
Latest(time, stamp)   == IF time = None \/ stamp >= time THEN stamp ELSE time
Earliest(time, stamp) == IF time = None \/ stamp <= time THEN stamp ELSE time

\* Lines 400 and 405: message i is due, or its time is remembered if no
\* earlier one is.
Look ==
    /\ At("scan")
    /\ timer.i > 0
    /\ \/ /\ timer.i > Len(queue)
          /\ faults' = faults \cup {"outOfRange"}
          /\ timer' = [timer EXCEPT !.i = @ - 1]
       \/ /\ timer.i <= Len(queue)
          /\ LET stamp == queue[timer.i].stamp
             IN  timer' = IF stamp <= now THEN [timer EXCEPT !.pc = "send"]
                          ELSE [timer EXCEPT !.i = @ - 1,
                                             !.nextevent = Earliest(@, stamp)]
          /\ UNCHANGED faults
    /\ UNCHANGED <<queue, msgmutex, gameLock, cleanup, now, sender, destroyer,
                   place, sent, done, stolen, lost>>

\* Lines 401 to 403: SendMsg gets the game's lock and gives it back; then the
\* message at place i goes.
SendDue ==
    /\ At("send")
    /\ \/ /\ timer.i > Len(queue)
          /\ faults' = faults \cup {"outOfRange"}
          /\ UNCHANGED <<queue, done>>
       \/ /\ timer.i <= Len(queue)
          /\ LET m == queue[timer.i]
             IN  /\ \/ destroyer[m.game] # "gone" /\ gameLock[m.game] = Nobody
                       /\ UNCHANGED faults
                    \/ destroyer[m.game] = "gone" /\ faults' = faults \cup {"deadGame"}
                 /\ Finish({m.id})
          /\ Erase(timer.i)
    /\ timer' = [timer EXCEPT !.pc = "scan", !.i = @ - 1]
    /\ UNCHANGED <<msgmutex, gameLock, cleanup, now, sender, destroyer, place,
                   sent, stolen, lost>>

\* Line 408.
EndRound ==
    /\ At("scan")
    /\ timer.i = 0
    /\ Unlock(Timer)
    /\ TimerGoes("test")
    /\ UNCHANGED <<queue, gameLock, cleanup, now, sender, destroyer, place,
                   sent, done, lost, faults>>

-----------------------------------------------------------------------------

Tick == /\ now < MaxTime
        /\ now' = now + 1
        /\ UNCHANGED <<queue, msgmutex, gameLock, cleanup, timer, sender,
                       destroyer, place, sent, done, stolen, lost, faults>>

TimerStep == \/ StartTimer \/ TestQueue \/ Wait \/ InvalidTime \/ TimeOut \/ Wake
             \/ Look \/ SendDue \/ EndRound

SenderStep(g) == LockToPush(g) \/ Push(g) \/ EndSend(g)

DestroyerStep(g) == LockToPurge(g) \/ PurgeNext(g) \/ EndPurge(g) \/ FreeGame(g)

Next == \/ TimerStep
        \/ Tick
        \/ \E g \in Games : \/ BeginSend(g) \/ SenderStep(g)
                            \/ BeginExit(g) \/ DestroyerStep(g)

Spec == Init /\ [][Next]_vars

(* Time goes on and every thread that can run does.  Whether a player's    *)
(* line makes the game send, and whether a game is deleted, is open.       *)
FairSpec == /\ Spec
            /\ WF_vars(TimerStep)
            /\ WF_vars(Tick)
            /\ \A g \in Games : WF_vars(SenderStep(g)) /\ WF_vars(DestroyerStep(g))

-----------------------------------------------------------------------------
(* Properties.                                                             *)

QueuedTimes(id) == Cardinality({k \in DOMAIN queue : queue[k].id = id})

InHand(id) == \E g \in Games : sender[g].pc \in {"lock", "push"} /\ sender[g].id = id

\* A message is with its sender, or in the queue once, or it has been sent or
\* purged once: neither the timer's scan backwards with erase (lines 399 to
\* 407) nor the purge of another game (284 to 289) skips or doubles one.
EveryMessageAccounted ==
    ~stolen => \A id \in 1 .. sent :
                  QueuedTimes(id) + done[id] = (IF InHand(id) THEN 0 ELSE 1)

\* The timer never calls SendMsg of a deleted game and never looks beyond the
\* end of the queue (lines 400 to 403): a game that is being deleted puts
\* nothing in after its purge, because both happen under its lock.
NoDeadRecipient ==
    ~stolen => /\ faults = {}
               /\ \A k \in DOMAIN queue :
                     destroyer[queue[k].game] \notin {"purged", "gone"}

\* No message in the queue is due before the time a sleeping timer wakes.
WakesInTime == CASE timer.pc = "asleep"      -> queue = <<>>
                 [] timer.pc = "asleepTimed" -> \A k \in DOMAIN queue :
                                                   timer.nextevent <= queue[k].stamp
                 [] OTHER                    -> TRUE

\* Unless a signal got lost, a timer that sleeps while nobody is about to
\* signal wakes in time for every message.
AlarmUpToDate ==
    ~lost /\ ~stolen /\ (\A g \in Games : sender[g].pc # "signal") => WakesInTime

\* The timer has msgmutex and waits for the lock of a game whose holder waits
\* for msgmutex.
Embrace == /\ timer.pc = "send"
           /\ timer.i \in DOMAIN queue
           /\ LET g == queue[timer.i].game
              IN  \/ gameLock[g] = Sender(g) /\ sender[g].pc = "lock"
                  \/ gameLock[g] = Destroyer(g) /\ destroyer[g] = "lock"

\* Every message that is put in is taken out, by the timer or by the purge of
\* its game ("Deleted in Game::MsgTimer", line 366).
EveryMessageDone == \A id \in 1 .. MaxMessages : (sent >= id) ~> (done[id] > 0)

\* A lost signal, a mutex unlocked by the wrong thread and the two locks
\* taken in opposite orders are the only things that keep a message in.
NothingElseDelays == [](~lost /\ ~stolen /\ ~Embrace) => EveryMessageDone
=============================================================================
