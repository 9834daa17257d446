------------------------- MODULE HostSessionProofs -------------------------
(***************************************************************************)
(* Proofs about HostSession, for any number of admins and games: what an   *)
(* admin holds of the host and of its game at each place of a command.     *)
(***************************************************************************)
EXTENDS HostSession, TLAPS

USE EndingsAssumption, NamesAssumption

WorkerPlaces == {"begin", "loop", "play", "line", "wish", "judge", "delete", "giveUp", "ended"}
AdminPlaces  == {"idle", "look", "lockGame", "lockHost", "in", "unlock", "unlockHost",
                 "destroy", "destroyGame", "awaitGame", "join"}

Inner(a) == doing[a] = "inner"

\* Past the search, up to the unlock of the host.
Printing == {"look", "lockGame", "lockHost", "in", "unlock", "unlockHost"}

(* Each command is where it can be.                                        *)
PlacesFit ==
    /\ pc[Worker] \in WorkerPlaces
    /\ \A a \in Admins :
          /\ pc[a] \in AdminPlaces
          /\ Inner(a) => pc[a] \in Printing
          /\ doing[a] = "printed" => pc[a] \in {"idle", "unlock", "unlockHost"}
          /\ pc[a] \in {"destroy", "destroyGame", "awaitGame", "join"} => doing[a] = "stop"
          /\ pc[a] \in {"lockGame", "lockHost", "in", "unlock", "unlockHost"} => doing[a] # "stop"

(* How often an admin has the host locked, and its game.                   *)
HostDepth(a) == (IF Inner(a) THEN 1 ELSE 0)
              + (IF pc[a] \in {"in", "unlock", "unlockHost"} THEN 1 ELSE 0)

GameDepth(a) == (IF Inner(a) THEN 1 ELSE 0)
              + (IF pc[a] \in {"lockHost", "in", "unlock"} THEN 1 ELSE 0)

(* Who has the host locked for writing.                                    *)
WritesHost(t) == IF t = Worker THEN pc[t] \in {"loop", "delete", "giveUp"}
                               ELSE pc[t] \in {"destroyGame", "awaitGame"}

HostLocked ==
    /\ \A a \in Admins : lock[Host].reads[a] = HostDepth(a)
    /\ \A t \in Threads : lock[Host].writer = t <=> WritesHost(t)
    /\ lock[Host].writer # Nobody => \A a \in Admins : HostDepth(a) = 0
    /\ \A a \in Admins : HostDepth(a) > 0 => exists
    /\ \A g \in Games : lock[g].writer \in {Nobody, Worker}

\* Somebody follows CurrentGame, or will.
HasLooked(a) == \/ Inner(a)
                \/ pc[a] \in {"lockGame", "lockHost", "in", "unlock", "unlockHost",
                              "destroy", "destroyGame", "awaitGame"}

Destroying(a) == pc[a] \in {"destroyGame", "awaitGame", "join"}

(* While the window has not been hit: the host is found as long as it is   *)
(* there, one admin at most deletes it, whoever follows its game finds     *)
(* it, and has it locked as often as he will unlock it.                    *)
Listing ==
    /\ listed => exists
    /\ ~listed => \A a \in Admins : ~Window(a)
    /\ pc[Worker] = "giveUp" => ~listed

OneDestroyer ==
    \A a \in Admins :
        Destroying(a) => /\ ~listed /\ exists /\ ~work
                         /\ pc[Worker] # "giveUp"
                         /\ \A b \in Admins : Destroying(b) => b = a

Followed ==
    /\ \A a \in Admins : HasLooked(a) => current \in live \cup {Null}
    /\ \A a \in Admins : pc[a] = "lockGame" => looked[a] = current /\ current # Null

GameLocked ==
    \A a \in Admins : \A g \in Games :
        lock[g].reads[a] = IF g = current THEN GameDepth(a) ELSE 0

Calm == faults = {} /\ Listing /\ OneDestroyer /\ Followed /\ GameLocked

Inv == TypeOK /\ PlacesFit /\ HostLocked /\ (~raced => Calm)

LockType == [Locks -> [reads : [Admins -> Nat], writer : {Nobody} \cup Threads]]

-----------------------------------------------------------------------------
(* What the operators of the module do.                                    *)

(* Another count of read locks.                                            *)
LEMMA AddReadEffect ==
  ASSUME TypeOK, NEW a \in Admins, NEW l \in Locks, NEW n \in Nat, AddRead(a, l, n)
  PROVE  /\ lock' \in LockType
         /\ \A m \in Locks : lock'[m].writer = lock[m].writer
         /\ \A m \in Locks, b \in Admins :
               lock'[m].reads[b] = IF m = l /\ b = a THEN n ELSE lock[m].reads[b]
<1>1. lock \in LockType
  BY DEF TypeOK, LockType
<1> QED
  BY <1>1 DEF AddRead, LockType

(* Another writer.                                                         *)
LEMMA SetWriterEffect ==
  ASSUME TypeOK, NEW l \in Locks, NEW t \in Threads \cup {Nobody}, SetWriter(l, t)
  PROVE  /\ lock' \in LockType
         /\ \A m \in Locks : lock'[m].writer = IF m = l THEN t ELSE lock[m].writer
         /\ \A m \in Locks, b \in Admins : lock'[m].reads[b] = lock[m].reads[b]
<1>1. lock \in LockType
  BY DEF TypeOK, LockType
<1> QED
  BY <1>1 DEF SetWriter, LockType

(* A thread goes on.                                                       *)
LEMMA GotoEffect ==
  ASSUME TypeOK, NEW t \in Threads, NEW to \in WorkerPlaces \cup AdminPlaces, Goto(t, to)
  PROVE  /\ pc' \in [Threads -> WorkerPlaces \cup AdminPlaces]
         /\ pc'[t] = to
         /\ \A u \in Threads \ {t} : pc'[u] = pc[u]
  BY DEF Goto, TypeOK, WorkerPlaces, AdminPlaces

(* The host's lock and the place of a thread tell each other.              *)
LEMMA WriterAlone ==
  ASSUME TypeOK, PlacesFit, HostLocked, NEW t \in Threads, WritesHost(t)
  PROVE  /\ lock[Host].writer = t
         /\ \A u \in Threads : WritesHost(u) => u = t
         /\ \A a \in Admins : HostDepth(a) = 0 /\ ~Inner(a)
                             /\ pc[a] \notin {"in", "unlock", "unlockHost"}
<1>1. lock[Host].writer = t /\ t # Nobody
  BY DEF HostLocked, Threads, Worker, Nobody
<1>2. \A u \in Threads : WritesHost(u) => u = t
  BY <1>1 DEF HostLocked
<1>3. \A a \in Admins : HostDepth(a) = 0
  BY <1>1 DEF HostLocked
<1> QED
  BY <1>1, <1>2, <1>3 DEF HostDepth

(* Who may write finds no reader but, perhaps, himself.                    *)
LEMMA NoReaders ==
  ASSUME TypeOK, PlacesFit, HostLocked, NEW t \in Threads, MayWrite(t, Host)
  PROVE  /\ \A a \in Admins \ {t} : HostDepth(a) = 0 /\ ~Inner(a)
                                    /\ pc[a] \notin {"in", "unlock", "unlockHost"}
         /\ \A u \in Threads \ {t} : ~WritesHost(u)
<1>1. ASSUME NEW a \in Admins \ {t} PROVE HostDepth(a) = 0
  BY DEF MayWrite, Reads, HostLocked, HostDepth
<1>2. \A u \in Threads \ {t} : ~WritesHost(u)
  BY DEF MayWrite, HostLocked, Threads, Worker, Nobody
<1> QED
  BY <1>1, <1>2 DEF HostDepth

(* Nobody else follows the game of a host that is locked for writing,      *)
(* unless he is in the window.                                             *)
LEMMA NoFollowers ==
  ASSUME TypeOK, PlacesFit, HostLocked, NEW t \in Threads, WritesHost(t),
         \A a \in Admins \ {t} : ~Window(a)
  PROVE  \A a \in Admins \ {t} : ~HasLooked(a) /\ GameDepth(a) = 0
<1> SUFFICES ASSUME NEW a \in Admins \ {t}
             PROVE  ~HasLooked(a) /\ GameDepth(a) = 0
  OBVIOUS
<1>1. ~Inner(a) /\ pc[a] \notin {"in", "unlock", "unlockHost"}
  BY WriterAlone
<1>2. pc[a] \notin {"destroyGame", "awaitGame"}
  <2>1. a \in Threads /\ a # Worker /\ ~WritesHost(a)
    BY WriterAlone DEF Threads
  <2> QED
    BY <2>1 DEF WritesHost
<1> QED
  BY <1>1, <1>2 DEF HasLooked, Window, GameDepth

(* The beginning.                                                          *)
LEMMA InitInv == Init => Inv
<1> SUFFICES ASSUME Init PROVE Inv
  OBVIOUS
<1>1. /\ \A l \in Locks : lock[l].writer = Nobody
      /\ \A l \in Locks, a \in Admins : lock[l].reads[a] = 0
      /\ lock \in LockType
  BY DEF Init, Unlocked, LockType
<1>2. pc \in [Threads -> WorkerPlaces \cup AdminPlaces] /\ pc[Worker] = "begin"
      /\ \A a \in Admins : pc[a] = "idle" /\ doing[a] = "text"
  BY DEF Init, Threads, WorkerPlaces, AdminPlaces
<1>3. TypeOK
  BY <1>1, <1>2 DEF Init, TypeOK, LockType, WorkerPlaces, AdminPlaces
<1>4. PlacesFit
  BY <1>2 DEF PlacesFit, WorkerPlaces, AdminPlaces, Inner
<1>5. HostLocked
  BY <1>1, <1>2 DEF HostLocked, HostDepth, Inner, WritesHost, Threads, Locks, Nobody, Worker
<1>6. Calm
  BY <1>1, <1>2 DEF Init, Calm, Listing, OneDestroyer, Followed, GameLocked, GameDepth, Inner,
     Window, Destroying, HasLooked, Locks
<1> QED
  BY <1>3, <1>4, <1>5, <1>6 DEF Inv

-----------------------------------------------------------------------------
(* The worker.                                                             *)

(* It goes on, and at most some writers change.                            *)
LEMMA WorkerMoves ==
  ASSUME Inv, NEW to \in WorkerPlaces \ {"giveUp"}, Goto(Worker, to),
         UNCHANGED <<host, current, live, doing, looked, faults, raced>>,
         alive' \in BOOLEAN, lock' \in LockType,
         \A l \in Locks, a \in Admins : lock'[l].reads[a] = lock[l].reads[a],
         \A g \in Games : lock'[g].writer \in {Nobody, Worker},
         \/ lock'[Host].writer = lock[Host].writer /\ (WritesHost(Worker)' <=> WritesHost(Worker))
         \/ lock'[Host].writer = Worker /\ WritesHost(Worker)' /\ MayWrite(Worker, Host)
         \/ lock'[Host].writer = Nobody /\ ~WritesHost(Worker)' /\ WritesHost(Worker)
  PROVE  Inv'
<1> USE DEF Inv
<1>1. /\ pc' \in [Threads -> WorkerPlaces \cup AdminPlaces] /\ pc'[Worker] = to
      /\ \A a \in Admins : pc'[a] = pc[a] /\ (Inner(a)' <=> Inner(a))
                          /\ HostDepth(a)' = HostDepth(a) /\ GameDepth(a)' = GameDepth(a)
                          /\ (HasLooked(a)' <=> HasLooked(a)) /\ (Window(a)' <=> Window(a))
                          /\ (Destroying(a)' <=> Destroying(a))
                          /\ (WritesHost(a)' <=> WritesHost(a))
  <2>1. /\ pc' \in [Threads -> WorkerPlaces \cup AdminPlaces] /\ pc'[Worker] = to
        /\ \A a \in Admins : pc'[a] = pc[a]
    BY GotoEffect DEF Threads
  <2> QED
    BY <2>1 DEF Inner, HostDepth, GameDepth, HasLooked, Window, Destroying, WritesHost
<1>2. TypeOK'
  BY <1>1 DEF TypeOK, LockType, WorkerPlaces, AdminPlaces, host
<1>3. PlacesFit'
  BY <1>1 DEF PlacesFit
<1>4. HostLocked'
  <2>1. \A a \in Admins : lock'[Host].reads[a] = HostDepth(a)'
    BY <1>1 DEF HostLocked, Locks
  <2>2. \A t \in Threads : lock'[Host].writer = t <=> WritesHost(t)'
    <3>1. \A t \in Threads : lock[Host].writer = t <=> WritesHost(t)
      BY DEF HostLocked
    <3>2. Worker \in Threads /\ \A a \in Admins : a \in Threads /\ a # Worker /\ a # Nobody
      BY DEF Threads
    <3>3. \A t \in Threads : t = Worker \/ t \in Admins
      BY DEF Threads
    <3>4. WritesHost(Worker) => \A a \in Admins : ~WritesHost(a)
      BY <3>1, <3>2
    <3>5. MayWrite(Worker, Host) => \A a \in Admins : ~WritesHost(a)
      BY <3>2, NoReaders
    <3>6. Worker # Nobody
      BY DEF Worker, Nobody
    <3> QED
      BY <1>1, <3>1, <3>2, <3>3, <3>4, <3>5, <3>6
  <2>3. lock'[Host].writer # Nobody => \A a \in Admins : HostDepth(a)' = 0
    <3>1. MayWrite(Worker, Host) => \A a \in Admins : HostDepth(a) = 0
      BY NoReaders DEF Threads
    <3> QED
      BY <1>1, <3>1 DEF HostLocked
  <2>4. \A a \in Admins : HostDepth(a)' > 0 => exists'
    BY <1>1 DEF HostLocked, host
  <2> QED
    BY <2>1, <2>2, <2>3, <2>4 DEF HostLocked
<1>5. ~raced' => Calm'
  <2> SUFFICES ASSUME ~raced PROVE Calm'
    OBVIOUS
  <2>1. Listing' /\ OneDestroyer'
    BY <1>1 DEF Calm, Listing, OneDestroyer, host
  <2>2. Followed'
    BY <1>1 DEF Calm, Followed
  <2>3. GameLocked'
    BY <1>1 DEF Calm, GameLocked, Locks
  <2> QED
    BY <2>1, <2>2, <2>3 DEF Calm
<1> QED
  BY <1>2, <1>3, <1>4, <1>5

(* The worker's steps that change nothing else.                            *)
LEMMA PlainWorkerKeeps ==
  ASSUME Inv, \/ Begin \/ Leave \/ GameLine \/ LineDone \/ Wish \/ Enqueue
              \/ GameOver \/ BreakOff
  PROVE  Inv'
<1> USE DEF Inv
<1>1. /\ Worker \in Threads /\ Host \in Locks
      /\ current \in Games => current \in Locks /\ current # Host
      /\ \A g \in Games : g \in Locks /\ g # Host /\ lock[g].writer \in {Nobody, Worker}
      /\ lock \in LockType /\ alive \in BOOLEAN
  BY DEF Threads, Locks, HostLocked, TypeOK, LockType
<1>2. CASE Begin
  <2>1. WritesHost(Worker)' /\ Goto(Worker, "loop") /\ "loop" \in WorkerPlaces \ {"giveUp"}
    BY <1>1, <1>2, GotoEffect DEF Begin, WritesHost, WorkerPlaces
  <2>2. /\ lock' \in LockType
        /\ \A m \in Locks : lock'[m].writer = IF m = Host THEN Worker ELSE lock[m].writer
        /\ \A m \in Locks, b \in Admins : lock'[m].reads[b] = lock[m].reads[b]
    BY <1>1, <1>2, SetWriterEffect DEF Begin
  <2> QED
    BY <1>1, <1>2, <2>1, <2>2, WorkerMoves DEF Begin
<1>3. CASE Leave
  <2>1. /\ WritesHost(Worker) /\ ~WritesHost(Worker)' /\ Goto(Worker, "ended")
        /\ "ended" \in WorkerPlaces \ {"giveUp"}
    BY <1>1, <1>3, GotoEffect DEF Leave, At, WritesHost, WorkerPlaces
  <2>2. /\ lock' \in LockType
        /\ \A m \in Locks : lock'[m].writer = IF m = Host THEN Nobody ELSE lock[m].writer
        /\ \A m \in Locks, b \in Admins : lock'[m].reads[b] = lock[m].reads[b]
    BY <1>1, <1>3, SetWriterEffect DEF Leave
  <2> QED
    BY <1>1, <1>3, <2>1, <2>2, WorkerMoves DEF Leave
<1>4. CASE GameLine \/ LineDone \/ Wish \/ Enqueue \/ GameOver \/ BreakOff
  <2>1. PICK to \in {"play", "line", "wish", "judge", "ended"} : Goto(Worker, to)
    BY <1>4 DEF GameLine, LineDone, Wish, Enqueue, GameOver, BreakOff
  <2>2. /\ to \in WorkerPlaces \ {"giveUp"} /\ ~WritesHost(Worker) /\ ~WritesHost(Worker)'
    <3>1. pc'[Worker] = to /\ to \in WorkerPlaces \ {"giveUp"}
      BY <1>1, <2>1, GotoEffect DEF WorkerPlaces
    <3>2. pc[Worker] \in {"play", "line", "wish", "judge"}
      BY <1>4 DEF GameLine, LineDone, Wish, Enqueue, GameOver, BreakOff, At
    <3> QED
      BY <2>1, <3>1, <3>2 DEF WritesHost
  <2>3. /\ lock' \in LockType
        /\ \A l \in Locks, a \in Admins : lock'[l].reads[a] = lock[l].reads[a]
        /\ \A g \in Games : lock'[g].writer \in {Nobody, Worker}
        /\ lock'[Host].writer = lock[Host].writer
    <3>1. CASE UNCHANGED lock
      BY <1>1, <3>1
    <3>2. CASE current \in Games /\ \E t \in {Worker, Nobody} : SetWriter(current, t)
      <4>1. PICK t \in {Worker, Nobody} : SetWriter(current, t)
        BY <3>2
      <4> QED
        BY <1>1, <3>2, <4>1, SetWriterEffect
    <3>3. CASE current = Null /\ \E t \in {Worker, Nobody} : SetWriter(current, t)
      <4>1. lock' = lock
        BY <1>1, <3>3 DEF SetWriter, LockType, Locks, Null, Host
      <4> QED
        BY <1>1, <4>1
    <3>4. (\E t \in {Worker, Nobody} : SetWriter(current, t)) \/ UNCHANGED lock
      BY <1>4 DEF GameLine, LineDone, Wish, Enqueue, GameOver, BreakOff
    <3> QED
      BY <3>1, <3>2, <3>3, <3>4 DEF TypeOK
  <2>4. /\ UNCHANGED <<host, current, live, doing, looked, faults, raced>>
        /\ alive' \in BOOLEAN
    BY <1>1, <1>4 DEF GameLine, LineDone, Wish, Enqueue, GameOver, BreakOff
  <2> QED
    BY <2>1, <2>2, <2>3, <2>4, WorkerMoves
<1> QED
  BY <1>2, <1>3, <1>4

(* Another game: nobody follows the old one.                               *)
LEMMA NextGameKeeps == Inv /\ NextGame => Inv'
<1> SUFFICES ASSUME Inv, NextGame PROVE Inv'
  OBVIOUS
<1> USE DEF Inv
<1>1. PICK g \in Games \ live : /\ current' = g
                                /\ live' = live \cup {g}
                                /\ lock' = [lock EXCEPT ![g] = Unlocked, ![Host].writer = Nobody]
  BY DEF NextGame
<1>2. /\ Worker \in Threads /\ WritesHost(Worker)
      /\ pc' \in [Threads -> WorkerPlaces \cup AdminPlaces] /\ pc'[Worker] = "play"
      /\ \A a \in Admins : pc'[a] = pc[a] /\ doing'[a] = doing[a]
      /\ UNCHANGED <<listed, exists, work, doing, looked, alive, faults>>
  BY GotoEffect DEF Threads, NextGame, At, WritesHost, WorkerPlaces, host
<1>3. /\ lock' \in LockType
      /\ \A m \in Locks, a \in Admins :
            lock'[m].reads[a] = IF m = g THEN 0 ELSE lock[m].reads[a]
      /\ \A m \in Locks :
            lock'[m].writer = IF m \in {g, Host} THEN Nobody ELSE lock[m].writer
      /\ Host \in Locks /\ \A h \in Games : h \in Locks /\ h # Host
  <2>1. lock \in LockType /\ g \in Locks /\ Host \in Locks /\ g # Host
        /\ \A h \in Games : h \in Locks /\ h # Host
    BY DEF TypeOK, LockType, Locks
  <2>2. Unlocked \in [reads : [Admins -> Nat], writer : {Nobody} \cup Threads]
        /\ Unlocked.writer = Nobody /\ \A a \in Admins : Unlocked.reads[a] = 0
    BY DEF Unlocked
  <2> QED
    BY <1>1, <2>1, <2>2 DEF LockType
<1>4. TypeOK'
  BY <1>1, <1>2, <1>3 DEF TypeOK, LockType, WorkerPlaces, AdminPlaces, NextGame, Changes
<1>5. PlacesFit'
  BY <1>2 DEF PlacesFit, Inner, WorkerPlaces
<1>6. HostLocked'
  <2>1. \A a \in Admins : ~WritesHost(a)' /\ HostDepth(a)' = HostDepth(a) /\ HostDepth(a) = 0
    <3> SUFFICES ASSUME NEW a \in Admins
                 PROVE  ~WritesHost(a)' /\ HostDepth(a)' = HostDepth(a) /\ HostDepth(a) = 0
      OBVIOUS
    <3>1. a \in Threads /\ a # Worker /\ HostDepth(a) = 0 /\ ~WritesHost(a)
      BY <1>2, WriterAlone DEF Threads
    <3> QED
      BY <1>2, <3>1 DEF WritesHost, HostDepth, Inner
  <2>2. ~WritesHost(Worker)' /\ lock'[Host].writer = Nobody
    BY <1>2, <1>3 DEF WritesHost
  <2> QED
    BY <1>2, <1>3, <2>1, <2>2 DEF HostLocked, Threads, Nobody, Worker
<1>7. ~raced' => Calm'
  <2> SUFFICES ASSUME ~raced' PROVE Calm'
    OBVIOUS
  <2>1. Calm /\ \A a \in Admins : ~Window(a)
    BY DEF NextGame, Changes
  <2>2. \A a \in Admins : ~HasLooked(a) /\ GameDepth(a) = 0
    BY <1>2, <2>1, NoFollowers
  <2>3. Listing' /\ OneDestroyer'
    BY <1>2, <2>1 DEF Calm, Listing, OneDestroyer, Window, Destroying
  <2>4. Followed'
    BY <1>2, <2>2 DEF Followed, HasLooked, Inner
  <2>5. GameLocked'
    <3>1. \A a \in Admins : GameDepth(a)' = 0
      BY <1>2, <2>2 DEF GameDepth, Inner
    <3>2. \A a \in Admins : \A h \in Games : lock[h].reads[a] = 0
      BY <2>1, <2>2 DEF Calm, GameLocked
    <3> QED
      BY <1>3, <3>1, <3>2 DEF GameLocked
  <2> QED
    BY <1>2, <2>1, <2>3, <2>4, <2>5 DEF Calm
<1> QED
  BY <1>4, <1>5, <1>6, <1>7

(* The verdict; the host leaves the list if it gives up.                   *)
LEMMA JudgeKeeps == Inv /\ Judge => Inv'
<1> SUFFICES ASSUME Inv, Judge PROVE Inv'
  OBVIOUS
<1> USE DEF Inv
<1>1. PICK to \in {"delete", "giveUp"} :
         /\ Goto(Worker, to)
         /\ to = "delete" => listed' = listed /\ work' = work /\ raced' = raced
         /\ to = "giveUp" => listed' = FALSE /\ work' = FALSE /\ Changes(Worker)
         /\ exists' = exists
  BY DEF Judge, host
<1>2. /\ Worker \in Threads /\ Host \in Locks /\ work /\ MayWrite(Worker, Host)
      /\ pc' \in [Threads -> WorkerPlaces \cup AdminPlaces] /\ pc'[Worker] = to
      /\ WritesHost(Worker)'
      /\ \A a \in Admins : pc'[a] = pc[a] /\ doing'[a] = doing[a]
      /\ UNCHANGED <<current, live, doing, looked, alive, faults>>
      /\ raced => raced'
      /\ raced' \in BOOLEAN /\ listed' \in BOOLEAN /\ work' \in BOOLEAN
      /\ listed' => listed
  <2>1. Worker \in Threads /\ Host \in Locks /\ to \in WorkerPlaces \cup AdminPlaces
    BY DEF Threads, Locks, WorkerPlaces
  <2>2. /\ pc' \in [Threads -> WorkerPlaces \cup AdminPlaces] /\ pc'[Worker] = to
        /\ \A a \in Admins : pc'[a] = pc[a]
    BY <1>1, <2>1, GotoEffect DEF Threads
  <2>3. raced' \in BOOLEAN /\ (raced => raced')
    <3>1. CASE to = "delete"
      BY <1>1, <3>1 DEF TypeOK
    <3>2. CASE to = "giveUp"
      BY <1>1, <3>2 DEF Changes, TypeOK
    <3> QED
      BY <3>1, <3>2
  <2>4. listed' \in BOOLEAN /\ work' \in BOOLEAN /\ (listed' => listed)
    <3>1. CASE to = "delete"
      BY <1>1, <3>1 DEF TypeOK
    <3>2. CASE to = "giveUp"
      BY <1>1, <3>2 DEF TypeOK
    <3> QED
      BY <3>1, <3>2
  <2>5. MayWrite(Worker, Host)
    BY Zenon DEF Judge
  <2>6. work /\ UNCHANGED <<current, live, doing, looked, alive, faults>>
    BY Zenon DEF Judge
  <2> QED
    BY <2>1, <2>2, <2>3, <2>4, <2>5, <2>6 DEF WritesHost
<1>3. /\ lock' \in LockType
      /\ \A m \in Locks, a \in Admins : lock'[m].reads[a] = lock[m].reads[a]
      /\ \A m \in Locks : lock'[m].writer = IF m = Host THEN Worker ELSE lock[m].writer
      /\ \A h \in Games : h \in Locks /\ h # Host
  BY <1>2, SetWriterEffect DEF Judge, Locks
<1>4. TypeOK'
  BY <1>1, <1>2, <1>3 DEF TypeOK, LockType, WorkerPlaces, AdminPlaces
<1>5. PlacesFit'
  BY <1>2 DEF PlacesFit, Inner, WorkerPlaces
<1>6. \A a \in Admins : /\ a \in Threads /\ a # Worker /\ ~WritesHost(a) /\ ~WritesHost(a)'
                        /\ HostDepth(a)' = 0 /\ ~Inner(a)
  <2> SUFFICES ASSUME NEW a \in Admins
               PROVE  /\ a \in Threads /\ a # Worker /\ ~WritesHost(a) /\ ~WritesHost(a)'
                      /\ HostDepth(a)' = 0 /\ ~Inner(a)
    OBVIOUS
  <2>1. a \in Threads /\ a # Worker /\ HostDepth(a) = 0 /\ ~WritesHost(a) /\ ~Inner(a)
    BY <1>2, NoReaders DEF Threads
  <2> QED
    BY <1>2, <2>1 DEF WritesHost, HostDepth, Inner
<1>7. HostLocked'
  BY <1>1, <1>2, <1>3, <1>6, NoReaders DEF HostLocked, Threads, HostDepth, Inner
<1>8. ~raced' => Calm'
  <2> SUFFICES ASSUME ~raced' PROVE Calm'
    OBVIOUS
  <2>1. Calm
    BY <1>2
  <2>2. Listing'
    BY <1>1, <1>2, <2>1 DEF Calm, Listing, Window, Changes, host
  <2>3. OneDestroyer'
    BY <1>2, <1>1, <2>1 DEF Calm, OneDestroyer, Destroying
  <2>4. Followed'
    BY <1>2, <2>1 DEF Calm, Followed, HasLooked, Inner
  <2>5. GameLocked'
    BY <1>2, <1>3, <2>1 DEF Calm, GameLocked, GameDepth, Inner
  <2> QED
    BY <1>2, <2>1, <2>2, <2>3, <2>4, <2>5 DEF Calm
<1> QED
  BY <1>4, <1>5, <1>7, <1>8

(* The game is deleted, or the host with it.                               *)
LEMMA DeletesKeep == Inv /\ (DeletePlayed \/ DeleteThis) => Inv'
<1> SUFFICES ASSUME Inv, DeletePlayed \/ DeleteThis PROVE Inv'
  OBVIOUS
<1> USE DEF Inv
<1>1. /\ Worker \in Threads /\ Host \in Locks /\ WritesHost(Worker)
      /\ \E to \in {"loop", "ended"} : Goto(Worker, to)
      /\ live' = live \ {current} /\ Changes(Worker)
      /\ UNCHANGED <<listed, work, doing, looked, alive, faults>>
      /\ raced' \in BOOLEAN
      /\ \A h \in Games : h \in Locks /\ h # Host
      /\ lock \in LockType
  BY DEF Threads, Locks, DeletePlayed, DeleteThis, At, WritesHost, host, Changes, TypeOK, LockType
<1>2. /\ pc' \in [Threads -> WorkerPlaces \cup AdminPlaces]
      /\ pc'[Worker] \in {"loop", "ended"}
      /\ \A a \in Admins : pc'[a] = pc[a] /\ doing'[a] = doing[a]
  BY <1>1, GotoEffect DEF Threads, WorkerPlaces
<1>3. \A a \in Admins : /\ a \in Threads /\ a # Worker /\ ~WritesHost(a) /\ ~WritesHost(a)'
                        /\ HostDepth(a) = 0 /\ HostDepth(a)' = 0
  <2> SUFFICES ASSUME NEW a \in Admins
               PROVE  /\ a \in Threads /\ a # Worker /\ ~WritesHost(a) /\ ~WritesHost(a)'
                      /\ HostDepth(a) = 0 /\ HostDepth(a)' = 0
    OBVIOUS
  <2>1. a \in Threads /\ a # Worker /\ HostDepth(a) = 0 /\ ~WritesHost(a)
    BY <1>1, WriterAlone DEF Threads
  <2> QED
    BY <1>2, <2>1 DEF WritesHost, HostDepth, Inner
<1>4. \A a \in Admins : lock[Host].reads[a] = 0
  BY <1>3 DEF HostLocked
<1>5. /\ Unlocked \in [reads : [Admins -> Nat], writer : {Nobody} \cup Threads]
      /\ Unlocked.writer = Nobody /\ \A a \in Admins : Unlocked.reads[a] = 0
  BY DEF Unlocked
<1>6. /\ lock' \in LockType
      /\ \A a \in Admins : lock'[Host].reads[a] = 0
      /\ \A g \in Games, a \in Admins : lock'[g].reads[a] \in {0, lock[g].reads[a]}
      /\ \A g \in Games : lock'[g].writer \in {Nobody, Worker}
  <2>1. CASE DeletePlayed
    <3>1. lock' = [lock EXCEPT ![current] = Unlocked] /\ current # Host
      BY <2>1 DEF DeletePlayed, TypeOK, Null, Host
    <3> QED
      BY <1>1, <1>4, <1>5, <3>1 DEF LockType, HostLocked, Locks
  <2>2. CASE DeleteThis
    <3>1. lock' = [lock EXCEPT ![current] = Unlocked, ![Host] = Unlocked]
      BY <2>2 DEF DeleteThis
    <3> QED
      BY <1>1, <1>4, <1>5, <3>1 DEF LockType, HostLocked, Locks
  <2> QED
    BY <2>1, <2>2
<1>7. TypeOK'
  <2>1. current' \in {Null} \cup Games /\ exists' \in BOOLEAN
    BY DEF DeletePlayed, DeleteThis, host, TypeOK
  <2> QED
    BY <1>1, <1>2, <1>6, <2>1 DEF TypeOK, LockType, WorkerPlaces, AdminPlaces
<1>8. PlacesFit'
  BY <1>2 DEF PlacesFit, Inner, WorkerPlaces
<1>9. HostLocked'
  <2>1. \/ lock'[Host].writer = Worker /\ WritesHost(Worker)'
        \/ lock'[Host].writer = Nobody /\ ~WritesHost(Worker)'
    <3>1. CASE DeletePlayed
      <4>1. lock'[Host] = lock[Host]
        BY <1>1, <3>1 DEF DeletePlayed, LockType, TypeOK, Null, Host
      <4>2. lock[Host].writer = Worker
        BY <1>1, WriterAlone
      <4>3. pc'[Worker] = "loop"
        BY <1>1, <3>1, GotoEffect DEF DeletePlayed, WorkerPlaces
      <4> QED
        BY <4>1, <4>2, <4>3 DEF WritesHost
    <3>2. CASE DeleteThis
      <4>1. lock'[Host] = Unlocked
        BY <1>1, <1>5, <3>2 DEF DeleteThis, LockType
      <4>2. pc'[Worker] = "ended"
        BY <1>1, <3>2, GotoEffect DEF DeleteThis, WorkerPlaces
      <4> QED
        BY <1>5, <4>1, <4>2 DEF WritesHost
    <3> QED
      BY <3>1, <3>2
  <2> QED
    BY <1>3, <1>6, <2>1 DEF HostLocked, Threads, Nobody, Worker
<1>10. ~raced' => Calm'
  <2> SUFFICES ASSUME ~raced' PROVE Calm'
    OBVIOUS
  <2>1. Calm /\ \A a \in Admins : ~Window(a)
    BY <1>1 DEF Changes
  <2>2. \A a \in Admins : ~HasLooked(a) /\ GameDepth(a) = 0
    BY <1>1, <2>1, NoFollowers
  <2>3. /\ exists' = exists \/ pc[Worker] = "giveUp"
    BY DEF DeletePlayed, DeleteThis, At, host
  <2>4. Listing' /\ OneDestroyer'
    BY <1>1, <1>2, <2>1, <2>3 DEF Calm, Listing, OneDestroyer, Window, Destroying
  <2>5. Followed'
    BY <1>2, <2>1, <2>2 DEF Followed, HasLooked, Inner, Window
  <2>6. GameLocked'
    <3>1. \A a \in Admins : GameDepth(a)' = 0
      BY <1>2, <2>2 DEF GameDepth, Inner
    <3>2. \A a \in Admins : \A h \in Games : lock[h].reads[a] = 0
      BY <2>1, <2>2 DEF Calm, GameLocked
    <3> QED
      BY <1>6, <3>1, <3>2 DEF GameLocked
  <2> QED
    BY <1>1, <2>1, <2>4, <2>5, <2>6 DEF Calm
<1> QED
  BY <1>7, <1>8, <1>9, <1>10

-----------------------------------------------------------------------------
(* The admins.                                                             *)

Doings == {"text", "each", "all", "inner", "printed", "stop"}

(* What is said of the others does not change.                             *)
LEMMA OthersStay ==
  ASSUME TypeOK, NEW a \in Admins, NEW to \in AdminPlaces, Goto(a, to),
         \A b \in Admins \ {a} : doing'[b] = doing[b]
  PROVE  /\ pc' \in [Threads -> WorkerPlaces \cup AdminPlaces]
         /\ pc'[a] = to /\ pc'[Worker] = pc[Worker] /\ a \in Threads /\ a # Worker
         /\ Worker \in Threads
         /\ \A u \in Threads \ {a} : pc'[u] = pc[u] /\ (WritesHost(u)' <=> WritesHost(u))
         /\ \A b \in Admins \ {a} :
               /\ pc'[b] = pc[b] /\ b \in Threads /\ b # Worker
               /\ (Inner(b)' <=> Inner(b))
               /\ HostDepth(b)' = HostDepth(b) /\ GameDepth(b)' = GameDepth(b)
               /\ (HasLooked(b)' <=> HasLooked(b)) /\ (Window(b)' <=> Window(b))
               /\ (Destroying(b)' <=> Destroying(b))
<1>1. /\ pc' \in [Threads -> WorkerPlaces \cup AdminPlaces] /\ pc'[a] = to
      /\ \A u \in Threads \ {a} : pc'[u] = pc[u]
      /\ a \in Threads /\ a # Worker /\ Worker \in Threads
      /\ \A b \in Admins : b \in Threads /\ b # Worker
  BY GotoEffect DEF Threads
<1> QED
  BY <1>1 DEF Inner, HostDepth, GameDepth, HasLooked, Window, Destroying, WritesHost

\* PlacesFit, for one.
PlaceFits(a) ==
    /\ pc[a] \in AdminPlaces
    /\ Inner(a) => pc[a] \in Printing
    /\ doing[a] = "printed" => pc[a] \in {"idle", "unlock", "unlockHost"}
    /\ pc[a] \in {"destroy", "destroyGame", "awaitGame", "join"} => doing[a] = "stop"
    /\ pc[a] \in {"lockGame", "lockHost", "in", "unlock", "unlockHost"} => doing[a] # "stop"

(* A step in a command that leaves the host as it is, and its writer.      *)
LEMMA AdminMoves ==
  ASSUME Inv, NEW a \in Admins, NEW to \in AdminPlaces, Goto(a, to),
         doing' \in [Admins -> Doings], \A b \in Admins \ {a} : doing'[b] = doing[b],
         UNCHANGED <<listed, exists, work, current, live>>,
         lock' \in LockType, looked' \in [Admins -> {Null} \cup Games], alive' \in BOOLEAN,
         faults' \subseteq {"freedGame", "freedHost", "foreignUnlock"},
         raced' \in BOOLEAN, raced => raced',
         \A l \in Locks : lock'[l].writer = lock[l].writer,
         \A l \in Locks, b \in Admins \ {a} : lock'[l].reads[b] = lock[l].reads[b],
         lock'[Host].reads[a] = HostDepth(a)', WritesHost(a)' <=> WritesHost(a),
         HostDepth(a)' > 0 => exists /\ lock[Host].writer = Nobody,
         PlaceFits(a)',
         ~raced' => /\ faults' = faults
                    /\ Window(a)' => listed
                    /\ Destroying(a)' <=> Destroying(a)
                    /\ HasLooked(a)' => current \in live \cup {Null}
                    /\ to = "lockGame" => looked'[a] = current /\ current # Null
                    /\ \A b \in Admins \ {a} : looked'[b] = looked[b]
                    /\ \A g \in Games :
                          lock'[g].reads[a] = IF g = current THEN GameDepth(a)' ELSE 0
  PROVE  Inv'
<1> USE DEF Inv
<1>1. /\ pc' \in [Threads -> WorkerPlaces \cup AdminPlaces]
      /\ pc'[a] = to /\ pc'[Worker] = pc[Worker] /\ a \in Threads /\ a # Worker
      /\ \A u \in Threads \ {a} : pc'[u] = pc[u] /\ (WritesHost(u)' <=> WritesHost(u))
      /\ \A b \in Admins \ {a} :
            /\ pc'[b] = pc[b]
            /\ (Inner(b)' <=> Inner(b))
            /\ HostDepth(b)' = HostDepth(b) /\ GameDepth(b)' = GameDepth(b)
            /\ (HasLooked(b)' <=> HasLooked(b)) /\ (Window(b)' <=> Window(b))
            /\ (Destroying(b)' <=> Destroying(b))
  BY OthersStay
<1>2. TypeOK'
  BY <1>1 DEF TypeOK, LockType, WorkerPlaces, AdminPlaces, Doings
<1>3. PlacesFit'
  <2>1. ASSUME NEW b \in Admins \ {a} PROVE PlaceFits(b)'
    <3>1. PlaceFits(b)
      BY DEF PlacesFit, PlaceFits
    <3> QED
      BY <1>1, <3>1 DEF PlaceFits
  <2> QED
    BY <1>1, <2>1 DEF PlacesFit, PlaceFits
<1>4. HostLocked'
  <2>1. Host \in Locks /\ \A g \in Games : g \in Locks
    BY DEF Locks
  <2>2. \A b \in Admins : lock'[Host].reads[b] = HostDepth(b)'
    BY <1>1, <2>1 DEF HostLocked
  <2>3. \A t \in Threads : lock'[Host].writer = t <=> WritesHost(t)'
    BY <1>1, <2>1 DEF HostLocked
  <2>4. lock'[Host].writer # Nobody => \A b \in Admins : HostDepth(b)' = 0
    <3>1. HostDepth(a)' \in Nat
      BY DEF HostDepth
    <3> QED
      BY <1>1, <2>1, <3>1 DEF HostLocked
  <2>5. \A b \in Admins : HostDepth(b)' > 0 => exists'
    BY <1>1 DEF HostLocked
  <2>6. \A g \in Games : lock'[g].writer \in {Nobody, Worker}
    BY <2>1 DEF HostLocked
  <2> QED
    BY <2>2, <2>3, <2>4, <2>5, <2>6 DEF HostLocked
<1>5. ~raced' => Calm'
  <2> SUFFICES ASSUME ~raced' PROVE Calm'
    OBVIOUS
  <2>1. Calm
    OBVIOUS
  <2>2. Listing'
    BY <1>1, <2>1 DEF Calm, Listing
  <2>3. OneDestroyer'
    BY <1>1, <2>1 DEF Calm, OneDestroyer
  <2>4. Followed'
    BY <1>1, <2>1 DEF Calm, Followed
  <2>5. GameLocked'
    BY <1>1, <2>1 DEF Calm, GameLocked, Locks
  <2> QED
    BY <2>1, <2>2, <2>3, <2>4, <2>5 DEF Calm
<1> QED
  BY <1>2, <1>3, <1>4, <1>5

(* What every admin's step may count on.                                   *)
LEMMA AdminFacts ==
  ASSUME Inv, NEW a \in Admins
  PROVE  /\ lock \in LockType /\ doing \in [Admins -> Doings]
         /\ looked \in [Admins -> {Null} \cup Games] /\ alive \in BOOLEAN
         /\ faults \subseteq {"freedGame", "freedHost", "foreignUnlock"}
         /\ raced \in BOOLEAN /\ current \in {Null} \cup Games
         /\ a \in Threads /\ a # Worker /\ PlaceFits(a)
         /\ lock[Host].reads[a] = HostDepth(a) /\ HostDepth(a) \in Nat
         /\ HostDepth(a) > 0 => exists /\ lock[Host].writer = Nobody
         /\ Host \in Locks /\ \A g \in Games : g \in Locks /\ g # Host
         /\ ~raced => /\ faults = {} /\ (Window(a) => listed /\ exists)
                      /\ (Destroying(a) => exists)
                      /\ HasLooked(a) => current \in live \cup {Null}
                      /\ pc[a] = "lockGame" => looked[a] = current /\ current # Null
                      /\ \A g \in Games :
                            lock[g].reads[a] = IF g = current THEN GameDepth(a) ELSE 0
<1> USE DEF Inv
<1>1. /\ lock \in LockType /\ doing \in [Admins -> Doings]
      /\ looked \in [Admins -> {Null} \cup Games] /\ alive \in BOOLEAN
      /\ faults \subseteq {"freedGame", "freedHost", "foreignUnlock"}
      /\ raced \in BOOLEAN /\ current \in {Null} \cup Games
  BY DEF TypeOK, LockType, Doings
<1>2. /\ a \in Threads /\ a # Worker /\ Host \in Locks
      /\ \A g \in Games : g \in Locks /\ g # Host
  BY DEF Threads, Locks
<1>3. PlaceFits(a)
  BY DEF PlacesFit, PlaceFits
<1>4. HostDepth(a) \in Nat
  BY DEF HostDepth
<1>5. /\ lock[Host].reads[a] = HostDepth(a)
      /\ HostDepth(a) > 0 => exists /\ lock[Host].writer = Nobody
  BY <1>4 DEF HostLocked
<1>6. ~raced => /\ faults = {} /\ (Window(a) => listed /\ exists)
                /\ (Destroying(a) => exists)
                /\ HasLooked(a) => current \in live \cup {Null}
                /\ pc[a] = "lockGame" => looked[a] = current /\ current # Null
                /\ \A g \in Games :
                      lock[g].reads[a] = IF g = current THEN GameDepth(a) ELSE 0
  BY DEF Calm, Listing, OneDestroyer, Followed, GameLocked
<1> QED
  BY <1>1, <1>2, <1>3, <1>4, <1>5, <1>6

(* The search in the list, before anything is locked.                      *)
LEMMA CommandKeeps == \A a \in Admins : Inv /\ Command(a) => Inv'
<1> SUFFICES ASSUME NEW a \in Admins, Inv, Command(a) PROVE Inv'
  OBVIOUS
<1>1. PICK c \in Commands : doing' = [doing EXCEPT ![a] = c]
  BY DEF Command
<1>2. /\ pc[a] = "idle" /\ listed /\ Goto(a, "look")
      /\ UNCHANGED <<listed, exists, work, current, live, lock, looked, alive, faults, raced>>
  BY DEF Command, At, host
<1>3. c \in {"text", "each", "all", "stop"}
  BY DEF Commands
<1>4. /\ pc'[a] = "look" /\ doing'[a] = c /\ "look" \in AdminPlaces
      /\ doing' \in [Admins -> Doings] /\ \A b \in Admins \ {a} : doing'[b] = doing[b]
  <2>1. "look" \in AdminPlaces
    BY DEF AdminPlaces
  <2> QED
    BY <1>1, <1>2, <1>3, <2>1, AdminFacts, GotoEffect DEF Inv, Doings
<1>5. ~Inner(a) /\ ~Inner(a)' /\ HostDepth(a) = 0 /\ HostDepth(a)' = 0
      /\ GameDepth(a) = 0 /\ GameDepth(a)' = 0
  BY <1>2, <1>3, <1>4, AdminFacts DEF PlaceFits, Printing, Inner, HostDepth, GameDepth
<1>6. /\ ~WritesHost(a) /\ ~WritesHost(a)' /\ ~Destroying(a) /\ ~Destroying(a)'
      /\ ~HasLooked(a)' /\ PlaceFits(a)'
  BY <1>2, <1>3, <1>4, <1>5, AdminFacts
     DEF WritesHost, Destroying, HasLooked, PlaceFits, Printing, Inner, AdminPlaces
<1> QED
  BY <1>2, <1>4, <1>5, <1>6, AdminFacts, AdminMoves

(* The pointer to the game is read.                                        *)
LEMMA LookKeeps == \A a \in Admins : Inv /\ Look(a) => Inv'
<1> SUFFICES ASSUME NEW a \in Admins, Inv, Look(a) PROVE Inv'
  OBVIOUS
<1> DEFINE to == IF doing[a] = "stop" THEN (IF current = Null THEN "idle" ELSE "destroy")
                 ELSE (IF current = Null THEN "lockHost" ELSE "lockGame")
<1>1. /\ pc[a] = "look" /\ Goto(a, to) /\ looked' = [looked EXCEPT ![a] = current]
      /\ raced' = (raced \/ current \notin live \cup {Null})
      /\ UNCHANGED <<listed, exists, work, current, live, lock, doing, alive, faults>>
  BY DEF Look, At, host
<1>2. pc'[a] = to /\ to \in AdminPlaces /\ doing'[a] = doing[a] /\ doing[a] # "printed"
  <2>1. to \in AdminPlaces
    BY DEF AdminPlaces
  <2> QED
    BY <1>1, <2>1, AdminFacts, GotoEffect DEF Inv, PlaceFits
<1>3. /\ looked' \in [Admins -> {Null} \cup Games] /\ looked'[a] = current
      /\ \A b \in Admins \ {a} : looked'[b] = looked[b]
      /\ raced' \in BOOLEAN /\ (raced => raced')
      /\ ~raced' => current \in live \cup {Null}
  BY <1>1, AdminFacts
<1>4. /\ to \in {"idle", "destroy"} <=> doing[a] = "stop"
      /\ to \in {"lockHost", "lockGame"} <=> doing[a] # "stop"
      /\ to = "lockHost" <=> doing[a] # "stop" /\ current = Null
      /\ to = "lockGame" <=> doing[a] # "stop" /\ current # Null
  OBVIOUS
<1> HIDE DEF to
<1>5. /\ HostDepth(a)' = HostDepth(a) /\ PlaceFits(a)'
      /\ ~WritesHost(a) /\ ~WritesHost(a)' /\ ~Destroying(a) /\ ~Destroying(a)'
  BY <1>1, <1>2, <1>4, AdminFacts
     DEF HostDepth, PlaceFits, WritesHost, Destroying, Inner, Printing
<1>6. \A g \in Games : g = current => GameDepth(a)' = GameDepth(a)
  BY <1>1, <1>2, <1>4 DEF GameDepth, Inner, Null, NamesAssumption
<1>7. ~raced' => /\ Window(a)' => listed
                 /\ \A g \in Games : lock'[g].reads[a] = IF g = current THEN GameDepth(a)' ELSE 0
  BY <1>1, <1>3, <1>6, AdminFacts DEF Window
<1>8. to = "lockGame" => looked'[a] = current /\ current # Null
  BY <1>3, <1>4
<1> QED
  BY <1>1, <1>2, <1>3, <1>5, <1>7, <1>8, AdminFacts, AdminMoves

(* The game is locked.                                                     *)
LEMMA LockGameKeeps == \A a \in Admins : Inv /\ LockGame(a) => Inv'
<1> SUFFICES ASSUME NEW a \in Admins, Inv, LockGame(a) PROVE Inv'
  OBVIOUS
<1>1. /\ pc[a] = "lockGame" /\ Goto(a, "lockHost")
      /\ UNCHANGED <<listed, exists, work, current, live, doing, looked, raced>>
  BY DEF LockGame, At, host
<1>2. /\ pc'[a] = "lockHost" /\ doing'[a] = doing[a] /\ "lockHost" \in AdminPlaces
      /\ doing[a] \notin {"stop", "printed"}
  <2>1. "lockHost" \in AdminPlaces
    BY DEF AdminPlaces
  <2> QED
    BY <1>1, <2>1, AdminFacts, GotoEffect DEF Inv, PlaceFits
<1>3. /\ HostDepth(a)' = HostDepth(a) /\ GameDepth(a)' = GameDepth(a) + 1 /\ PlaceFits(a)'
      /\ ~WritesHost(a) /\ ~WritesHost(a)' /\ ~Destroying(a) /\ ~Destroying(a)'
      /\ HasLooked(a) /\ Window(a)
  BY <1>1, <1>2, AdminFacts
     DEF HostDepth, GameDepth, PlaceFits, WritesHost, Destroying, Inner, Printing, AdminPlaces,
         HasLooked, Window
<1>4. /\ lock' \in LockType /\ alive' \in BOOLEAN
      /\ faults' \subseteq {"freedGame", "freedHost", "foreignUnlock"}
      /\ \A l \in Locks : lock'[l].writer = lock[l].writer
      /\ \A l \in Locks, b \in Admins \ {a} : lock'[l].reads[b] = lock[l].reads[b]
      /\ lock'[Host].reads[a] = HostDepth(a)
      /\ looked[a] \in live =>
            /\ faults' = faults
            /\ \A g \in Games : lock'[g].reads[a] = lock[g].reads[a] + (IF g = looked[a] THEN 1 ELSE 0)
  <2>1. CASE looked[a] \in live
    <3>1. looked[a] \in Games /\ looked[a] \in Locks /\ looked[a] # Host
      BY <2>1, AdminFacts DEF Inv, TypeOK
    <3>2. lock[looked[a]].reads[a] + 1 \in Nat /\ \A g \in Games : lock[g].reads[a] \in Nat
      BY <3>1, AdminFacts DEF LockType
    <3>3. AddRead(a, looked[a], lock[looked[a]].reads[a] + 1) /\ UNCHANGED <<alive, faults>>
      BY <2>1 DEF LockGame
    <3> QED
      BY <3>1, <3>2, <3>3, AdminFacts, AddReadEffect DEF Inv
  <2>2. CASE looked[a] \notin live
    <3>1. Fault("freedGame") /\ UNCHANGED lock
      BY <2>2 DEF LockGame
    <3> QED
      BY <2>2, <3>1, AdminFacts DEF Fault
  <2> QED
    BY <2>1, <2>2
<1>5. ~raced => looked[a] = current /\ current \in live
  BY <1>1, <1>3, AdminFacts
<1>6. ~raced => \A g \in Games : lock'[g].reads[a] = IF g = current THEN GameDepth(a)' ELSE 0
  <2>1. GameDepth(a) \in Nat
    BY DEF GameDepth
  <2> QED
    BY <1>3, <1>4, <1>5, <2>1, AdminFacts
<1>7. raced' = raced /\ (~raced => faults' = faults /\ listed)
  BY <1>1, <1>3, <1>4, <1>5, AdminFacts
<1>8. \A b \in Admins \ {a} : looked'[b] = looked[b]
  BY <1>1
<1> QED
  BY <1>1, <1>2, <1>3, <1>4, <1>5, <1>6, <1>7, <1>8, AdminFacts, AdminMoves

(* The host is locked.                                                     *)
LEMMA LockHostKeeps == \A a \in Admins : Inv /\ LockHost(a) => Inv'
<1> SUFFICES ASSUME NEW a \in Admins, Inv, LockHost(a) PROVE Inv'
  OBVIOUS
<1>1. /\ pc[a] = "lockHost" /\ Goto(a, "in") /\ exists /\ lock[Host].writer = Nobody
      /\ AddRead(a, Host, lock[Host].reads[a] + 1)
      /\ UNCHANGED <<listed, exists, work, current, live, doing, looked, alive, faults, raced>>
  BY DEF LockHost, At, host, MayRead
<1>2. /\ pc'[a] = "in" /\ doing'[a] = doing[a] /\ "in" \in AdminPlaces
  <2>1. "in" \in AdminPlaces
    BY DEF AdminPlaces
  <2> QED
    BY <1>1, <2>1, AdminFacts, GotoEffect DEF Inv, PlaceFits
<1>3. /\ HostDepth(a)' = HostDepth(a) + 1 /\ GameDepth(a)' = GameDepth(a) /\ PlaceFits(a)'
      /\ ~WritesHost(a) /\ ~WritesHost(a)' /\ ~Destroying(a) /\ ~Destroying(a)'
      /\ HasLooked(a) /\ ~Window(a)'
  BY <1>1, <1>2, AdminFacts
     DEF HostDepth, GameDepth, PlaceFits, WritesHost, Destroying, Inner, Printing, AdminPlaces,
         HasLooked, Window
<1>4. /\ lock' \in LockType
      /\ \A l \in Locks : lock'[l].writer = lock[l].writer
      /\ \A l \in Locks, b \in Admins \ {a} : lock'[l].reads[b] = lock[l].reads[b]
      /\ lock'[Host].reads[a] = HostDepth(a)'
      /\ \A g \in Games : lock'[g].reads[a] = lock[g].reads[a]
  <2>1. lock[Host].reads[a] + 1 \in Nat
    BY AdminFacts
  <2> QED
    BY <1>1, <1>3, <2>1, AdminFacts, AddReadEffect DEF Inv
<1>5. ~raced' => /\ HasLooked(a)' => current \in live \cup {Null}
                 /\ \A g \in Games : lock'[g].reads[a] = IF g = current THEN GameDepth(a)' ELSE 0
  BY <1>1, <1>3, <1>4, AdminFacts
<1> QED
  BY <1>1, <1>2, <1>3, <1>4, <1>5, AdminFacts, AdminMoves

(* The host is gone: only after the window has been hit.                   *)
LEMMA UseFreedHostKeeps == \A a \in Admins : Inv /\ UseFreedHost(a) => Inv'
<1> SUFFICES ASSUME NEW a \in Admins, Inv, UseFreedHost(a) PROVE Inv'
  OBVIOUS
<1>1. /\ pc[a] \in {"look", "lockHost", "destroy", "join"} /\ Goto(a, "idle") /\ ~exists
      /\ Fault("freedHost")
      /\ UNCHANGED <<listed, exists, work, current, live, lock, doing, looked, raced>>
  BY DEF UseFreedHost, host
<1>2. /\ pc'[a] = "idle" /\ doing'[a] = doing[a] /\ "idle" \in AdminPlaces
  <2>1. "idle" \in AdminPlaces
    BY DEF AdminPlaces
  <2> QED
    BY <1>1, <2>1, AdminFacts, GotoEffect DEF Inv, PlaceFits
<1>3. HostDepth(a) = 0
  BY <1>1, AdminFacts
<1>4. /\ HostDepth(a)' = 0 /\ PlaceFits(a)' /\ ~WritesHost(a) /\ ~WritesHost(a)'
      /\ Window(a) \/ Destroying(a)
  BY <1>1, <1>2, <1>3, AdminFacts
     DEF HostDepth, GameDepth, PlaceFits, WritesHost, Destroying, Inner, Printing, AdminPlaces,
         HasLooked, Window
<1>5. raced
  BY <1>1, <1>4, AdminFacts
<1>6. /\ alive' \in BOOLEAN /\ faults' \subseteq {"freedGame", "freedHost", "foreignUnlock"}
      /\ raced' = raced
  BY <1>1, AdminFacts DEF Fault
<1> QED
  BY <1>1, <1>2, <1>3, <1>4, <1>5, <1>6, AdminFacts, AdminMoves

(* The status of one host within that of all.                              *)
LEMMA PrintEachKeeps == \A a \in Admins : Inv /\ PrintEach(a) => Inv'
<1> SUFFICES ASSUME NEW a \in Admins, Inv, PrintEach(a) PROVE Inv'
  OBVIOUS
<1> DEFINE to == IF listed THEN "look" ELSE "unlock"
           d == IF listed THEN "inner" ELSE "printed"
<1>1. /\ pc[a] = "in" /\ doing[a] = "all" /\ Goto(a, to)
      /\ doing' = [doing EXCEPT ![a] = d]
      /\ UNCHANGED <<listed, exists, work, current, live, lock, looked, alive, faults, raced>>
  BY DEF PrintEach, At, host
<1>2. /\ pc'[a] = to /\ doing'[a] = d /\ to \in AdminPlaces /\ doing' \in [Admins -> Doings]
      /\ \A b \in Admins \ {a} : doing'[b] = doing[b]
  <2>1. to \in AdminPlaces /\ d \in Doings
    BY DEF AdminPlaces, Doings
  <2> QED
    BY <1>1, <2>1, AdminFacts, GotoEffect DEF Inv
<1>3. /\ HostDepth(a) = 1 /\ HostDepth(a)' = 1 /\ GameDepth(a) = 1 /\ GameDepth(a)' = 1
      /\ PlaceFits(a)' /\ ~WritesHost(a) /\ ~WritesHost(a)' /\ ~Destroying(a) /\ ~Destroying(a)'
      /\ HasLooked(a) /\ (Window(a)' => listed) /\ to # "lockGame"
  BY <1>1, <1>2, AdminFacts
     DEF HostDepth, GameDepth, PlaceFits, WritesHost, Destroying, Inner, Printing, AdminPlaces,
         HasLooked, Window
<1> HIDE DEF to, d
<1>4. ~raced' => /\ HasLooked(a)' => current \in live \cup {Null}
                 /\ \A g \in Games : lock'[g].reads[a] = IF g = current THEN GameDepth(a)' ELSE 0
  BY <1>1, <1>3, AdminFacts
<1> QED
  BY <1>1, <1>2, <1>3, <1>4, AdminFacts, AdminMoves

(* The game is used: it is there.                                          *)
LEMMA UseGameKeeps == \A a \in Admins : Inv /\ UseGame(a) => Inv'
<1> SUFFICES ASSUME NEW a \in Admins, Inv, UseGame(a) PROVE Inv'
  OBVIOUS
<1>1. /\ pc[a] = "in" /\ Goto(a, "unlock")
      /\ \/ UNCHANGED <<alive, faults>>
         \/ current \notin live \cup {Null} /\ Fault("freedGame")
      /\ UNCHANGED <<listed, exists, work, current, live, lock, doing, looked, raced>>
  BY DEF UseGame, At, host
<1>2. /\ pc'[a] = "unlock" /\ doing'[a] = doing[a] /\ "unlock" \in AdminPlaces
  <2>1. "unlock" \in AdminPlaces
    BY DEF AdminPlaces
  <2> QED
    BY <1>1, <2>1, AdminFacts, GotoEffect DEF Inv, PlaceFits
<1>3. /\ HostDepth(a)' = HostDepth(a) /\ GameDepth(a)' = GameDepth(a) /\ PlaceFits(a)'
      /\ ~WritesHost(a) /\ ~WritesHost(a)' /\ ~Destroying(a) /\ ~Destroying(a)'
      /\ HasLooked(a) /\ ~Window(a)'
  BY <1>1, <1>2, AdminFacts
     DEF HostDepth, GameDepth, PlaceFits, WritesHost, Destroying, Inner, Printing, AdminPlaces,
         HasLooked, Window
<1>4. /\ alive' \in BOOLEAN /\ faults' \subseteq {"freedGame", "freedHost", "foreignUnlock"}
      /\ raced' = raced
  BY <1>1, AdminFacts DEF Fault
<1>5. ~raced' => /\ faults' = faults /\ current \in live \cup {Null}
                 /\ \A g \in Games : lock'[g].reads[a] = IF g = current THEN GameDepth(a)' ELSE 0
  BY <1>1, <1>3, AdminFacts
<1> QED
  BY <1>1, <1>2, <1>3, <1>4, <1>5, AdminFacts, AdminMoves

(* The game that is unlocked is the one that was locked.                   *)
LEMMA UnlockGameKeeps == \A a \in Admins : Inv /\ UnlockGame(a) => Inv'
<1> SUFFICES ASSUME NEW a \in Admins, Inv, UnlockGame(a) PROVE Inv'
  OBVIOUS
<1>1. /\ pc[a] = "unlock" /\ Goto(a, "unlockHost")
      /\ UNCHANGED <<listed, exists, work, current, live, doing, looked, raced>>
  BY DEF UnlockGame, At, host
<1>2. /\ pc'[a] = "unlockHost" /\ doing'[a] = doing[a] /\ "unlockHost" \in AdminPlaces
  <2>1. "unlockHost" \in AdminPlaces
    BY DEF AdminPlaces
  <2> QED
    BY <1>1, <2>1, AdminFacts, GotoEffect DEF Inv, PlaceFits
<1>3. /\ HostDepth(a)' = HostDepth(a) /\ GameDepth(a)' = GameDepth(a) - 1 /\ PlaceFits(a)'
      /\ ~WritesHost(a) /\ ~WritesHost(a)' /\ ~Destroying(a) /\ ~Destroying(a)'
      /\ HasLooked(a) /\ ~Window(a)' /\ GameDepth(a) \in Nat \ {0}
  BY <1>1, <1>2, AdminFacts
     DEF HostDepth, GameDepth, PlaceFits, WritesHost, Destroying, Inner, Printing, AdminPlaces,
         HasLooked, Window
<1>4. ~raced => /\ current \in live \cup {Null}
                /\ \A g \in Games : g = current => Reads(a, g)
  BY <1>3, AdminFacts DEF Reads
<1>5. \A g \in Games : lock[g].reads[a] \in Nat
  BY AdminFacts DEF LockType
<1>6. /\ lock' \in LockType /\ alive' \in BOOLEAN
      /\ faults' \subseteq {"freedGame", "freedHost", "foreignUnlock"}
      /\ \A l \in Locks : lock'[l].writer = lock[l].writer
      /\ \A l \in Locks, b \in Admins \ {a} : lock'[l].reads[b] = lock[l].reads[b]
      /\ lock'[Host].reads[a] = HostDepth(a)
      /\ ~raced => /\ faults' = faults
                   /\ \A g \in Games :
                         lock'[g].reads[a] = lock[g].reads[a] - (IF g = current THEN 1 ELSE 0)
  <2>1. CASE current = Null /\ UNCHANGED <<lock, alive, faults>>
    BY <1>5, <2>1, AdminFacts
  <2>2. CASE /\ current \in live /\ Reads(a, current)
             /\ AddRead(a, current, lock[current].reads[a] - 1)
             /\ UNCHANGED <<alive, faults>>
    <3>1. current \in Games /\ current \in Locks /\ current # Host
      BY <2>2, AdminFacts DEF Inv, TypeOK
    <3>2. lock[current].reads[a] - 1 \in Nat
      BY <1>5, <2>2, <3>1 DEF Reads
    <3> QED
      BY <1>5, <2>2, <3>1, <3>2, AdminFacts, AddReadEffect DEF Inv
  <2>3. CASE /\ current \in live /\ ~Reads(a, current)
             /\ Fault("foreignUnlock")
             /\ lock' = IF alive' THEN [lock EXCEPT ![current].reads[a] = 1] ELSE lock
    <3>1. current \in Games /\ current \in Locks /\ current # Host
      BY <2>3, AdminFacts DEF Inv, TypeOK
    <3>2. raced
      BY <1>4, <2>3, <3>1
    <3>3. UNCHANGED lock \/ AddRead(a, current, 1)
      BY <2>3 DEF AddRead
    <3>4. /\ lock' \in LockType
          /\ \A l \in Locks : lock'[l].writer = lock[l].writer
          /\ \A l \in Locks, b \in Admins \ {a} : lock'[l].reads[b] = lock[l].reads[b]
          /\ lock'[Host].reads[a] = HostDepth(a)
      BY <3>1, <3>3, AdminFacts, AddReadEffect DEF Inv
    <3> QED
      BY <2>3, <3>2, <3>4, AdminFacts DEF Fault
  <2>4. CASE current \notin live \cup {Null} /\ Fault("freedGame") /\ UNCHANGED lock
    BY <1>4, <2>4, AdminFacts DEF Fault
  <2> QED
    BY <2>1, <2>2, <2>3, <2>4 DEF UnlockGame
<1>7. ~raced' => \A g \in Games : lock'[g].reads[a] = IF g = current THEN GameDepth(a)' ELSE 0
  BY <1>1, <1>3, <1>6, AdminFacts
<1> QED
  BY <1>1, <1>2, <1>3, <1>4, <1>6, <1>7, AdminFacts, AdminMoves

(* The host is unlocked.                                                   *)
LEMMA UnlockHostKeeps == \A a \in Admins : Inv /\ UnlockHost(a) => Inv'
<1> SUFFICES ASSUME NEW a \in Admins, Inv, UnlockHost(a) PROVE Inv'
  OBVIOUS
<1> DEFINE to == IF Inner(a) THEN "unlock" ELSE "idle"
           d == IF Inner(a) THEN "printed" ELSE doing[a]
<1>1. /\ pc[a] = "unlockHost" /\ Goto(a, to)
      /\ doing' = [doing EXCEPT ![a] = d]
      /\ AddRead(a, Host, lock[Host].reads[a] - 1)
      /\ UNCHANGED <<listed, exists, work, current, live, looked, alive, faults, raced>>
  BY DEF UnlockHost, At, host, Inner
<1>2. /\ pc'[a] = to /\ doing'[a] = d /\ to \in AdminPlaces /\ doing' \in [Admins -> Doings]
      /\ \A b \in Admins \ {a} : doing'[b] = doing[b]
  <2>1. to \in AdminPlaces /\ d \in Doings
    BY AdminFacts DEF AdminPlaces, Doings
  <2> QED
    BY <1>1, <2>1, AdminFacts, GotoEffect DEF Inv
<1>3. /\ HostDepth(a)' = HostDepth(a) - 1 /\ GameDepth(a)' = GameDepth(a) /\ HostDepth(a) > 0
      /\ PlaceFits(a)' /\ ~WritesHost(a) /\ ~WritesHost(a)' /\ ~Destroying(a) /\ ~Destroying(a)'
      /\ HasLooked(a) /\ ~Window(a)' /\ to # "lockGame"
  BY <1>1, <1>2, AdminFacts
     DEF HostDepth, GameDepth, PlaceFits, WritesHost, Destroying, Inner, Printing, AdminPlaces,
         HasLooked, Window
<1> HIDE DEF to, d
<1>4. /\ lock' \in LockType
      /\ \A l \in Locks : lock'[l].writer = lock[l].writer
      /\ \A l \in Locks, b \in Admins \ {a} : lock'[l].reads[b] = lock[l].reads[b]
      /\ lock'[Host].reads[a] = HostDepth(a)'
      /\ \A g \in Games : lock'[g].reads[a] = lock[g].reads[a]
  <2>1. lock[Host].reads[a] - 1 \in Nat
    BY <1>3, AdminFacts
  <2> QED
    BY <1>1, <1>3, <2>1, AdminFacts, AddReadEffect DEF Inv
<1>5. ~raced' => /\ current \in live \cup {Null}
                 /\ \A g \in Games : lock'[g].reads[a] = IF g = current THEN GameDepth(a)' ELSE 0
  BY <1>1, <1>3, <1>4, AdminFacts
<1> QED
  BY <1>1, <1>2, <1>3, <1>4, <1>5, AdminFacts, AdminMoves

(* The engine is ended.                                                    *)
LEMMA EndGameKeeps == \A a \in Admins : Inv /\ EndGame(a) => Inv'
<1> SUFFICES ASSUME NEW a \in Admins, Inv, EndGame(a) PROVE Inv'
  OBVIOUS
<1>1. /\ pc[a] = "destroyGame" /\ Goto(a, "awaitGame")
      /\ UNCHANGED <<listed, exists, work, current, live, lock, doing, looked, alive, faults,
                     raced>>
  BY DEF EndGame, At, host
<1>2. /\ pc'[a] = "awaitGame" /\ doing'[a] = doing[a] /\ "awaitGame" \in AdminPlaces
  <2>1. "awaitGame" \in AdminPlaces
    BY DEF AdminPlaces
  <2> QED
    BY <1>1, <2>1, AdminFacts, GotoEffect DEF Inv, PlaceFits
<1>3. /\ HostDepth(a)' = HostDepth(a) /\ GameDepth(a)' = GameDepth(a) /\ PlaceFits(a)'
      /\ WritesHost(a) /\ WritesHost(a)' /\ Destroying(a) /\ Destroying(a)'
      /\ HasLooked(a) /\ ~Window(a)'
  BY <1>1, <1>2, AdminFacts
     DEF HostDepth, GameDepth, PlaceFits, WritesHost, Destroying, Inner, Printing, AdminPlaces,
         HasLooked, Window
<1>4. ~raced' => /\ current \in live \cup {Null}
                 /\ \A g \in Games : lock'[g].reads[a] = IF g = current THEN GameDepth(a)' ELSE 0
  BY <1>1, <1>3, AdminFacts
<1> QED
  BY <1>1, <1>2, <1>3, <1>4, AdminFacts, AdminMoves

-----------------------------------------------------------------------------
(* The destructor, in the thread of an admin.                              *)

(* A step of it: what is left to show is what it does to the host's lock.  *)
LEMMA DestructorPlaces ==
  ASSUME Inv, NEW a \in Admins, NEW to \in {"idle", "join", "destroyGame"}, Goto(a, to),
         pc[a] \in {"destroy", "destroyGame", "awaitGame", "join"}, doing' = doing
  PROVE  /\ pc' \in [Threads -> WorkerPlaces \cup AdminPlaces]
         /\ PlacesFit' /\ HostDepth(a) = 0 /\ GameDepth(a) = 0 /\ ~Inner(a)
         /\ HostDepth(a)' = 0 /\ GameDepth(a)' = 0 /\ ~Inner(a)' /\ ~Window(a)'
         /\ (WritesHost(a)' <=> to = "destroyGame") /\ (HasLooked(a)' <=> to = "destroyGame")
         /\ (Destroying(a)' <=> to \in {"join", "destroyGame"})
<1> USE DEF Inv
<1>1. to \in AdminPlaces
  BY DEF AdminPlaces
<1>2. /\ pc' \in [Threads -> WorkerPlaces \cup AdminPlaces]
      /\ pc'[a] = to /\ pc'[Worker] = pc[Worker] /\ a # Worker
      /\ \A b \in Admins \ {a} : pc'[b] = pc[b]
  BY <1>1, OthersStay
<1>3. PlaceFits(a)
  BY AdminFacts
<1>4. PlacesFit'
  <2>1. ASSUME NEW b \in Admins PROVE PlaceFits(b)'
    <3>1. PlaceFits(b)
      BY DEF PlacesFit, PlaceFits
    <3> QED
      BY <1>1, <1>2, <3>1 DEF PlaceFits, Inner, Printing
  <2> QED
    BY <1>2, <2>1 DEF PlacesFit, PlaceFits
<1> QED
  BY <1>2, <1>3, <1>4
     DEF HostDepth, GameDepth, PlaceFits, WritesHost, Destroying, Inner, Printing, AdminPlaces,
         HasLooked, Window

(* The host leaves the list and is locked.                                 *)
LEMMA StopWorkKeeps == \A a \in Admins : Inv /\ StopWork(a) => Inv'
<1> SUFFICES ASSUME NEW a \in Admins, Inv, StopWork(a) PROVE Inv'
  OBVIOUS
<1> USE DEF Inv
<1>1. /\ pc[a] = "destroy" /\ exists /\ MayWrite(a, Host) /\ SetWriter(Host, a)
      /\ work' = FALSE /\ listed' = FALSE /\ Changes(a) /\ Goto(a, "destroyGame")
      /\ UNCHANGED <<exists, current, live, doing, looked, alive, faults>>
  BY DEF StopWork, At
<1>2. /\ a \in Threads /\ a # Worker /\ Worker \in Threads /\ pc'[Worker] = pc[Worker]
      /\ \A u \in Threads \ {a} : WritesHost(u)' <=> WritesHost(u)
      /\ \A b \in Admins \ {a} :
            /\ pc'[b] = pc[b] /\ (Inner(b)' <=> Inner(b))
            /\ HostDepth(b)' = HostDepth(b) /\ GameDepth(b)' = GameDepth(b)
            /\ (HasLooked(b)' <=> HasLooked(b)) /\ (Window(b)' <=> Window(b))
            /\ (Destroying(b)' <=> Destroying(b))
  BY <1>1, OthersStay DEF AdminPlaces
<1>3. /\ pc' \in [Threads -> WorkerPlaces \cup AdminPlaces]
      /\ PlacesFit' /\ HostDepth(a) = 0 /\ GameDepth(a) = 0
      /\ HostDepth(a)' = 0 /\ GameDepth(a)' = 0 /\ ~Window(a)'
      /\ WritesHost(a)' /\ HasLooked(a)' /\ Destroying(a)'
  BY <1>1, DestructorPlaces
<1>4. /\ lock' \in LockType
      /\ \A m \in Locks : lock'[m].writer = IF m = Host THEN a ELSE lock[m].writer
      /\ \A m \in Locks, b \in Admins : lock'[m].reads[b] = lock[m].reads[b]
      /\ Host \in Locks /\ \A g \in Games : g \in Locks /\ g # Host
  BY <1>1, <1>2, AdminFacts, SetWriterEffect
<1>5. raced' \in BOOLEAN /\ (raced => raced')
  BY <1>1 DEF Changes, TypeOK
<1>6. TypeOK'
  BY <1>1, <1>3, <1>4, <1>5 DEF TypeOK, LockType, WorkerPlaces, AdminPlaces
<1>7. HostLocked'
  <2>1. /\ \A b \in Admins \ {a} : HostDepth(b) = 0
        /\ \A u \in Threads \ {a} : ~WritesHost(u)
    BY <1>1, <1>2, NoReaders
  <2>2. \A b \in Admins : HostDepth(b)' = 0 /\ lock'[Host].reads[b] = 0
    BY <1>2, <1>3, <1>4, <2>1 DEF HostLocked
  <2>3. \A t \in Threads : lock'[Host].writer = t <=> WritesHost(t)'
    BY <1>2, <1>3, <1>4, <2>1
  <2> QED
    BY <1>4, <2>2, <2>3 DEF HostLocked
<1>8. ~raced' => Calm'
  <2> SUFFICES ASSUME ~raced' PROVE Calm'
    OBVIOUS
  <2>1. Calm /\ \A b \in Admins \ {a} : ~Window(b)
    BY <1>1, <1>5 DEF Changes
  <2>2. Window(a) /\ HasLooked(a)
    BY <1>1 DEF Window, HasLooked
  <2>3. listed /\ exists
    BY <2>1, <2>2 DEF Calm, Listing
  <2>4. Listing'
    BY <1>1, <1>2, <1>3, <2>1 DEF Listing
  <2>5. OneDestroyer'
    <3>1. \A b \in Admins \ {a} : ~Destroying(b)'
      BY <1>2, <2>1, <2>3 DEF Calm, OneDestroyer
    <3>2. pc'[Worker] # "giveUp"
      BY <1>2, <2>1, <2>3 DEF Calm, Listing
    <3> QED
      BY <1>1, <2>3, <3>1, <3>2 DEF OneDestroyer
  <2>6. Followed'
    BY <1>1, <1>2, <1>3, <2>1, <2>2 DEF Calm, Followed, Window
  <2>7. GameLocked'
    BY <1>1, <1>2, <1>3, <1>4, <2>1 DEF Calm, GameLocked
  <2> QED
    BY <1>1, <2>1, <2>4, <2>5, <2>6, <2>7 DEF Calm
<1> QED
  BY <1>3, <1>6, <1>7, <1>8

(* The game is deleted, or there was none; the host is unlocked.           *)
LEMMA GameGoneKeeps == \A a \in Admins : Inv /\ (NoGame(a) \/ GameDeleted(a)) => Inv'
<1> SUFFICES ASSUME NEW a \in Admins, Inv, NoGame(a) \/ GameDeleted(a) PROVE Inv'
  OBVIOUS
<1> USE DEF Inv
<1>1. /\ pc[a] \in {"destroyGame", "awaitGame"} /\ Goto(a, "join")
      /\ current' = Null /\ live' \subseteq live
      /\ UNCHANGED <<listed, exists, work, doing, looked>>
  BY DEF NoGame, GameDeleted, At, host
<1>2. /\ a \in Threads /\ a # Worker /\ pc'[Worker] = pc[Worker] /\ Worker \in Threads
      /\ \A u \in Threads \ {a} : WritesHost(u)' <=> WritesHost(u)
      /\ \A b \in Admins \ {a} :
            /\ pc'[b] = pc[b] /\ (Inner(b)' <=> Inner(b))
            /\ HostDepth(b)' = HostDepth(b) /\ GameDepth(b)' = GameDepth(b)
            /\ (HasLooked(b)' <=> HasLooked(b)) /\ (Window(b)' <=> Window(b))
            /\ (Destroying(b)' <=> Destroying(b))
  BY <1>1, OthersStay DEF AdminPlaces
<1>3. /\ pc' \in [Threads -> WorkerPlaces \cup AdminPlaces]
      /\ PlacesFit' /\ HostDepth(a) = 0 /\ GameDepth(a) = 0
      /\ HostDepth(a)' = 0 /\ GameDepth(a)' = 0 /\ ~Window(a)'
      /\ ~WritesHost(a)' /\ ~HasLooked(a)' /\ Destroying(a)'
  BY <1>1, DestructorPlaces
<1>4. WritesHost(a) /\ HasLooked(a) /\ Destroying(a)
  BY <1>1, <1>2 DEF WritesHost, HasLooked, Destroying
<1>5. /\ Host \in Locks /\ \A g \in Games : g \in Locks /\ g # Host
      /\ Nobody \notin Threads
  BY DEF Locks, Threads, Worker, Nobody
<1>6. /\ lock' \in LockType /\ lock'[Host].writer = Nobody
      /\ \A b \in Admins : lock'[Host].reads[b] = lock[Host].reads[b]
      /\ \A g \in Games, b \in Admins : lock'[g].reads[b] \in {0, lock[g].reads[b]}
      /\ \A g \in Games : lock'[g].writer \in {Nobody, Worker}
  <2>1. CASE NoGame(a)
    <3>1. SetWriter(Host, Nobody)
      BY <2>1 DEF NoGame
    <3> QED
      BY <1>5, <3>1, SetWriterEffect DEF HostLocked
  <2>2. CASE GameDeleted(a)
    <3>1. lock' = [lock EXCEPT ![current] = Unlocked, ![Host].writer = Nobody] /\ current # Host
      BY <2>2 DEF GameDeleted, TypeOK, Null, Host
    <3>2. /\ Unlocked \in [reads : [Admins -> Nat], writer : {Nobody} \cup Threads]
          /\ Unlocked.writer = Nobody /\ \A b \in Admins : Unlocked.reads[b] = 0
      BY DEF Unlocked
    <3>3. lock \in LockType
      BY DEF TypeOK, LockType
    <3> QED
      BY <1>5, <3>1, <3>2, <3>3 DEF LockType, HostLocked
  <2> QED
    BY <2>1, <2>2
<1>7. /\ alive' \in BOOLEAN /\ faults' \subseteq {"freedGame", "freedHost", "foreignUnlock"}
      /\ raced' \in BOOLEAN /\ (raced => raced')
      /\ current \in live \cup {Null} => faults' = faults
  <2>1. CASE NoGame(a)
    BY <2>1, AdminFacts DEF NoGame, Fault
  <2>2. CASE GameDeleted(a)
    BY <2>2, AdminFacts DEF GameDeleted, Changes
  <2> QED
    BY <2>1, <2>2
<1>8. TypeOK'
  BY <1>1, <1>3, <1>6, <1>7 DEF TypeOK, LockType, WorkerPlaces, AdminPlaces
<1>9. \A b \in Admins \ {a} : HostDepth(b) = 0 /\ ~WritesHost(b)
  BY <1>2, <1>4, WriterAlone DEF Threads
<1>10. HostLocked'
  <2>1. \A b \in Admins : HostDepth(b)' = 0 /\ lock'[Host].reads[b] = 0
    BY <1>2, <1>3, <1>6, <1>9 DEF HostLocked
  <2>2. \A u \in Threads : ~WritesHost(u)'
    BY <1>2, <1>3, <1>4, WriterAlone
  <2> QED
    BY <1>5, <1>6, <2>1, <2>2 DEF HostLocked
<1>11. ~raced' => Calm'
  <2> SUFFICES ASSUME ~raced' PROVE Calm'
    OBVIOUS
  <2>1. Calm
    BY <1>7
  <2>2. \A b \in Admins \ {a} : ~Window(b)
    BY <1>4, <2>1 DEF Calm, OneDestroyer, Listing
  <2>3. \A b \in Admins \ {a} : ~HasLooked(b) /\ GameDepth(b) = 0
    BY <1>2, <1>4, <2>2, NoFollowers
  <2>4. faults' = faults
    BY <1>4, <1>7, <2>1 DEF Calm, Followed
  <2>5. Listing' /\ OneDestroyer'
    BY <1>1, <1>2, <1>3, <1>4, <2>1 DEF Calm, Listing, OneDestroyer
  <2>6. Followed'
    BY <1>2, <1>3, <2>3 DEF Followed, HasLooked
  <2>7. GameLocked'
    <3>1. \A b \in Admins : GameDepth(b)' = 0
      BY <1>2, <1>3, <2>3
    <3>2. \A b \in Admins : \A g \in Games : lock[g].reads[b] = 0
      BY <1>3, <2>1, <2>3 DEF Calm, GameLocked
    <3> QED
      BY <1>6, <3>1, <3>2 DEF GameLocked
  <2> QED
    BY <2>1, <2>4, <2>5, <2>6, <2>7 DEF Calm
<1> QED
  BY <1>3, <1>8, <1>10, <1>11

(* The host is deleted.                                                    *)
LEMMA JoinKeeps == \A a \in Admins : Inv /\ Join(a) => Inv'
<1> SUFFICES ASSUME NEW a \in Admins, Inv, Join(a) PROVE Inv'
  OBVIOUS
<1> USE DEF Inv
<1>1. /\ pc[a] = "join" /\ MayWrite(a, Host) /\ exists' = FALSE
      /\ lock' = [lock EXCEPT ![Host] = Unlocked] /\ Changes(a) /\ Goto(a, "idle")
      /\ UNCHANGED <<listed, work, current, live, doing, looked, alive, faults>>
  BY DEF Join, At
<1>2. /\ a \in Threads /\ a # Worker /\ Worker \in Threads /\ pc'[Worker] = pc[Worker]
      /\ \A u \in Threads \ {a} : WritesHost(u)' <=> WritesHost(u)
      /\ \A b \in Admins \ {a} :
            /\ pc'[b] = pc[b] /\ (Inner(b)' <=> Inner(b))
            /\ HostDepth(b)' = HostDepth(b) /\ GameDepth(b)' = GameDepth(b)
            /\ (HasLooked(b)' <=> HasLooked(b)) /\ (Window(b)' <=> Window(b))
            /\ (Destroying(b)' <=> Destroying(b))
  BY <1>1, OthersStay DEF AdminPlaces
<1>3. /\ pc' \in [Threads -> WorkerPlaces \cup AdminPlaces]
      /\ PlacesFit' /\ HostDepth(a) = 0 /\ GameDepth(a) = 0
      /\ HostDepth(a)' = 0 /\ GameDepth(a)' = 0 /\ ~Window(a)'
      /\ ~WritesHost(a)' /\ ~HasLooked(a)' /\ ~Destroying(a)'
  BY <1>1, DestructorPlaces
<1>4. Destroying(a)
  BY <1>1 DEF Destroying
<1>5. /\ lock' \in LockType
      /\ lock'[Host].writer = Nobody /\ \A b \in Admins : lock'[Host].reads[b] = 0
      /\ \A g \in Games : g \in Locks /\ lock'[g] = lock[g]
      /\ Nobody \notin Threads
  <2>1. /\ Unlocked \in [reads : [Admins -> Nat], writer : {Nobody} \cup Threads]
        /\ Unlocked.writer = Nobody /\ \A b \in Admins : Unlocked.reads[b] = 0
    BY DEF Unlocked
  <2>2. /\ lock \in LockType /\ Host \in Locks
        /\ \A g \in Games : g \in Locks /\ g # Host
        /\ Nobody \notin Threads
    BY DEF TypeOK, LockType, Locks, Threads, Worker, Nobody
  <2>3. \A l \in Locks : lock'[l] = IF l = Host THEN Unlocked ELSE lock[l]
    BY <1>1, <2>2 DEF LockType
  <2>4. lock' \in LockType
    <3> DEFINE L == [reads : [Admins -> Nat], writer : {Nobody} \cup Threads]
    <3>1. Unlocked \in L /\ lock \in [Locks -> L]
      BY <2>1, <2>2 DEF LockType
    <3> HIDE DEF L
    <3>2. lock' \in [Locks -> L]
      BY <1>1, <3>1
    <3> QED
      BY <3>2 DEF L, LockType
  <2>5. lock'[Host] = Unlocked /\ \A g \in Games : lock'[g] = lock[g]
    BY <2>2, <2>3
  <2>6. lock'[Host].writer = Nobody /\ \A b \in Admins : lock'[Host].reads[b] = 0
    BY <2>1, <2>5
  <2> QED
    BY <2>2, <2>4, <2>5, <2>6
<1>6. raced' \in BOOLEAN /\ (raced => raced')
  BY <1>1 DEF Changes, TypeOK
<1>7. TypeOK'
  BY <1>1, <1>3, <1>5, <1>6 DEF TypeOK, LockType, WorkerPlaces, AdminPlaces
<1>8. HostLocked'
  <2>1. /\ \A b \in Admins \ {a} : HostDepth(b) = 0
        /\ \A u \in Threads \ {a} : ~WritesHost(u)
    BY <1>1, <1>2, NoReaders
  <2>2. \A b \in Admins : HostDepth(b)' = 0
    BY <1>2, <1>3, <2>1
  <2>3. \A u \in Threads : ~WritesHost(u)'
    BY <1>2, <1>3, <2>1
  <2> QED
    BY <1>5, <2>2, <2>3 DEF HostLocked
<1>9. ~raced' => Calm'
  <2> SUFFICES ASSUME ~raced' PROVE Calm'
    OBVIOUS
  <2>1. Calm
    BY <1>6
  <2>2. ~listed /\ \A b \in Admins \ {a} : ~Destroying(b)
    BY <1>4, <2>1 DEF Calm, OneDestroyer
  <2>3. Listing' /\ OneDestroyer'
    BY <1>1, <1>2, <1>3, <2>1, <2>2 DEF Calm, Listing, OneDestroyer
  <2>4. Followed'
    <3>1. pc'[a] = "idle"
      BY <1>1, <1>2 DEF Goto, TypeOK
    <3> QED
      BY <1>1, <1>2, <1>3, <2>1, <3>1 DEF Calm, Followed
  <2>5. GameLocked'
    BY <1>1, <1>2, <1>3, <1>5, <2>1 DEF Calm, GameLocked
  <2> QED
    BY <1>1, <2>1, <2>3, <2>4, <2>5 DEF Calm
<1> QED
  BY <1>3, <1>7, <1>8, <1>9

(* The host is asked to end after its game; or nothing happens.            *)
LEMMA SoftEndKeeps == Inv /\ ((\E a \in Admins : SoftEnd(a)) \/ UNCHANGED vars) => Inv'
<1> SUFFICES ASSUME Inv, (\E a \in Admins : SoftEnd(a)) \/ UNCHANGED vars PROVE Inv'
  OBVIOUS
<1> USE DEF Inv
<1>1. /\ UNCHANGED <<listed, exists, current, live, lock, pc, doing, looked, alive, faults, raced>>
      /\ (work' = work \/ work' = FALSE)
  BY DEF SoftEnd, vars
<1>2. TypeOK'
  <2>1. work \in BOOLEAN
    BY DEF TypeOK
  <2>2. work' \in BOOLEAN
    BY <1>1, <2>1
  <2> QED
    BY <1>1, <2>2 DEF TypeOK
<1>3. PlacesFit' /\ HostLocked'
  BY <1>1 DEF PlacesFit, HostLocked, HostDepth, Inner, WritesHost
<1>4. ~raced' => Calm'
  BY <1>1 DEF Calm, Listing, OneDestroyer, Followed, GameLocked, GameDepth, HasLooked, Inner,
     Window, Destroying
<1> QED
  BY <1>2, <1>3, <1>4

-----------------------------------------------------------------------------
(* The theorems.                                                           *)

LEMMA StepInv == Inv /\ [Next]_vars => Inv'
<1> SUFFICES ASSUME Inv, [Next]_vars PROVE Inv'
  OBVIOUS
<1>1. CASE WorkerStep
  BY <1>1, PlainWorkerKeeps, NextGameKeeps, JudgeKeeps, DeletesKeep DEF WorkerStep
<1>2. CASE \E a \in Admins : Command(a)
  BY <1>2, CommandKeeps
<1>3. CASE \E a \in Admins : AdminStep(a)
  BY <1>3, LookKeeps, LockGameKeeps, LockHostKeeps, UseFreedHostKeeps, PrintEachKeeps,
     UseGameKeeps, UnlockGameKeeps, UnlockHostKeeps, StopWorkKeeps, EndGameKeeps,
     GameGoneKeeps, JoinKeeps DEF AdminStep
<1>4. CASE (\E a \in Admins : SoftEnd(a)) \/ UNCHANGED vars
  BY <1>4, SoftEndKeeps
<1> QED
  BY <1>1, <1>2, <1>3, <1>4 DEF Next

(* The invariant.                                                          *)
THEOREM InvHolds == Spec => []Inv
  BY InitInv, StepInv, PTL DEF Spec

(* Types; no count of read locks passes below zero.                        *)
THEOREM TypesHold == Spec => []TypeOK
<1>1. Inv => TypeOK
  BY DEF Inv
<1> QED
  BY <1>1, InvHolds, PTL

(* However many admins there are: no deleted host or game is used, and no  *)
(* lock given back that was not taken, unless the host or its game has     *)
(* changed between the search in the list and the lock.                    *)
THEOREM WindowIsTheOnly == Spec => []OnlyTheWindow
<1>1. Inv => OnlyTheWindow
  BY DEF Inv, Calm, OnlyTheWindow
<1> QED
  BY <1>1, InvHolds, PTL

(* And without that an admin between two commands has nothing locked: the  *)
(* locks of the game and the host are paired through %status in itself.    *)
THEOREM LocksArePaired == Spec => []LocksPaired
<1>1. Inv => LocksPaired
  <2> SUFFICES ASSUME Inv, ~raced, NEW a \in Admins, pc[a] = "idle", NEW l \in Locks
               PROVE  ~Reads(a, l) /\ lock[l].writer # a
    BY DEF LocksPaired
  <2>1. ~Inner(a) /\ HostDepth(a) = 0 /\ GameDepth(a) = 0 /\ ~WritesHost(a)
    BY AdminFacts DEF PlaceFits, Printing, Inner, HostDepth, GameDepth, WritesHost
  <2>2. CASE l = Host
    BY <2>1, <2>2, AdminFacts DEF Inv, HostLocked, Reads
  <2>3. CASE l \in Games
    BY <2>1, <2>3, AdminFacts DEF Inv, HostLocked, Reads, Nobody
  <2> QED
    BY <2>2, <2>3 DEF Locks
<1> QED
  BY <1>1, InvHolds, PTL

(* While an admin has the host locked its game stays, whatever the window  *)
(* has led to: what changes or deletes it has the host locked for writing. *)
THEOREM GameIsPinned == Spec => GamePinned
<1> DEFINE Pin == \A a \in Admins : Reads(a, Host) /\ Reads(a, Host)' =>
                     /\ current' = current
                     /\ current \in live => current \in live'
<1>1. Inv /\ [Next]_vars => [Pin]_vars
  <2> SUFFICES ASSUME Inv, Next, NEW a \in Admins, Reads(a, Host)
               PROVE  /\ current' = current
                      /\ current \in live => current \in live'
    OBVIOUS
  <2>1. HostDepth(a) # 0
    BY AdminFacts DEF Reads
  <2>2. \A t \in Threads : ~WritesHost(t)
    BY <2>1, WriterAlone DEF Inv
  <2>3. /\ pc[Worker] \notin {"loop", "delete", "giveUp"}
        /\ \A b \in Admins : pc[b] \notin {"destroyGame", "awaitGame"}
    BY <2>2 DEF WritesHost, Threads
  <2>4. CASE WorkerStep
    BY <2>3, <2>4 DEF WorkerStep, Begin, NextGame, Leave, GameLine, LineDone, Wish, Enqueue,
       GameOver, BreakOff, Judge, DeletePlayed, DeleteThis, At
  <2>5. CASE \E b \in Admins : Command(b) \/ SoftEnd(b)
    BY <2>5 DEF Command, SoftEnd
  <2>6. CASE \E b \in Admins : AdminStep(b)
    BY <2>3, <2>6 DEF AdminStep, Look, LockGame, LockHost, UseFreedHost, PrintEach, UseGame,
       UnlockGame, UnlockHost, StopWork, EndGame, NoGame, GameDeleted, Join, At
  <2> QED
    BY <2>4, <2>5, <2>6 DEF Next
<1> QED
  BY <1>1, InvHolds, PTL DEF Spec, GamePinned
=============================================================================
