--------------------------- MODULE AutoHostProofs ---------------------------
(***************************************************************************)
(* Proofs about AutoHost, for any size of the queue and number of failures *)
(* and whoever may end the host.  OneOwner is inductive once it is known   *)
(* when CurrentGame is valid, and that is known from who has the lock of   *)
(* the host and from work: the parts of the invariant, in reverse order.   *)
(* Each part has a lemma of its own with a step per action.                *)
(***************************************************************************)
EXTENDS AutoHost, SequenceTheorems, TLAPS

-----------------------------------------------------------------------------
(* The queue.                                                              *)

(* One entry more.                                                         *)
LEMMA RangeAppend ==
  ASSUME NEW S, NEW q \in Seq(S), NEW x \in S
  PROVE  /\ Append(q, x) \in Seq(S)
         /\ Range(Append(q, x)) = Range(q) \cup {x}
         /\ IsInjective(q) /\ x \notin Range(q) => IsInjective(Append(q, x))
<1>1. /\ Append(q, x) \in Seq(S) /\ Len(q) \in Nat /\ Len(Append(q, x)) = Len(q) + 1
      /\ DOMAIN q = 1 .. Len(q) /\ DOMAIN Append(q, x) = 1 .. Len(q) + 1
      /\ \A i \in 1 .. Len(q) : Append(q, x)[i] = q[i]
      /\ Append(q, x)[Len(q) + 1] = x
  BY AppendProperties, LenProperties
<1> QED
  BY <1>1 DEF Range, IsInjective

(* One entry less: what leaves is not among the others.                    *)
LEMMA RangeTail ==
  ASSUME NEW S, NEW q \in Seq(S), q # <<>>
  PROVE  /\ Tail(q) \in Seq(S) /\ Head(q) \in S
         /\ Range(q) = {Head(q)} \cup Range(Tail(q))
         /\ IsInjective(q) => IsInjective(Tail(q)) /\ Head(q) \notin Range(Tail(q))
<1>1. /\ Len(q) \in Nat /\ Len(q) > 0 /\ DOMAIN q = 1 .. Len(q)
      /\ Tail(q) \in Seq(S) /\ Head(q) \in S
      /\ DOMAIN Tail(q) = 1 .. Len(q) - 1
      /\ \A i \in 1 .. Len(q) - 1 : Tail(q)[i] = q[i + 1]
      /\ Head(q) = q[1]
  BY LenProperties, HeadTailProperties, EmptySeq
<1>2. Range(q) = {Head(q)} \cup Range(Tail(q))
  <2>1. \A i \in 1 .. Len(q) : i # 1 => /\ i - 1 \in 1 .. Len(q) - 1
                                       /\ q[i] = Tail(q)[i - 1]
    <3> SUFFICES ASSUME NEW i \in 1 .. Len(q), i # 1
                 PROVE  i - 1 \in 1 .. Len(q) - 1 /\ q[i] = Tail(q)[i - 1]
      OBVIOUS
    <3>1. i - 1 \in 1 .. Len(q) - 1 /\ (i - 1) + 1 = i
      BY <1>1
    <3> QED
      BY <1>1, <3>1
  <2>2. \A i \in 1 .. Len(q) - 1 : i + 1 \in 1 .. Len(q)
    BY <1>1
  <2>3. \A i \in 1 .. Len(q) : q[i] \in {Head(q)} \cup Range(Tail(q))
    <3> SUFFICES ASSUME NEW i \in 1 .. Len(q), i # 1
                 PROVE  q[i] \in Range(Tail(q))
      BY <1>1
    <3> QED
      BY <1>1, <2>1 DEF Range
  <2>4. \A j \in 1 .. Len(q) - 1 : Tail(q)[j] \in Range(q)
    BY <1>1, <2>2 DEF Range
  <2>5. Head(q) \in Range(q)
    BY <1>1 DEF Range
  <2>6. Range(q) \subseteq {Head(q)} \cup Range(Tail(q))
    BY <1>1, <2>3 DEF Range
  <2>7. Range(Tail(q)) \subseteq Range(q)
    BY <1>1, <2>4 DEF Range
  <2> QED
    BY <2>5, <2>6, <2>7
<1>3. IsInjective(q) => IsInjective(Tail(q)) /\ Head(q) \notin Range(Tail(q))
  BY <1>1 DEF Range, IsInjective
<1> QED
  BY <1>1, <1>2, <1>3

-----------------------------------------------------------------------------
(* The invariant.                                                          *)

\* Who has the host's lock; what is over.
Places ==
    /\ pc.worker = "loop" <=> hostLock = "worker"
    /\ pc.destroyer \in {"deleteGame", "awaitGame"} <=> hostLock = "destroyer"
    /\ freed => pc.worker = "ended"
    /\ pc.destroyer \in {"deleteGame", "awaitGame", "join", "gone"} => work = FALSE

\* What CurrentGame can be.
Pointers ==
    /\ pc.worker = "begin" => currentGame = Null
    /\ pc.worker = "loop" => currentGame # "live"
    /\ pc.worker \in {"start", "play", "wish", "judge"} =>
          \/ currentGame = "live"
          \/ currentGame = Null /\ pc.destroyer \in {"join", "gone"}
    /\ pc.destroyer = "awaitGame" => currentGame = "live"
    /\ currentGame = "live" => gameScen \in Address
    /\ currentGame = "deleted" =>
          \/ pc.worker = "loop" /\ (work = TRUE \/ MaySoftEnd = TRUE)
          \/ pc.worker = "ended" /\ work = FALSE /\ MaySoftEnd = TRUE

\* fails is the streak, but for the game that has not been judged.
Counts ==
    /\ pc.worker \in {"begin", "loop", "start", "play", "wish"} =>
          streak = fails /\ (streak = 0 \/ streak < MaxExecTrials)
    /\ pc.worker = "judge" => streak = IF gameStatus = "Failed" THEN fails + 1 ELSE 0
    /\ freed /\ pc.destroyer \in {"idle", "called"} =>
          streak > 0 /\ streak >= MaxExecTrials

\* What an invalid access needs.
Causes ==
    /\ "freedScen" \in faults => replayed
    /\ "nullGame" \in faults => pc.destroyer \in {"join", "gone"}
    /\ "freedGame" \in faults => MaySoftEnd = TRUE /\ work = FALSE
    /\ "freedHost" \in faults => streak >= MaxExecTrials /\ freed

Inv == TypeOK /\ Places /\ Pointers /\ Counts /\ OneOwner /\ Causes

(* What Candidates, TakeNext and Taken do.                                 *)
LEMMA NextEffect ==
  ASSUME TypeOK, NEW next \in Candidates, TakeNext(next)
  PROVE  /\ next \in Address /\ scn' = next /\ queue' \in Seq(Address)
         /\ queue = <<>> => /\ queue' = <<>> /\ next \notin live
                            /\ Taken(next) = live \cup {next}
         /\ queue # <<>> => /\ next = Head(queue) /\ queue' = Tail(queue)
                            /\ Taken(next) = live
<1>1. CASE queue = <<>>
  BY <1>1 DEF TypeOK, Candidates, TakeNext, Taken
<1>2. CASE queue # <<>>
  <2>1. Tail(queue) \in Seq(Address) /\ Head(queue) \in Address
    BY <1>2, RangeTail DEF TypeOK
  <2> QED
    BY <1>2, <2>1 DEF Candidates, TakeNext, Taken
<1> QED
  BY <1>1, <1>2

(* Types: the game's scenario is one, as long as there is the game.        *)
LEMMA TypeKeeps == Inv /\ [Next]_vars => TypeOK'
<1> SUFFICES ASSUME Inv, [Next]_vars PROVE TypeOK'
  OBVIOUS
<1> USE DEF Inv, TypeOK
<1>1. CASE Begin
  BY <1>1 DEF Begin, At, Goto, gameVars, history
<1>2. CASE SkipRepeated
  <2>1. PICK next \in Candidates : TakeNext(next) /\ live' = Taken(next)
    BY <1>2 DEF SkipRepeated
  <2>2. scn' \in Pointer /\ queue' \in Seq(Address) /\ live' \subseteq Address
    BY <2>1, NextEffect DEF Pointer
  <2> QED
    BY <1>2, <2>2 DEF SkipRepeated, At, gameVars, history
<1>3. CASE NextGame
  <2>1. PICK next \in Candidates : /\ TakeNext(next)
                                   /\ \E copy \in Address \ (Taken(next) \ {scn}) :
                                         /\ live' = (Taken(next) \ {scn}) \cup {copy}
                                         /\ gameScen' = copy
                                   /\ \E set \in SUBSET Faults : Fault(set)
    BY <1>3 DEF NextGame, Faults
  <2>2. /\ scn' \in Pointer /\ queue' \in Seq(Address) /\ live' \subseteq Address
        /\ gameScen' \in Pointer
    BY <2>1, NextEffect DEF Pointer
  <2>3. faults' \subseteq Faults /\ alive' \in BOOLEAN
    BY <2>1 DEF Fault
  <2>4. pc' = [pc EXCEPT !["worker"] = "start"]
    BY <1>3 DEF NextGame, Goto
  <2> QED
    BY <1>3, <2>2, <2>3, <2>4 DEF NextGame
<1>4. CASE StartGame
  BY <1>4 DEF StartGame, At, Goto, gameVars, history, Faults
<1>5. CASE PlayerCommand
  BY <1>5 DEF PlayerCommand, At, Goto, gameVars, history
<1>6. CASE Enqueue
  <2>1. queue' \in Seq(Address) /\ live' \subseteq Address
    BY <1>6, RangeAppend DEF Enqueue
  <2> QED
    BY <1>6, <2>1 DEF Enqueue, Goto, Nobody, gameVars, history
<1>7. CASE GameOver
  BY <1>7 DEF GameOver, At, Goto, Faults
<1>8. CASE BreakOff
  BY <1>8 DEF BreakOff, At, Goto, gameVars, history
<1>9. CASE GiveUp
  <2>1. faults' = faults \cup {"freedHost"} /\ alive' \in BOOLEAN
    BY <1>9 DEF GiveUp, Fault
  <2>2. faults' \subseteq Faults
    BY <2>1 DEF Faults
  <2>3. pc' = [pc EXCEPT !["worker"] = "ended"] /\ live' \subseteq Address /\ fails' \in Nat
    BY <1>9 DEF GiveUp, Goto, WithoutGame
  <2> QED
    BY <1>9, <2>1, <2>2, <2>3 DEF GiveUp
<1>10. CASE Judge
  <2>1. CASE queue' = queue /\ replayed' = replayed
    BY <1>10, <2>1 DEF Judge, Goto, WithoutGame
  <2>2. CASE queue' = Append(queue, gameScen) /\ replayed' = TRUE
    <3>1. currentGame = "live" /\ gameScen \in Address
      BY <1>10 DEF Judge, At, Places, Pointers
    <3>2. queue' \in Seq(Address)
      BY <2>2, <3>1, RangeAppend
    <3> QED
      BY <1>10, <2>2, <3>2 DEF Judge, Goto, WithoutGame
  <2> QED
    BY <1>10, <2>1, <2>2 DEF Judge
<1>11. CASE Leave
  BY <1>11 DEF Leave, At, Goto, gameVars, history
<1>12. CASE SoftEnd
  <2>1. /\ work' \in BOOLEAN
        /\ UNCHANGED <<fails, queue, currentGame, gameScen, gameStatus, scn, live, hostLock,
                       gameLock, pc, faults, streak>>
    BY <1>12 DEF SoftEnd, gameVars, history
  <2>2. UNCHANGED <<freed, alive, replayed>>
    BY <1>12 DEF SoftEnd, gameVars, history
  <2>3. freed' \in BOOLEAN /\ alive' \in BOOLEAN /\ replayed' \in BOOLEAN
    BY <2>2
  <2> QED
    BY <2>1, <2>3
<1>13. CASE CallDestructor
  BY <1>13 DEF CallDestructor, At, Goto, gameVars, history
<1>14. CASE StopWork
  BY <1>14 DEF StopWork, At, Goto, gameVars, history
<1>15. CASE StopFreed
  BY <1>15 DEF StopFreed, At, gameVars, Faults
<1>16. CASE DeleteGame
  BY <1>16 DEF DeleteGame, At, Goto, Fault, gameVars, history, Faults
<1>17. CASE GameDeleted
  BY <1>17 DEF GameDeleted, At, Goto, history, WithoutGame
<1>18. CASE Join
  BY <1>18 DEF Join, At, Goto, gameVars, history
<1>19. CASE UNCHANGED vars
  BY <1>19 DEF vars
<1> QED
  BY <1>1, <1>2, <1>3, <1>4, <1>5, <1>6, <1>7, <1>8, <1>9, <1>10,
     <1>11, <1>12, <1>13, <1>14, <1>15, <1>16, <1>17, <1>18, <1>19
     DEF Next, WorkerStep, DestroyerStep

(* Who has the host's lock, and that work stays false.                     *)
LEMMA PlacesKeep == Inv /\ [Next]_vars => Places'
<1> SUFFICES ASSUME Inv, [Next]_vars PROVE Places'
  OBVIOUS
<1> USE DEF Inv, TypeOK, Places
<1>1. CASE Begin
  BY <1>1 DEF Begin, At, Goto, gameVars, history, Nobody
<1>2. CASE SkipRepeated
  BY <1>2 DEF SkipRepeated, At, gameVars, history
<1>3. CASE NextGame
  BY <1>3 DEF NextGame, At, Goto, Fault, Nobody
<1>4. CASE StartGame
  BY <1>4 DEF StartGame, At, Goto, gameVars, history
<1>5. CASE PlayerCommand
  BY <1>5 DEF PlayerCommand, At, Goto, gameVars, history, Nobody
<1>6. CASE Enqueue
  BY <1>6 DEF Enqueue, At, Goto, gameVars, history, Nobody
<1>7. CASE GameOver
  BY <1>7 DEF GameOver, At, Goto
<1>8. CASE BreakOff
  BY <1>8 DEF BreakOff, At, Goto, gameVars, history, Nobody
<1>9. CASE GiveUp
  BY <1>9 DEF GiveUp, At, Goto, Fault, WithoutGame, Nobody
<1>10. CASE Judge
  BY <1>10 DEF Judge, At, Goto, WithoutGame, Nobody
<1>11. CASE Leave
  BY <1>11 DEF Leave, At, Goto, gameVars, history, Nobody
<1>12. CASE SoftEnd
  BY <1>12 DEF SoftEnd, gameVars, history
<1>13. CASE CallDestructor
  BY <1>13 DEF CallDestructor, At, Goto, gameVars, history
<1>14. CASE StopWork
  BY <1>14 DEF StopWork, At, Goto, gameVars, history, Nobody
<1>15. CASE StopFreed
  BY <1>15 DEF StopFreed, At, gameVars
<1>16. CASE DeleteGame
  BY <1>16 DEF DeleteGame, At, Goto, Fault, gameVars, history, Nobody
<1>17. CASE GameDeleted
  BY <1>17 DEF GameDeleted, At, Goto, history, WithoutGame, Nobody
<1>18. CASE Join
  BY <1>18 DEF Join, At, Goto, gameVars, history
<1>19. CASE UNCHANGED vars
  BY <1>19 DEF vars
<1> QED
  BY <1>1, <1>2, <1>3, <1>4, <1>5, <1>6, <1>7, <1>8, <1>9, <1>10,
     <1>11, <1>12, <1>13, <1>14, <1>15, <1>16, <1>17, <1>18, <1>19
     DEF Next, WorkerStep, DestroyerStep

(* CurrentGame, from Work's assignments and the destructor's.              *)
LEMMA PointersKeep == Inv /\ [Next]_vars => Pointers'
<1> SUFFICES ASSUME Inv, [Next]_vars PROVE Pointers'
  OBVIOUS
<1> USE DEF Inv, TypeOK, Places, Pointers
<1>1. CASE Begin
  BY <1>1 DEF Begin, At, Goto, gameVars, history, Null
<1>2. CASE SkipRepeated
  BY <1>2 DEF SkipRepeated, At, gameVars, history
<1>3. CASE NextGame
  BY <1>3 DEF NextGame, At, Goto, Fault, Null
<1>4. CASE StartGame
  BY <1>4 DEF StartGame, At, Goto, gameVars, history, Null
<1>5. CASE PlayerCommand
  BY <1>5 DEF PlayerCommand, At, Goto, gameVars, history
<1>6. CASE Enqueue
  BY <1>6 DEF Enqueue, At, Goto, gameVars, history
<1>7. CASE GameOver
  BY <1>7 DEF GameOver, At, Goto
<1>8. CASE BreakOff
  BY <1>8 DEF BreakOff, At, Goto, gameVars, history
<1>9. CASE GiveUp
  BY <1>9 DEF GiveUp, At, Goto, Fault, WithoutGame, Null
<1>10. CASE Judge
  BY <1>10, EndingsAssumption DEF Judge, At, Goto, WithoutGame
<1>11. CASE Leave
  BY <1>11 DEF Leave, At, Goto, gameVars, history
<1>12. CASE SoftEnd
  BY <1>12, EndingsAssumption DEF SoftEnd, gameVars, history
<1>13. CASE CallDestructor
  BY <1>13 DEF CallDestructor, At, Goto, gameVars, history
<1>14. CASE StopWork
  BY <1>14 DEF StopWork, At, Goto, gameVars, history, Nobody
<1>15. CASE StopFreed
  BY <1>15 DEF StopFreed, At, gameVars
<1>16. CASE DeleteGame
  BY <1>16 DEF DeleteGame, At, Goto, Fault, gameVars, history, Null
<1>17. CASE GameDeleted
  BY <1>17 DEF GameDeleted, At, Goto, history, WithoutGame, Null
<1>18. CASE Join
  BY <1>18 DEF Join, At, Goto, gameVars, history
<1>19. CASE UNCHANGED vars
  BY <1>19 DEF vars
<1> QED
  BY <1>1, <1>2, <1>3, <1>4, <1>5, <1>6, <1>7, <1>8, <1>9, <1>10,
     <1>11, <1>12, <1>13, <1>14, <1>15, <1>16, <1>17, <1>18, <1>19
     DEF Next, WorkerStep, DestroyerStep

(* Fails counts the games that have failed in a row.                       *)
LEMMA CountsKeep == Inv /\ [Next]_vars => Counts'
<1> SUFFICES ASSUME Inv, [Next]_vars PROVE Counts'
  OBVIOUS
<1> USE DEF Inv, TypeOK, Places, Counts, FailsReached
<1>1. CASE Begin
  BY <1>1 DEF Begin, At, Goto, gameVars, history
<1>2. CASE SkipRepeated
  BY <1>2 DEF SkipRepeated, At, gameVars, history
<1>3. CASE NextGame
  BY <1>3 DEF NextGame, At, Goto, Fault
<1>4. CASE StartGame
  BY <1>4 DEF StartGame, At, Goto, gameVars, history
<1>5. CASE PlayerCommand
  BY <1>5 DEF PlayerCommand, At, Goto, gameVars, history
<1>6. CASE Enqueue
  BY <1>6 DEF Enqueue, At, Goto, gameVars, history
<1>7. CASE GameOver
  BY <1>7 DEF GameOver, At, Goto
<1>8. CASE BreakOff
  BY <1>8 DEF BreakOff, At, Goto, gameVars, history
<1>9. CASE GiveUp
  BY <1>9 DEF GiveUp, At, Goto, Fault, WithoutGame
<1>10. CASE Judge
  <2>1. /\ pc.worker = "judge" /\ pc' = [pc EXCEPT !["worker"] = "loop"]
        /\ UNCHANGED <<streak, freed>>
    BY <1>10 DEF Judge, At, Goto
  <2>2. streak = fails' /\ (streak = 0 \/ streak < MaxExecTrials)
    <3>1. CASE gameStatus = "Failed"
      <4>1. fails' = fails + 1 /\ ~(fails + 1 >= MaxExecTrials)
        BY <1>10, <3>1 DEF Judge
      <4> QED
        BY <2>1, <3>1, <4>1, LimitsAssumption
    <3>2. CASE gameStatus # "Failed"
      BY <1>10, <2>1, <3>2 DEF Judge
    <3> QED
      BY <3>1, <3>2
  <2> QED
    BY <2>1, <2>2
<1>11. CASE Leave
  BY <1>11 DEF Leave, At, Goto, gameVars, history
<1>12. CASE SoftEnd
  BY <1>12 DEF SoftEnd, gameVars, history
<1>13. CASE CallDestructor
  BY <1>13 DEF CallDestructor, At, Goto, gameVars, history
<1>14. CASE StopWork
  BY <1>14 DEF StopWork, At, Goto, gameVars, history
<1>15. CASE StopFreed
  BY <1>15 DEF StopFreed, At, gameVars
<1>16. CASE DeleteGame
  BY <1>16 DEF DeleteGame, At, Goto, Fault, gameVars, history
<1>17. CASE GameDeleted
  BY <1>17 DEF GameDeleted, At, Goto, history, WithoutGame
<1>18. CASE Join
  BY <1>18 DEF Join, At, Goto, gameVars, history
<1>19. CASE UNCHANGED vars
  BY <1>19 DEF vars
<1> QED
  BY <1>1, <1>2, <1>3, <1>4, <1>5, <1>6, <1>7, <1>8, <1>9, <1>10,
     <1>11, <1>12, <1>13, <1>14, <1>15, <1>16, <1>17, <1>18, <1>19
     DEF Next, WorkerStep, DestroyerStep

(* Where invalid accesses come from.                                       *)
LEMMA CausesKeep == Inv /\ [Next]_vars => Causes'
<1> SUFFICES ASSUME Inv, [Next]_vars PROVE Causes'
  OBVIOUS
<1> USE DEF Inv, TypeOK, Places, Pointers, Counts, Causes, FailsReached
<1>1. CASE Begin
  BY <1>1 DEF Begin, At, Goto, gameVars, history
<1>2. CASE SkipRepeated
  BY <1>2 DEF SkipRepeated, At, gameVars, history
<1>3. CASE NextGame
  <2>1. PICK next \in Candidates : /\ TakeNext(next) /\ ~Repeats(next)
                                   /\ Fault(IF /\ scn \in Taken(next) \cup {Null}
                                               /\ next \in Taken(next) \ {scn}
                                            THEN {} ELSE {"freedScen"})
    BY <1>3 DEF NextGame
  <2>2. ~replayed => scn \in Taken(next) \cup {Null} /\ next \in Taken(next) \ {scn}
    <3> SUFFICES ASSUME ~replayed
                 PROVE  scn \in Taken(next) \cup {Null} /\ next \in Taken(next) \ {scn}
      OBVIOUS
    <3>1. /\ live = Range(queue) \cup Games \cup Works
          /\ Range(queue) \cap Works = {}
      BY DEF OneOwner
    <3>2. scn \in live \cup {Null} /\ scn \notin Range(queue)
      BY <3>1, AddressAssumption DEF Works, Range
    <3>3. CASE queue = <<>>
      BY <2>1, <3>2, <3>3, NextEffect, AddressAssumption
    <3>4. CASE queue # <<>>
      <4>1. next = Head(queue) /\ Taken(next) = live
        BY <2>1, <3>4, NextEffect
      <4>2. next \in Range(queue)
        BY <3>4, <4>1, RangeTail
      <4> QED
        BY <3>1, <3>2, <4>1, <4>2
    <3> QED
      BY <3>3, <3>4
  <2>3. faults' \subseteq faults \cup (IF replayed THEN {"freedScen"} ELSE {})
    BY <2>1, <2>2 DEF Fault
  <2>4. UNCHANGED <<work, freed, streak, replayed>> /\ pc'.destroyer = pc.destroyer
    BY <1>3 DEF NextGame, Goto
  <2> QED
    BY <2>3, <2>4
<1>4. CASE StartGame
  <2>1. CASE currentGame = "live"
    BY <1>4, <2>1 DEF StartGame, Goto, history
  <2>2. CASE currentGame # "live"
    <3>1. currentGame = Null /\ pc.destroyer \in {"join", "gone"}
      BY <1>4, <2>2 DEF StartGame, At
    <3>2. faults' = faults \cup {"nullGame"} /\ UNCHANGED <<pc, work, freed, streak, replayed>>
      BY <1>4, <2>2, <3>1 DEF StartGame
    <3> QED
      BY <3>1, <3>2
  <2> QED
    BY <2>1, <2>2
<1>5. CASE PlayerCommand
  BY <1>5 DEF PlayerCommand, At, Goto, gameVars, history
<1>6. CASE Enqueue
  BY <1>6 DEF Enqueue, At, Goto, gameVars, history
<1>7. CASE GameOver
  BY <1>7 DEF GameOver, At, Goto
<1>8. CASE BreakOff
  BY <1>8 DEF BreakOff, At, Goto, gameVars, history
<1>9. CASE GiveUp
  BY <1>9 DEF GiveUp, At, Goto, Fault, WithoutGame
<1>10. CASE Judge
  BY <1>10 DEF Judge, At, Goto, WithoutGame
<1>11. CASE Leave
  BY <1>11 DEF Leave, At, Goto, gameVars, history
<1>12. CASE SoftEnd
  BY <1>12 DEF SoftEnd, gameVars, history
<1>13. CASE CallDestructor
  BY <1>13 DEF CallDestructor, At, Goto, gameVars, history
<1>14. CASE StopWork
  BY <1>14 DEF StopWork, At, Goto, gameVars, history
<1>15. CASE StopFreed
  BY <1>15 DEF StopFreed, At, gameVars
<1>16. CASE DeleteGame
  <2>1. /\ UNCHANGED <<work, freed, streak, replayed>>
        /\ pc.destroyer = "deleteGame" /\ pc'.destroyer \in {"awaitGame", "join"}
    BY <1>16 DEF DeleteGame, At, Goto, history
  <2>2. \/ faults' = faults
        \/ faults' = faults \cup {"freedGame"} /\ currentGame = "deleted"
    BY <1>16 DEF DeleteGame, Fault, history
  <2>3. currentGame = "deleted" => MaySoftEnd = TRUE /\ work = FALSE
    BY <2>1
  <2>4. pc.destroyer \notin {"join", "gone"}
    BY <2>1
  <2> QED
    BY <2>1, <2>2, <2>3, <2>4
<1>17. CASE GameDeleted
  BY <1>17 DEF GameDeleted, At, Goto, history, WithoutGame
<1>18. CASE Join
  BY <1>18 DEF Join, At, Goto, gameVars, history
<1>19. CASE UNCHANGED vars
  BY <1>19 DEF vars
<1> QED
  BY <1>1, <1>2, <1>3, <1>4, <1>5, <1>6, <1>7, <1>8, <1>9, <1>10,
     <1>11, <1>12, <1>13, <1>14, <1>15, <1>16, <1>17, <1>18, <1>19
     DEF Next, WorkerStep, DestroyerStep

(* Owners: what changes hands, is made or is deleted.                      *)
LEMMA OwnersKeep == Inv /\ [Next]_vars => OneOwner'
<1> SUFFICES ASSUME Inv, [Next]_vars PROVE OneOwner'
  OBVIOUS
<1> USE DEF Inv, TypeOK, Places, Pointers, OneOwner, Games, Works
<1>1. CASE Begin
  BY <1>1 DEF Begin, At, Goto, gameVars, history, Null
<1>2. CASE SkipRepeated
  <2>1. PICK next \in Candidates : Repeats(next) /\ TakeNext(next)
    BY <1>2 DEF SkipRepeated
  <2>2. next = scn /\ next \in Address /\ scn # Null
    BY <2>1, NextEffect, AddressAssumption DEF Repeats
  <2>3. replayed
    <3> SUFFICES ASSUME ~replayed PROVE FALSE
      OBVIOUS
    <3>1. scn \in live /\ scn \notin Range(queue)
      BY <2>2
    <3>2. CASE queue = <<>>
      BY <2>1, <2>2, <3>1, <3>2, NextEffect
    <3>3. CASE queue # <<>>
      BY <2>1, <2>2, <3>1, <3>3, NextEffect, RangeTail
    <3> QED
      BY <3>2, <3>3
  <2> QED
    BY <1>2, <2>3 DEF SkipRepeated, history
<1>3. CASE NextGame
  <2> SUFFICES ASSUME ~replayed'
               PROVE  /\ live' = Range(queue') \cup {gameScen'} \cup {scn'}
                      /\ IsInjective(queue')
                      /\ Range(queue') \cap {gameScen', scn'} = {}
                      /\ gameScen' # scn' /\ scn' # Null
    BY <1>3 DEF NextGame
  <2>1. PICK next \in Candidates : /\ TakeNext(next)
                                   /\ \E copy \in Address \ (Taken(next) \ {scn}) :
                                         /\ live' = (Taken(next) \ {scn}) \cup {copy}
                                         /\ gameScen' = copy
    BY <1>3 DEF NextGame
  <2>2. ~replayed /\ Games = {}
    BY <1>3 DEF NextGame, At
  <2>3. /\ live = Range(queue) \cup Works /\ IsInjective(queue)
        /\ Range(queue) \cap Works = {}
    BY <2>2
  <2>4. next \in Address /\ next # Null /\ scn' = next
    BY <2>1, NextEffect, AddressAssumption
  <2>5. /\ Taken(next) \ {scn} = Range(queue') \cup {next}
        /\ next \notin Range(queue') /\ IsInjective(queue')
    <3>1. Null \notin Range(queue) /\ scn \notin Range(queue)
      BY <2>3, AddressAssumption DEF Range
    <3>2. CASE queue = <<>>
      <4>1. Range(queue) = {}
        BY <3>2 DEF Range
      <4> QED
        BY <2>1, <2>3, <2>4, <3>1, <3>2, <4>1, NextEffect
    <3>3. CASE queue # <<>>
      <4>1. /\ Range(queue) = {next} \cup Range(queue') /\ Taken(next) = live
            /\ next \notin Range(queue') /\ IsInjective(queue')
        <5>1. next = Head(queue) /\ queue' = Tail(queue) /\ Taken(next) = live
          BY <2>1, <3>3, NextEffect
        <5> QED
          BY <2>3, <3>3, <5>1, RangeTail
      <4> QED
        BY <2>3, <3>1, <4>1
    <3> QED
      BY <3>2, <3>3
  <2> QED
    BY <2>1, <2>4, <2>5
<1>4. CASE StartGame
  BY <1>4 DEF StartGame, At, Goto, gameVars, history, Null
<1>5. CASE PlayerCommand
  BY <1>5 DEF PlayerCommand, At, Goto, gameVars, history
<1>6. CASE Enqueue
  <2>1. UNCHANGED <<scn, gameScen, currentGame, replayed>>
    BY <1>6 DEF Enqueue, gameVars, history
  <2>2. CASE UNCHANGED <<queue, live>>
    BY <2>1, <2>2
  <2>3. CASE \E copy \in Address \ live : /\ queue' = Append(queue, copy)
                                         /\ live' = live \cup {copy}
    <3>1. PICK copy \in Address \ live : /\ queue' = Append(queue, copy)
                                        /\ live' = live \cup {copy}
      BY <2>3
    <3>2. /\ Range(queue') = Range(queue) \cup {copy}
          /\ IsInjective(queue) /\ copy \notin Range(queue) => IsInjective(queue')
      BY <3>1, RangeAppend
    <3> QED
      BY <2>1, <3>1, <3>2
  <2> QED
    BY <1>6, <2>2, <2>3 DEF Enqueue
<1>7. CASE GameOver
  BY <1>7 DEF GameOver, At, Goto
<1>8. CASE BreakOff
  BY <1>8 DEF BreakOff, At, Goto, gameVars, history
<1>9. CASE GiveUp
  <2>1. /\ UNCHANGED <<queue, scn, replayed>> /\ currentGame' = Null
        /\ live' = live \ {gameScen} /\ pc.worker = "judge" /\ work = TRUE
    BY <1>9 DEF GiveUp, At, WithoutGame
  <2>2. Games = {gameScen}
    BY <2>1
  <2>3. Games' = {}
    BY <2>1 DEF Null
  <2> QED
    BY <2>1, <2>2, <2>3
<1>10. CASE Judge
  <2> SUFFICES ASSUME ~replayed' PROVE OneOwner'
    OBVIOUS
  <2>1. /\ UNCHANGED <<queue, scn, replayed>> /\ currentGame' = "deleted"
        /\ live' = live \ {gameScen} /\ pc.worker = "judge" /\ work = TRUE
    BY <1>10 DEF Judge, At, WithoutGame
  <2>2. Games = {gameScen}
    BY <2>1
  <2> QED
    BY <2>1, <2>2
<1>11. CASE Leave
  BY <1>11 DEF Leave, At, Goto, gameVars, history
<1>12. CASE SoftEnd
  BY <1>12 DEF SoftEnd, gameVars, history
<1>13. CASE CallDestructor
  BY <1>13 DEF CallDestructor, At, Goto, gameVars, history
<1>14. CASE StopWork
  BY <1>14 DEF StopWork, At, Goto, gameVars, history
<1>15. CASE StopFreed
  BY <1>15 DEF StopFreed, At, gameVars
<1>16. CASE DeleteGame
  <2>1. UNCHANGED <<queue, scn, live, replayed, gameScen>>
    BY <1>16 DEF DeleteGame, gameVars, history
  <2>2. (currentGame' = "live") <=> (currentGame = "live")
    BY <1>16 DEF DeleteGame, gameVars, Null
  <2> QED
    BY <2>1, <2>2
<1>17. CASE GameDeleted
  <2>1. /\ UNCHANGED <<queue, scn, replayed>> /\ currentGame' = Null
        /\ live' = live \ {gameScen} /\ pc.destroyer = "awaitGame"
    BY <1>17 DEF GameDeleted, At, WithoutGame, history
  <2>2. Games = {gameScen}
    BY <2>1
  <2>3. Games' = {}
    BY <2>1 DEF Null
  <2> QED
    BY <2>1, <2>2, <2>3
<1>18. CASE Join
  BY <1>18 DEF Join, At, Goto, gameVars, history
<1>19. CASE UNCHANGED vars
  BY <1>19 DEF vars
<1> QED
  BY <1>1, <1>2, <1>3, <1>4, <1>5, <1>6, <1>7, <1>8, <1>9, <1>10,
     <1>11, <1>12, <1>13, <1>14, <1>15, <1>16, <1>17, <1>18, <1>19
     DEF Next, WorkerStep, DestroyerStep

(* The constructor has made a host without game and scenario.              *)
LEMMA InitInv == Init => Inv
<1> SUFFICES ASSUME Init PROVE Inv
  OBVIOUS
<1> USE DEF Init
<1>1. TypeOK
  <2>1. <<>> \in Seq(Address)
    BY EmptySeq
  <2> QED
    BY <2>1 DEF TypeOK, Pointer, Nobody, Null
<1>2. OneOwner
  BY DEF OneOwner, Games, Works, Null, Range, IsInjective
<1>3. Places /\ Pointers /\ Causes
  BY DEF Places, Pointers, Causes, Nobody, Null
<1>4. Counts
  BY DEF Counts
<1> QED
  BY <1>1, <1>2, <1>3, <1>4 DEF Inv

(* A step keeps the invariant.                                             *)
LEMMA StepInv == Inv /\ [Next]_vars => Inv'
  BY TypeKeeps, PlacesKeep, PointersKeep, CountsKeep, OwnersKeep, CausesKeep DEF Inv

-----------------------------------------------------------------------------
(* The theorems.                                                           *)

(* The invariant.                                                          *)
THEOREM InvHolds == Spec => []Inv
  BY InitInv, StepInv, PTL DEF Spec

(* Types.                                                                  *)
THEOREM TypesHold == Spec => []TypeOK
<1>1. Inv => TypeOK
  BY DEF Inv
<1> QED
  BY <1>1, InvHolds, PTL

(* For any size of the queue: Work, Enqueue and ~Game delete no scenario   *)
(* twice and lose none, until a played one is queued again.                *)
THEOREM ScenariosHaveOneOwner == Spec => []OneOwner
<1>1. Inv => OneOwner
  BY DEF Inv
<1> QED
  BY <1>1, InvHolds, PTL

(* Who has the host locked follows no pointer to a deleted game while the  *)
(* host works.                                                             *)
THEOREM CurrentGameIsValid == Spec => []GamePointerValid
<1>1. Inv => GamePointerValid
  BY DEF Inv, TypeOK, Places, Pointers, GamePointerValid, Nobody
<1> QED
  BY <1>1, InvHolds, PTL

(* The host ends itself after MaxExecTrials failed games in a row and not  *)
(* before.                                                                 *)
THEOREM GivingUpIsEarned == Spec => []GivesUpOnStreak
<1>1. Inv => GivesUpOnStreak
  BY DEF Inv, Counts, GivesUpOnStreak
<1> QED
  BY <1>1, InvHolds, PTL

(* What each invalid access needs to have happened before.                 *)
THEOREM FaultsAlwaysHaveCauses == Spec => []FaultsHaveCauses
<1>1. Inv => FaultsHaveCauses
  BY DEF Inv, TypeOK, Causes, FaultsHaveCauses
<1> QED
  BY <1>1, InvHolds, PTL
=============================================================================
