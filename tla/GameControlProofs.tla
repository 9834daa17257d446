------------------------- MODULE GameControlProofs -------------------------
(***************************************************************************)
(* Proofs about GameControl, for any MaxExecTrials and whatever may go     *)
(* wrong.  The invariant is a conjunction of parts, each with a lemma of   *)
(* its own: a part is inductive relative to the parts before it.           *)
(***************************************************************************)
EXTENDS GameControl, FiniteSetTheorems, FunctionTheorems, SequenceTheorems, TLAPS

-----------------------------------------------------------------------------
(* The stack.                                                              *)

\* FramesOf, of any sequence.
Count(s, kinds) == Cardinality({i \in DOMAIN s : s[i] \in kinds})

(* The number of frames of some kinds is a number.                         *)
LEMMA CountType ==
  ASSUME NEW s \in Seq(Frames), NEW kinds
  PROVE  /\ IsFiniteSet({i \in DOMAIN s : s[i] \in kinds})
         /\ Count(s, kinds) \in Nat
<1> DEFINE I == {i \in DOMAIN s : s[i] \in kinds}
<1>1. Len(s) \in Nat /\ DOMAIN s = 1 .. Len(s)
  BY LenProperties
<1>2. IsFiniteSet(1 .. Len(s))
  BY <1>1, FS_Interval
<1>3. IsFiniteSet(I)
  BY <1>1, <1>2, FS_Subset
<1> QED
  BY <1>3, FS_CardinalityType DEF Count

(* A frame less.                                                           *)
LEMMA CountTail ==
  ASSUME NEW s \in Seq(Frames), s # <<>>, NEW kinds
  PROVE  Count(s, kinds) = Count(Tail(s), kinds) + (IF Head(s) \in kinds THEN 1 ELSE 0)
<1> DEFINE I == {i \in DOMAIN s : s[i] \in kinds}
           J == {j \in DOMAIN Tail(s) : Tail(s)[j] \in kinds}
           R == I \ {1}
           f == [j \in J |-> j + 1]
<1>1. /\ Len(s) \in Nat /\ Len(s) > 0 /\ DOMAIN s = 1 .. Len(s)
      /\ Tail(s) \in Seq(Frames)
      /\ DOMAIN Tail(s) = 1 .. Len(s) - 1
      /\ \A i \in 1 .. Len(s) - 1 : Tail(s)[i] = s[i + 1]
      /\ Head(s) = s[1]
  BY LenProperties, HeadTailProperties, EmptySeq
<1>2. IsFiniteSet(I) /\ Cardinality(I) \in Nat
  BY CountType DEF Count
<1>3. IsFiniteSet(J) /\ Cardinality(J) \in Nat
  BY <1>1, CountType DEF Count
<1>4. f \in Bijection(J, R)
  <2>1. \A j \in J : f[j] \in R
    BY <1>1
  <2>2. \A j, k \in J : f[j] = f[k] => j = k
    BY <1>1
  <2>3. \A i \in R : \E j \in J : f[j] = i
    <3> SUFFICES ASSUME NEW i \in R PROVE \E j \in J : f[j] = i
      OBVIOUS
    <3>1. i - 1 \in J /\ f[i - 1] = i
      BY <1>1
    <3> QED
      BY <3>1
  <2> QED
    BY <2>1, <2>2, <2>3 DEF Bijection, Injection, Surjection, IsInjective
<1>5. Cardinality(R) = Cardinality(J)
  BY <1>3, <1>4, FS_Bijection DEF ExistsBijection
<1>6. Cardinality(R) = IF 1 \in I THEN Cardinality(I) - 1 ELSE Cardinality(I)
  BY <1>2, FS_RemoveElement
<1>7. 1 \in I <=> Head(s) \in kinds
  BY <1>1
<1>8. Count(s, kinds) = Cardinality(I) /\ Count(Tail(s), kinds) = Cardinality(J)
  BY DEF Count
<1> HIDE DEF I, J, R
<1> QED
  BY <1>2, <1>3, <1>5, <1>6, <1>7, <1>8

(* A frame more.                                                           *)
LEMMA CountPush ==
  ASSUME NEW s \in Seq(Frames), NEW frame \in Frames, NEW kinds
  PROVE  /\ <<frame>> \o s \in Seq(Frames)
         /\ Count(<<frame>> \o s, kinds)
              = Count(s, kinds) + (IF frame \in kinds THEN 1 ELSE 0)
<1>1. /\ <<frame>> \o s \in Seq(Frames)
      /\ <<frame>> \o s # <<>>
      /\ Head(<<frame>> \o s) = frame
      /\ Tail(<<frame>> \o s) = s
  OBVIOUS
<1> QED
  BY <1>1, CountTail

(* Start is called with nothing suspended.                                 *)
LEMMA CountEmpty == \A kinds : Count(<<>>, kinds) = 0
  BY FS_EmptySet DEF Count

-----------------------------------------------------------------------------
(* Types, and what the control thread holds.  Neither is inductive alone:  *)
(* that a lock is given back one never had is excluded by the frames.      *)

Holders == {Nobody, "control", "destroyer"}

MutexWellFormed ==
    /\ controlmutex.owner \in Holders
    /\ controlmutex.owner = Nobody => controlmutex.depth = 0

Balanced == TypeOK /\ LocksBalanced /\ MutexWellFormed

(* A new Game has no frames and no locks.                                  *)
LEMMA InitBalanced == Init => Balanced
<1> SUFFICES ASSUME Init PROVE Balanced
  OBVIOUS
<1>1. TypeOK
  <2>1. cleanup \in BOOLEAN /\ alive \in BOOLEAN
    BY DEF Init
  <2>2. pc \in PC
    BY DEF Init, PC
  <2>3. Lock!TypeOK /\ controlmutex \in [owner : Threads \cup {Nobody}, depth : Nat]
    BY DEF Init, Lock!Init, Lock!TypeOK, Nobody
  <2>4. stack \in Seq(Frames) /\ faults \subseteq Faults
    BY DEF Init
  <2> QED
    BY <2>1, <2>2, <2>3, <2>4 DEF Init, TypeOK, GameStatus, Lines
<1>2. \A kinds : FramesOf(kinds) = 0
  BY CountEmpty DEF Init, FramesOf, Count
<1>3. LocksBalanced /\ MutexWellFormed
  BY <1>2 DEF Init, LocksBalanced, MutexWellFormed, Holders, Nobody, InControl, Lock!Init, Threads
<1> QED
  BY <1>1, <1>3 DEF Balanced

-----------------------------------------------------------------------------
(* The parts of the invariant.                                             *)

\* Launches so far against failures so far; with a launch ahead there is one
\* failure at least for each that was made, and an attempt is left.
Attempts ==
    /\ starts <= execTrials + 1
    /\ pc.control \in {"start", "launch", "retry"} =>
          starts <= execTrials /\ (starts = 0 \/ execTrials < MaxExecTrials)
    /\ AttemptsBounded

\* Who has launched late finds cleanup set when he comes to Fail.
LateStarts ==
    /\ OneLateStart
    /\ lateStarts = 1 => cleanup /\ pc.control \notin {"start", "launch"}

\* The destructor sets cleanup first and keeps controlmutex for good.
Deletion ==
    /\ pc.destroyer # "idle" => cleanup
    /\ pc.destroyer \in {"waited", "gone"} => controlmutex.owner = "destroyer"

\* An admin's read lock keeps the object and its engine where they are.
AdminReads ==
    /\ pc.admin # "idle" => reads["admin"] > 0 /\ ~Gone
    /\ pc.admin = "write" => clonk = "active"

\* The pointer is null for Control after a retry or a deletion only, and
\* nothing is suspended before the first failure.
Causes ==
    /\ scen = "freed" => cleanup
    /\ execTrials = 0 => stack = <<>> \/ pc.control = "fail"
    /\ clonk = "null" /\ pc.control = "reading" => cleanup
    /\ clonk = "null" /\ pc.control \in {"control", "read", "line"}
          => cleanup \/ execTrials > 0
    /\ FaultsHaveCauses

\* Control never runs in a game that is still being set up, and what returns
\* has a verdict.
Verdicts ==
    /\ status = "Failed" => execTrials >= MaxExecTrials
    /\ status = "Setting" => pc.control # "control" /\ controlmutex.owner # "control"
    /\ pc.control \in {"return", "done"} =>
          status \in {"Lobby", "Load", "Run", "Failed"} \/ cleanup

Inv == Balanced /\ Attempts /\ LateStarts /\ Deletion /\ AdminReads /\ Causes /\ Verdicts

-----------------------------------------------------------------------------
(* Steps: the frames.                                                      *)

(* The same of the stack itself.                                           *)
LEMMA FramesType == TypeOK => \A kinds : FramesOf(kinds) \in Nat
  BY CountType DEF TypeOK, FramesOf, Count

(* A call leaves the caller's frame.                                       *)
LEMMA FramesPushed ==
  ASSUME NEW frame \in Frames, TypeOK, Push(frame)
  PROVE  /\ stack' \in Seq(Frames)
         /\ \A kinds : FramesOf(kinds)' = FramesOf(kinds) + (IF frame \in kinds THEN 1 ELSE 0)
<1>1. stack \in Seq(Frames) /\ stack' = <<frame>> \o stack
  BY DEF TypeOK, Push
<1>2. stack' \in Seq(Frames)
  BY <1>1, CountPush
<1>3. \A kinds : Count(stack', kinds) = Count(stack, kinds) + (IF frame \in kinds THEN 1 ELSE 0)
  BY <1>1, CountPush
<1> QED
  BY <1>2, <1>3 DEF FramesOf, Count

(* A return takes it away.                                                 *)
LEMMA FramesPopped ==
  ASSUME NEW frame \in Frames, TypeOK, ReturnTo(frame)
  PROVE  /\ stack' \in Seq(Frames)
         /\ \A kinds : /\ FramesOf(kinds)' \in Nat
                       /\ FramesOf(kinds) = FramesOf(kinds)' + (IF frame \in kinds THEN 1 ELSE 0)
<1>1. stack \in Seq(Frames) /\ stack # <<>> /\ Head(stack) = frame /\ stack' = Tail(stack)
  BY DEF TypeOK, ReturnTo
<1>2. stack' \in Seq(Frames)
  BY <1>1
<1>3. \A kinds : /\ Count(stack', kinds) \in Nat
                 /\ Count(stack, kinds) = Count(stack', kinds) + (IF frame \in kinds THEN 1 ELSE 0)
  BY <1>1, <1>2, CountTail, CountType
<1> QED
  BY <1>2, <1>3 DEF FramesOf, Count

(* No call, no return.                                                     *)
LEMMA FramesKept == UNCHANGED stack => \A kinds : FramesOf(kinds)' = FramesOf(kinds)
  BY DEF FramesOf

-----------------------------------------------------------------------------
(* Steps: types and locks.                                                 *)

(* The types of all but the locks and the stack.                           *)
LEMMA TypesStep ==
  ASSUME TypeOK, Next
  PROVE  /\ status' \in GameStatus /\ clonk' \in {"null", "prerun", "active"}
         /\ engine' \in {"none", "up", "exited"} /\ scen' \in {"set", "freed"}
         /\ execTrials' \in Nat /\ starts' \in Nat /\ lateStarts' \in Nat
         /\ line' \in Lines /\ faults' \subseteq Faults
         /\ cleanup' \in BOOLEAN /\ alive' \in BOOLEAN /\ pc' \in PC
<1> USE DEF Next, ControlStep, BuildCommand, Launch, CountFailure, Retry,
            EnterControl, CallReadLine, ReadLine, HandleLine, EndOfOutput,
            Return, ReturnToLaunch, ReturnToFlood, ReturnToEnd, ReturnToHost,
            TouchGone, EngineExit, DestroyerStep, TearDown, AwaitControl,
            FreeObject, SendStep, TimerCheck, TimerWrite, AdminLock,
            AdminCheck, AdminWrite, AdminUnlock, SendVars, TypeOK
<1>1. /\ status' \in GameStatus /\ clonk' \in {"null", "prerun", "active"}
      /\ engine' \in {"none", "up", "exited"} /\ scen' \in {"set", "freed"}
  BY DEF GameStatus, StatusAfter, ReturnTo
<1>2. execTrials' \in Nat /\ starts' \in Nat /\ lateStarts' \in Nat
  BY DEF history, UseScen, Crash, Survive, WriteTo, ReturnTo
<1>3. line' \in Lines /\ faults' \subseteq Faults
  BY DEF history, UseScen, Crash, Survive, WriteTo, ReturnTo, Lines, Faults
<1>4. cleanup' \in BOOLEAN /\ alive' \in BOOLEAN
  BY DEF history, UseScen, Crash, Survive, WriteTo, ReturnTo
<1>5. pc' \in PC
  BY DEF history, UseScen, Crash, Survive, WriteTo, ReturnTo, PC, Goto, At
<1> QED
  BY <1>1, <1>2, <1>3, <1>4, <1>5

(* What the other threads do leaves the control thread's frames and locks. *)
LEMMA OthersKeepFrames ==
  ASSUME TypeOK, EngineExit \/ DestroyerStep \/ SendStep
  PROVE  /\ UNCHANGED <<stack, writes["control"], starts, lateStarts, execTrials, line>>
         /\ pc'.control = pc.control
  BY DEF EngineExit, DestroyerStep, TearDown, AwaitControl, FreeObject, SendStep,
         TimerCheck, TimerWrite, AdminLock, AdminCheck, AdminWrite, AdminUnlock,
         SendVars, TypeOK, history, lockVars, WriteTo, Crash, Goto, At, PC,
         KeepWriting, Lock!TypeOK, Lock!AcquireRead, Lock!ReleaseRead, Threads

(* Each step takes and gives back what the frames before and after it say. *)
LEMMA LocksStep ==
  ASSUME Balanced, Next
  PROVE  /\ stack' \in Seq(Frames) /\ Lock!TypeOK'
         /\ controlmutex' \in [owner : Threads \cup {Nobody}, depth : Nat]
         /\ LocksBalanced' /\ MutexWellFormed'
<1> DEFINE Locks == /\ stack' \in Seq(Frames) /\ Lock!TypeOK'
                    /\ controlmutex' \in [owner : Threads \cup {Nobody}, depth : Nat]
                    /\ LocksBalanced' /\ MutexWellFormed'
<1>1. TypeOK /\ LocksBalanced /\ MutexWellFormed
  BY DEF Balanced
<1>2. \A kinds : FramesOf(kinds) \in Nat
  BY <1>1, FramesType
<1>3. UNCHANGED stack => \A kinds : FramesOf(kinds)' = FramesOf(kinds)
  BY FramesKept
<1> USE DEF TypeOK, LocksBalanced, MutexWellFormed, Holders, Lock!TypeOK,
            Threads, Nobody, PC, At, Goto, InControl, Frames
<1>4. CASE BuildCommand
  BY <1>1, <1>2, <1>3, <1>4 DEF BuildCommand, lockVars
<1>5. CASE Launch
  <2>1. CASE UNCHANGED <<lockVars, stack>> /\ Goto("control", "control")
    BY <1>1, <1>2, <1>3, <1>5, <2>1 DEF Launch, lockVars
  <2>2. CASE KeepWriting("control") /\ Push("launched") /\ Goto("control", "fail")
    <3>1. /\ stack' \in Seq(Frames)
          /\ FramesOf({"launched", "flood"})' = FramesOf({"launched", "flood"}) + 1
          /\ FramesOf({"flood", "end"})' = FramesOf({"flood", "end"})
      BY <1>1, <1>2, <2>2, FramesPushed
    <3> QED
      BY <1>1, <1>2, <1>5, <2>2, <3>1 DEF Launch, KeepWriting
  <2> QED
    BY <1>5, <2>1, <2>2 DEF Launch
<1>6. CASE CountFailure
  BY <1>1, <1>2, <1>3, <1>6 DEF CountFailure, lockVars
<1>7. CASE Retry
  BY <1>1, <1>2, <1>3, <1>7 DEF Retry, lockVars
<1>8. CASE EnterControl
  BY <1>1, <1>2, <1>3, <1>8 DEF EnterControl, LockControl, lockVars
<1>9. CASE CallReadLine
  BY <1>1, <1>2, <1>3, <1>9 DEF CallReadLine, lockVars
<1>10. CASE ReadLine
  BY <1>1, <1>2, <1>3, <1>10 DEF ReadLine, lockVars
<1>11. CASE HandleLine
  <2>1. CASE Push("end") /\ Goto("control", "fail") /\ UNCHANGED lockVars
    <3>1. /\ stack' \in Seq(Frames)
          /\ FramesOf({"launched", "flood"})' = FramesOf({"launched", "flood"})
          /\ FramesOf({"flood", "end"})' = FramesOf({"flood", "end"}) + 1
      BY <1>1, <1>2, <2>1, FramesPushed
    <3> QED
      BY <1>1, <1>2, <1>11, <2>1, <3>1 DEF HandleLine, lockVars
  <2>2. CASE KeepWriting("control") /\ Push("flood") /\ Goto("control", "fail")
    <3>1. /\ stack' \in Seq(Frames)
          /\ FramesOf({"launched", "flood"})' = FramesOf({"launched", "flood"}) + 1
          /\ FramesOf({"flood", "end"})' = FramesOf({"flood", "end"}) + 1
      BY <1>1, <1>2, <2>2, FramesPushed
    <3> QED
      BY <1>1, <1>2, <1>11, <2>2, <3>1 DEF HandleLine, KeepWriting
  <2>3. CASE UNCHANGED <<lockVars, stack>> /\ Goto("control", "read")
    BY <1>1, <1>2, <1>3, <1>11, <2>3 DEF HandleLine, lockVars
  <2> QED
    BY <1>11, <2>1, <2>2, <2>3 DEF HandleLine
<1>12. CASE EndOfOutput
  <2>1. CASE Push("end") /\ Goto("control", "fail") /\ UNCHANGED controlmutex
    <3>1. /\ stack' \in Seq(Frames)
          /\ FramesOf({"launched", "flood"})' = FramesOf({"launched", "flood"})
          /\ FramesOf({"flood", "end"})' = FramesOf({"flood", "end"}) + 1
      BY <1>1, <1>2, <2>1, FramesPushed
    <3> QED
      BY <1>1, <1>2, <1>12, <2>1, <3>1 DEF EndOfOutput, lockVars
  <2>2. CASE UnlockControl /\ Goto("control", "return") /\ UNCHANGED stack
    BY <1>1, <1>2, <1>3, <1>12, <2>2 DEF EndOfOutput, UnlockControl, lockVars
  <2> QED
    BY <1>12, <2>1, <2>2 DEF EndOfOutput
<1>13. CASE ReturnToLaunch
  <2>1. /\ stack' \in Seq(Frames)
        /\ FramesOf({"launched", "flood"}) = FramesOf({"launched", "flood"})' + 1
        /\ FramesOf({"flood", "end"}) = FramesOf({"flood", "end"})'
        /\ FramesOf({"launched", "flood"})' \in Nat /\ FramesOf({"flood", "end"})' \in Nat
    BY <1>1, <1>2, <1>13, FramesPopped DEF ReturnToLaunch
  <2> QED
    BY <1>1, <1>2, <1>13, <2>1 DEF ReturnToLaunch, ReturnTo, StopWriting
<1>14. CASE ReturnToFlood
  <2>1. /\ stack' \in Seq(Frames)
        /\ FramesOf({"launched", "flood"}) = FramesOf({"launched", "flood"})' + 1
        /\ FramesOf({"flood", "end"}) = FramesOf({"flood", "end"})' + 1
        /\ FramesOf({"launched", "flood"})' \in Nat /\ FramesOf({"flood", "end"})' \in Nat
    BY <1>1, <1>2, <1>14, FramesPopped DEF ReturnToFlood
  <2>2. Lock!TypeOK' /\ writes'["control"] = writes["control"] - 1
    BY <1>1, <1>2, <1>14, <2>1 DEF ReturnToFlood, StopWriting
  <2>3. ~InControl /\ InControl' /\ UNCHANGED controlmutex
    BY <1>1, <1>14 DEF ReturnToFlood, ReturnTo
  <2>4. MutexWellFormed /\ controlmutex \in [owner : Threads \cup {Nobody}, depth : Nat]
        /\ LocksBalanced
    BY <1>1
  <2> HIDE DEF InControl, PC, At, Goto, TypeOK
  <2> QED
    BY <1>2, <2>1, <2>2, <2>3, <2>4
<1>15. CASE ReturnToEnd
  <2>1. /\ stack' \in Seq(Frames)
        /\ FramesOf({"launched", "flood"}) = FramesOf({"launched", "flood"})'
        /\ FramesOf({"flood", "end"}) = FramesOf({"flood", "end"})' + 1
        /\ FramesOf({"launched", "flood"})' \in Nat /\ FramesOf({"flood", "end"})' \in Nat
    BY <1>1, <1>2, <1>15, FramesPopped DEF ReturnToEnd
  <2>2. UNCHANGED lockVars /\ UnlockControl
    BY <1>15 DEF ReturnToEnd
  <2>3. ~InControl /\ ~InControl'
    BY <1>1, <1>15 DEF ReturnToEnd, ReturnTo
  <2>4. MutexWellFormed /\ controlmutex \in [owner : Threads \cup {Nobody}, depth : Nat]
        /\ LocksBalanced /\ Lock!TypeOK
    BY <1>1
  <2> HIDE DEF InControl, PC, At, Goto, TypeOK
  <2>5. controlmutex.owner = "control" /\ controlmutex.depth = FramesOf({"flood", "end"})
    BY <1>2, <2>1, <2>3, <2>4
  <2> QED
    BY <1>2, <2>1, <2>2, <2>3, <2>4, <2>5 DEF UnlockControl, lockVars
<1>16. CASE ReturnToHost
  BY <1>1, <1>2, <1>3, <1>16 DEF ReturnToHost, lockVars
<1>17. CASE TouchGone
  BY <1>1, <1>2, <1>3, <1>17 DEF TouchGone, lockVars
<1>18. CASE EngineExit \/ DestroyerStep \/ SendStep
  <2>1. UNCHANGED <<stack, writes["control"]>> /\ pc'.control = pc.control
    BY <1>1, <1>18, OthersKeepFrames
  <2>2. Lock!TypeOK'
    BY <1>1, <1>18 DEF EngineExit, DestroyerStep, TearDown, AwaitControl, FreeObject,
       SendStep, TimerCheck, TimerWrite, AdminLock, AdminCheck, AdminWrite, AdminUnlock,
       lockVars, KeepWriting, Lock!AcquireRead, Lock!ReleaseRead
  <2>3. UNCHANGED controlmutex \/ LockControl("destroyer")
    BY <1>18 DEF EngineExit, DestroyerStep, TearDown, AwaitControl, FreeObject,
       SendStep, TimerCheck, TimerWrite, AdminLock, AdminCheck, AdminWrite, AdminUnlock,
       SendVars
  <2> QED
    BY <1>1, <1>2, <1>3, <2>1, <2>2, <2>3 DEF LockControl
<1> QED
  BY <1>4, <1>5, <1>6, <1>7, <1>8, <1>9, <1>10, <1>11, <1>12, <1>13, <1>14, <1>15,
     <1>16, <1>17, <1>18 DEF Next, ControlStep, Return

(* Together: types and balance.                                            *)
LEMMA BalancedStep == Balanced /\ Next => Balanced'
<1> SUFFICES ASSUME Balanced, Next PROVE Balanced'
  OBVIOUS
<1>1. TypeOK
  BY DEF Balanced
<1> QED
  BY <1>1, TypesStep, LocksStep DEF Balanced, TypeOK

-----------------------------------------------------------------------------
(* Steps: the other parts.                                                 *)

(* A failure is counted before the next attempt, and the limit is tested   *)
(* by Fail alone.                                                          *)
LEMMA AttemptsStep ==
  ASSUME Balanced, Attempts, Next
  PROVE  Attempts'
<1>1. TypeOK /\ MaxExecTrials \in Nat
  BY MaxExecTrialsAssumption DEF Balanced
<1>2. CASE EngineExit \/ DestroyerStep \/ SendStep
  <2>1. UNCHANGED <<starts, execTrials>> /\ pc'.control = pc.control
    BY <1>1, <1>2, OthersKeepFrames
  <2> QED
    BY <2>1 DEF Attempts, AttemptsBounded
<1>3. CASE Launch
  BY <1>1, <1>3 DEF Launch, Attempts, AttemptsBounded, TypeOK, PC, At, Goto
<1>4. CASE CountFailure
  BY <1>1, <1>4 DEF CountFailure, TrialsUsed, history, Attempts, AttemptsBounded, TypeOK, PC, At, Goto
<1>5. CASE Retry
  BY <1>1, <1>5 DEF Retry, history, Attempts, AttemptsBounded, TypeOK, PC, At, Goto
<1>6. CASE ControlStep /\ ~Launch /\ ~CountFailure /\ ~Retry
  <2>1. UNCHANGED <<starts, execTrials>>
        /\ (pc'.control \in {"start", "launch", "retry"} => pc.control \in {"start", "launch", "retry"})
    BY <1>1, <1>6 DEF ControlStep, BuildCommand, EnterControl, CallReadLine, ReadLine,
       HandleLine, EndOfOutput, Return, ReturnToLaunch, ReturnToFlood, ReturnToEnd,
       ReturnToHost, TouchGone, history, UseScen, Crash, Survive, TypeOK, PC, At, Goto
  <2> QED
    BY <2>1 DEF Attempts, AttemptsBounded
<1> QED
  BY <1>2, <1>3, <1>4, <1>5, <1>6 DEF Next

(* Cleanup is never reset, and Fail looks at it before every retry.        *)
LEMMA LateStartsStep ==
  ASSUME TypeOK, LateStarts, Next
  PROVE  LateStarts'
<1>1. cleanup => cleanup'
  BY DEF TypeOK, Next, ControlStep, BuildCommand, Launch, CountFailure, Retry,
     EnterControl, CallReadLine, ReadLine, HandleLine, EndOfOutput,
     Return, ReturnToLaunch, ReturnToFlood, ReturnToEnd, ReturnToHost,
     TouchGone, EngineExit, DestroyerStep, TearDown, AwaitControl,
     FreeObject, SendStep, TimerCheck, TimerWrite, AdminLock,
     AdminCheck, AdminWrite, AdminUnlock, SendVars
<1>2. CASE EngineExit \/ DestroyerStep \/ SendStep
  <2>1. UNCHANGED lateStarts /\ pc'.control = pc.control
    BY <1>2, OthersKeepFrames
  <2> QED
    BY <1>1, <2>1 DEF LateStarts, OneLateStart
<1>3. CASE Launch
  BY <1>1, <1>3 DEF Launch, LateStarts, OneLateStart, TypeOK, PC, At, Goto
<1>4. CASE Retry
  BY <1>1, <1>4 DEF Retry, ToldToEnd, history, LateStarts, OneLateStart, TypeOK, PC, At, Goto
<1>5. CASE ControlStep /\ ~Launch /\ ~Retry
  <2>1. UNCHANGED lateStarts
        /\ (pc'.control \in {"start", "launch"} => pc.control \in {"start", "launch"})
    BY <1>5 DEF ControlStep, BuildCommand, CountFailure, EnterControl, CallReadLine, ReadLine,
       HandleLine, EndOfOutput, Return, ReturnToLaunch, ReturnToFlood, ReturnToEnd,
       ReturnToHost, TouchGone, history, UseScen, Crash, Survive, TypeOK, PC, At, Goto
  <2> QED
    BY <1>1, <2>1 DEF LateStarts, OneLateStart
<1> QED
  BY <1>2, <1>3, <1>4, <1>5 DEF Next

(* The control thread can neither take controlmutex from the destructor    *)
(* nor give it back in its place.                                          *)
LEMMA DeletionStep ==
  ASSUME Balanced, Deletion, Next
  PROVE  Deletion'
<1>1. TypeOK /\ LocksBalanced /\ \A kinds : FramesOf(kinds) \in Nat
  BY FramesType DEF Balanced
<1>2. CASE DestroyerStep
  BY <1>1, <1>2 DEF DestroyerStep, TearDown, AwaitControl, FreeObject, LockControl,
     Deletion, TypeOK, PC, At, Goto
<1>3. CASE ControlStep \/ EngineExit \/ SendStep
  <2>1. UNCHANGED cleanup /\ pc'.destroyer = pc.destroyer
    BY <1>1, <1>3 DEF ControlStep, BuildCommand, Launch, CountFailure, Retry,
       EnterControl, CallReadLine, ReadLine, HandleLine, EndOfOutput,
       Return, ReturnToLaunch, ReturnToFlood, ReturnToEnd, ReturnToHost,
       TouchGone, EngineExit, SendStep, TimerCheck, TimerWrite, AdminLock,
       AdminCheck, AdminWrite, AdminUnlock, SendVars, TypeOK, PC, At, Goto
  <2>2. controlmutex.owner = "destroyer" => controlmutex'.owner = "destroyer"
    <3>1. CASE EndOfOutput
      <4>1. controlmutex.owner = "control"
        BY <1>1, <3>1 DEF EndOfOutput, LocksBalanced, InControl, At
      <4> QED
        BY <4>1
    <3>2. CASE ReturnToEnd
      <4>1. FramesOf({"flood", "end"}) = FramesOf({"flood", "end"})' + 1
            /\ FramesOf({"flood", "end"})' \in Nat
        BY <1>1, <3>2, FramesPopped DEF ReturnToEnd, Frames
      <4>2. controlmutex.owner = "control"
        BY <1>1, <4>1 DEF LocksBalanced
      <4> QED
        BY <4>2
    <3>3. CASE ~EndOfOutput /\ ~ReturnToEnd
      BY <1>1, <1>3, <3>3 DEF ControlStep, BuildCommand, Launch, CountFailure, Retry,
       EnterControl, LockControl, CallReadLine, ReadLine, HandleLine,
       Return, ReturnToLaunch, ReturnToFlood, ReturnToHost,
       TouchGone, EngineExit, SendStep, TimerCheck, TimerWrite, AdminLock,
       AdminCheck, AdminWrite, AdminUnlock, SendVars, Nobody
    <3> QED
      BY <3>1, <3>2, <3>3
  <2> QED
    BY <2>1, <2>2 DEF Deletion
<1> QED
  BY <1>2, <1>3 DEF Next

(* Who frees the object, or touches the pointer, waits for the admin.      *)
LEMMA AdminReadsStep ==
  ASSUME Balanced, AdminReads, Next
  PROVE  AdminReads'
<1>1. TypeOK
  BY DEF Balanced
<1>2. CASE Launch \/ EndOfOutput \/ TearDown \/ FreeObject
  <2>1. reads["admin"] = 0
    BY <1>2 DEF Launch, EndOfOutput, TearDown, FreeObject, MayWrite, Lock!NobodyBut, Threads
  <2>2. pc.admin = "idle" /\ pc'.admin = "idle"
    BY <1>1, <1>2, <2>1 DEF AdminReads, Launch, EndOfOutput, TearDown, FreeObject,
       TypeOK, PC, Goto
  <2> QED
    BY <2>2 DEF AdminReads
<1>3. CASE AdminLock \/ AdminCheck \/ AdminWrite \/ AdminUnlock
  BY <1>1, <1>3 DEF AdminReads, AdminLock, AdminCheck, AdminWrite, AdminUnlock, MayReceive,
     Gone, SendVars, lockVars, TypeOK, PC, At, Goto, Threads,
     Lock!TypeOK, Lock!AcquireRead, Lock!ReleaseRead
<1>4. CASE /\ ControlStep \/ EngineExit \/ AwaitControl \/ TimerCheck \/ TimerWrite
           /\ ~Launch /\ ~EndOfOutput
  <2>1. /\ UNCHANGED clonk /\ reads' = reads
        /\ pc'.admin = pc.admin /\ Gone' = Gone
    BY <1>1, <1>4 DEF ControlStep, BuildCommand, CountFailure, Retry, EnterControl,
       CallReadLine, ReadLine, HandleLine, Return, ReturnToLaunch, ReturnToFlood,
       ReturnToEnd, ReturnToHost, TouchGone, EngineExit, AwaitControl, TimerCheck,
       TimerWrite, SendVars, lockVars, KeepWriting, StopWriting, TypeOK, PC, At, Goto, Gone
  <2> QED
    BY <2>1 DEF AdminReads
<1> QED
  BY <1>2, <1>3, <1>4 DEF Next, DestroyerStep, SendStep

(* What an invalid access needs is there whenever one is made.             *)
LEMMA CausesStep ==
  ASSUME TypeOK, Deletion, AdminReads, Causes, Next
  PROVE  Causes'
<1> USE DEF TypeOK, PC, At, Goto, Next, ControlStep, BuildCommand, Launch,
            CountFailure, Retry, EnterControl, CallReadLine, ReadLine,
            HandleLine, EndOfOutput, Return, ReturnTo, ReturnToLaunch,
            ReturnToFlood, ReturnToEnd, ReturnToHost, TouchGone, EngineExit,
            DestroyerStep, TearDown, AwaitControl, FreeObject, SendStep,
            TimerCheck, TimerWrite, AdminLock, AdminCheck, AdminWrite,
            AdminUnlock, SendVars
<1>1. (scen = "freed" => cleanup)' /\ (cleanup => cleanup')
  BY DEF Causes
<1>2. (execTrials = 0 => stack = <<>> \/ pc.control = "fail")'
  BY DEF Causes
<1>3. (clonk = "null" /\ pc.control = "reading" => cleanup)'
  BY DEF Causes
<1>4. (clonk = "null" /\ pc.control \in {"control", "read", "line"}
          => cleanup \/ execTrials > 0)'
  BY DEF Causes
<1>5. FaultsHaveCauses'
  <2>1. execTrials > 0 => execTrials' > 0
    OBVIOUS
  <2>2. \/ UNCHANGED faults
        \/ faults' = faults \cup {"freedScen"} /\ scen = "freed"
        \/ faults' = faults \cup {"freedClonk"} /\ clonk = "null" /\ pc.control = "reading"
        \/ faults' = faults \cup {"freedGame"} /\ Gone
        \/ faults' = faults \cup {"nullClonk"} /\ clonk = "null" /\ pc.control = "read"
        \/ faults' = faults \cup {"timerWrite"}
        \/ faults' = faults \cup {"adminWrite"} /\ pc.admin = "write" /\ (Gone \/ clonk = "null")
    BY DEF history, UseScen, WriteTo, Crash, Survive
  <2> QED
    BY <1>1, <2>1, <2>2 DEF FaultsHaveCauses, Causes, Deletion, AdminReads, Gone
<1> QED
  BY <1>1, <1>2, <1>3, <1>4, <1>5 DEF Causes

(* Inside Control the status is past Setting, as controlmutex is held.     *)
LEMMA VerdictsStep ==
  ASSUME Balanced, Verdicts, Next
  PROVE  Verdicts'
<1> USE DEF TypeOK, PC, At, Goto, Next, ControlStep, BuildCommand, Launch,
            CountFailure, Retry, EnterControl, CallReadLine, ReadLine,
            HandleLine, EndOfOutput, Return, ReturnTo, ReturnToLaunch,
            ReturnToFlood, ReturnToEnd, ReturnToHost, TouchGone, EngineExit,
            DestroyerStep, TearDown, AwaitControl, FreeObject, SendStep,
            TimerCheck, TimerWrite, AdminLock, AdminCheck, AdminWrite,
            AdminUnlock, SendVars
<1>1. TypeOK /\ LocksBalanced /\ MaxExecTrials \in Nat
  BY MaxExecTrialsAssumption DEF Balanced
<1>2. \A kinds : FramesOf(kinds) \in Nat
  BY <1>1, FramesType
<1>3. InControl => controlmutex.owner = "control" /\ status # "Setting"
  BY <1>1, <1>2 DEF LocksBalanced, Verdicts
<1>4. (status = "Failed" => execTrials >= MaxExecTrials)'
  BY <1>1 DEF Verdicts, TrialsUsed, StatusAfter
<1>5. (status = "Setting" => pc.control # "control" /\ controlmutex.owner # "control")'
  BY <1>1 DEF Verdicts, StatusAfter, LockControl, UnlockControl, Nobody
<1>6. (pc.control \in {"return", "done"} =>
          status \in {"Lobby", "Load", "Run", "Failed"} \/ cleanup)'
  BY <1>1, <1>3 DEF Verdicts, InControl, GameStatus, EndsEarly, ToldToEnd
<1> QED
  BY <1>4, <1>5, <1>6 DEF Verdicts

-----------------------------------------------------------------------------
(* The theorems.                                                           *)

(* A new Game satisfies all parts ...                                      *)
LEMMA InitInv == Init => Inv
<1> SUFFICES ASSUME Init PROVE Inv
  OBVIOUS
<1>1. Balanced
  BY InitBalanced
<1>2. Attempts /\ LateStarts
  BY MaxExecTrialsAssumption DEF Init, Attempts, AttemptsBounded, LateStarts, OneLateStart
<1>3. Deletion /\ AdminReads /\ Causes /\ Verdicts
  BY DEF Init, Deletion, AdminReads, Causes, FaultsHaveCauses, Verdicts, Nobody
<1> QED
  BY <1>1, <1>2, <1>3 DEF Inv

(* ... and every step keeps them.                                          *)
LEMMA InvStep == Inv /\ [Next]_vars => Inv'
<1> SUFFICES ASSUME Inv, [Next]_vars PROVE Inv'
  OBVIOUS
<1>1. CASE Next
  <2>1. Balanced /\ TypeOK /\ Attempts /\ LateStarts /\ Deletion /\ AdminReads /\ Causes /\ Verdicts
    BY DEF Inv, Balanced
  <2>2. Balanced' /\ Attempts' /\ LateStarts' /\ Deletion'
    BY <1>1, <2>1, BalancedStep, AttemptsStep, LateStartsStep, DeletionStep
  <2>3. AdminReads' /\ Causes' /\ Verdicts'
    BY <1>1, <2>1, AdminReadsStep, CausesStep, VerdictsStep
  <2> QED
    BY <2>2, <2>3 DEF Inv
<1>2. CASE UNCHANGED vars
  BY <1>2 DEF vars, Inv, Balanced, TypeOK, LocksBalanced, FramesOf, InControl, MutexWellFormed,
     Attempts, AttemptsBounded, LateStarts, OneLateStart, Deletion, AdminReads, Gone,
     Causes, FaultsHaveCauses, Verdicts, Lock!TypeOK
<1> QED
  BY <1>1, <1>2

(* All parts together hold in every state.                                 *)
THEOREM InvHolds == Spec => []Inv
<1> QED
  BY InitInv, InvStep, PTL DEF Spec

(* Every variable of Game keeps its type.                                  *)
THEOREM TypesHold == Spec => []TypeOK
<1>1. Inv => TypeOK
  BY DEF Inv, Balanced
<1> QED
  BY <1>1, InvHolds, PTL

(* Start, Control and Fail give back every lock they take, on every way    *)
(* out and at any depth of the retries.                                    *)
THEOREM LocksAreBalanced == Spec => []LocksBalanced
<1>1. Inv => LocksBalanced
  BY DEF Inv, Balanced
<1> QED
  BY <1>1, InvHolds, PTL

(* No more engines are launched than MaxExecTrials allows.                 *)
THEOREM AttemptsAreBounded == Spec => []AttemptsBounded
<1>1. Inv => AttemptsBounded
  BY DEF Inv, Attempts
<1> QED
  BY <1>1, InvHolds, PTL

(* A game told to end launches one more engine at the most.                *)
THEOREM AtMostOneLateStart == Spec => []OneLateStart
<1>1. Inv => OneLateStart
  BY DEF Inv, LateStarts
<1> QED
  BY <1>1, InvHolds, PTL

(* The object is not freed while Control is on the stack: the destructor   *)
(* has controlmutex by then, and Control would have it too.                *)
THEOREM ObjectOutlivesControl == Spec => []OutlivesControl
<1>1. ASSUME Inv PROVE OutlivesControl
  <2>1. SUFFICES ASSUME Gone PROVE ~InControl /\ FramesOf({"flood", "end"}) = 0
    BY DEF OutlivesControl
  <2>2. controlmutex.owner # "control"
    BY <1>1, <2>1 DEF Inv, Deletion, Gone
  <2>3. LocksBalanced /\ FramesOf({"flood", "end"}) \in Nat
    BY <1>1, FramesType DEF Inv, Balanced
  <2> QED
    BY <2>2, <2>3 DEF LocksBalanced
<1> QED
  BY <1>1, InvHolds, PTL

(* No invalid access from the control thread without a retry or a deletion,*)
(* and none from an admin who holds the object locked.                     *)
THEOREM FaultsAlwaysHaveCauses == Spec => []FaultsHaveCauses
<1>1. Inv => FaultsHaveCauses
  BY DEF Inv, Causes
<1> QED
  BY <1>1, InvHolds, PTL

(* When Start returns, the game was played, is a declared failure, or was  *)
(* told to end.                                                            *)
THEOREM OutcomeIsTold == Spec => []OutcomeTold
<1>1. Inv => OutcomeTold
  BY DEF Inv, Verdicts, OutcomeTold
<1> QED
  BY <1>1, InvHolds, PTL

(* The status advances in its order, falls back by a launch or a failed    *)
(* launch only, and is "Failed" when the attempts are used up.             *)
THEOREM StatusAdvances == Spec => StatusSteps
<1> DEFINE Step == status' # status =>
          \/ <<status, status'>> \in {<<"PreLobby", "Lobby">>, <<"Lobby", "Load">>,
                                      <<"Load", "Run">>}
          \/ status' = "PreLobby" /\ starts' > starts /\ execTrials < MaxExecTrials
          \/ status' = "PreLobby" /\ starts' = 1
          \/ status' = "PreLobby" /\ stack # <<>> /\ Head(stack) = "launched"
          \/ status' = "Failed" /\ execTrials' >= MaxExecTrials
<1>1. Inv /\ [Next]_vars => [Step]_vars
  <2> SUFFICES ASSUME Inv, Next, status' # status PROVE Step
    BY DEF vars
  <2>1. TypeOK /\ Attempts /\ MaxExecTrials \in Nat
    BY MaxExecTrialsAssumption DEF Inv, Balanced
  <2>2. Launch \/ CountFailure \/ HandleLine \/ ReturnToLaunch
    BY DEF Next, ControlStep, BuildCommand, Retry, EnterControl, CallReadLine, ReadLine,
       EndOfOutput, Return, ReturnToFlood, ReturnToEnd, ReturnToHost, TouchGone,
       EngineExit, DestroyerStep, TearDown, AwaitControl, FreeObject, SendStep,
       TimerCheck, TimerWrite, AdminLock, AdminCheck, AdminWrite, AdminUnlock, SendVars
  <2>3. CASE Launch
    BY <2>1, <2>3 DEF Launch, Attempts, TypeOK, At
  <2>4. CASE CountFailure
    BY <2>1, <2>4 DEF CountFailure, TrialsUsed, TypeOK
  <2>5. CASE HandleLine
    BY <2>5 DEF HandleLine, StatusAfter
  <2>6. CASE ReturnToLaunch
    BY <2>6 DEF ReturnToLaunch, ReturnTo
  <2> QED
    BY <2>2, <2>3, <2>4, <2>5, <2>6
<1> QED
  BY <1>1, InvHolds, PTL DEF Spec, StatusSteps

=============================================================================
