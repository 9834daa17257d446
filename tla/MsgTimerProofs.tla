--------------------------- MODULE MsgTimerProofs ---------------------------
(***************************************************************************)
(* Proofs about MsgTimer, for any games, delays and bounds.  The invariant *)
(* says three things in turn: who has which lock, as long as msgmutex was  *)
(* taken from nobody; what the scans of the timer and of the purges have   *)
(* seen of the queue, which others change only with msgmutex; and how late *)
(* the timer may sleep, as long as no signal was lost either.              *)
(***************************************************************************)
EXTENDS MsgTimer, SequenceTheorems, FiniteSetTheorems, TLAPS

(* RemoveAt takes one element out and keeps the order of the others.       *)
LEMMA RemoveAtProperties ==
  ASSUME NEW S, NEW seq \in Seq(S), NEW i \in 1..Len(seq)
  PROVE  /\ RemoveAt(seq, i) \in Seq(S)
         /\ Len(RemoveAt(seq, i)) = Len(seq) - 1
         /\ \A j \in 1 .. Len(seq) - 1 :
               RemoveAt(seq, i)[j] = IF j < i THEN seq[j] ELSE seq[j + 1]
<1> DEFINE front == SubSeq(seq, 1, i - 1)
           back  == SubSeq(seq, i + 1, Len(seq))
<1>0. /\ Len(seq) \in Nat
      /\ \A j \in 1 .. Len(seq) : seq[j] \in S
  BY LenProperties, ElementOfSeq
<1>1. /\ front \in Seq(S)
      /\ Len(front) = i - 1
      /\ \A j \in 1 .. i - 1 : front[j] = seq[j]
  <2>1. \A j \in 1 .. i - 1 : seq[j] \in S
    BY <1>0
  <2> HIDE DEF front
  <2>2. /\ front \in Seq(S)
        /\ Len(front) = IF 1 <= i - 1 THEN (i - 1) - 1 + 1 ELSE 0
        /\ \A j \in 1 .. (i - 1) - 1 + 1 : front[j] = seq[1 + j - 1]
    BY <2>1, <1>0, SubSeqProperties DEF front
  <2> QED
    BY <2>2, <1>0
<1>2. /\ back \in Seq(S)
      /\ Len(back) = Len(seq) - i
      /\ \A j \in 1 .. Len(seq) - i : back[j] = seq[i + j]
  <2>1. \A j \in i + 1 .. Len(seq) : seq[j] \in S
    BY <1>0
  <2> HIDE DEF back
  <2>2. /\ back \in Seq(S)
        /\ Len(back) = IF i + 1 <= Len(seq) THEN Len(seq) - (i + 1) + 1 ELSE 0
        /\ \A j \in 1 .. Len(seq) - (i + 1) + 1 : back[j] = seq[(i + 1) + j - 1]
    BY <2>1, <1>0, SubSeqProperties DEF back
  <2> QED
    BY <2>2, <1>0
<1>3. RemoveAt(seq, i) = front \o back
  BY DEF RemoveAt
<1> HIDE DEF front, back
<1>4. /\ front \o back \in Seq(S)
      /\ Len(front \o back) = Len(front) + Len(back)
      /\ \A j \in 1 .. Len(front) + Len(back) : (front \o back)[j] =
            IF j <= Len(front) THEN front[j] ELSE back[j - Len(front)]
  BY <1>1, <1>2, ConcatProperties
<1> QED
  BY <1>0, <1>1, <1>2, <1>3, <1>4

-----------------------------------------------------------------------------
(* Owners of locks, and the queue.                                         *)

(* The names of lock owners differ.                                        *)
LEMMA NamesDiffer ==
  /\ Timer # Nobody
  /\ \A g \in Games : /\ Sender(g) \notin {Nobody, Timer}
                      /\ Destroyer(g) \notin {Nobody, Timer}
  /\ \A g, h \in Games : /\ Sender(g) # Destroyer(h)
                         /\ Sender(g) = Sender(h) => g = h
                         /\ Destroyer(g) = Destroyer(h) => g = h
  BY DEF Timer, Nobody, Sender, Destroyer

\* QueuedTimes, of any queue.
Times(q, id) == Cardinality({k \in DOMAIN q : q[k].id = id})

(* How often a message is in a queue is a number.                          *)
LEMMA TimesType ==
  ASSUME NEW q \in Seq(Message), NEW id
  PROVE  /\ IsFiniteSet({k \in DOMAIN q : q[k].id = id})
         /\ Times(q, id) \in Nat
<1> DEFINE I == {k \in DOMAIN q : q[k].id = id}
<1>1. Len(q) \in Nat /\ DOMAIN q = 1 .. Len(q)
  BY LenProperties
<1>2. IsFiniteSet(1 .. Len(q))
  BY <1>1, FS_Interval
<1>3. IsFiniteSet(I)
  BY <1>1, <1>2, FS_Subset
<1> QED
  BY <1>3, FS_CardinalityType DEF Times

(* push_back.                                                              *)
LEMMA TimesAppend ==
  ASSUME NEW q \in Seq(Message), NEW m \in Message, NEW id
  PROVE  Times(Append(q, m), id) = Times(q, id) + (IF m.id = id THEN 1 ELSE 0)
<1> DEFINE new == Append(q, m)
           I == {k \in DOMAIN q : q[k].id = id}
           J == {k \in DOMAIN new : new[k].id = id}
           n == Len(q) + 1
<1>1. /\ new \in Seq(Message) /\ Len(q) \in Nat
      /\ DOMAIN q = 1 .. Len(q) /\ DOMAIN new = 1 .. n
      /\ \A k \in 1 .. Len(q) : new[k] = q[k]
      /\ new[n] = m
  BY AppendProperties, LenProperties
<1>2. IsFiniteSet(I) /\ Cardinality(I) \in Nat
  BY TimesType DEF Times
<1>3. n \notin I /\ J = IF m.id = id THEN I \cup {n} ELSE I
  BY <1>1
<1>4. Times(q, id) = Cardinality(I) /\ Times(new, id) = Cardinality(J)
  BY DEF Times
<1> HIDE DEF I, J, n, new
<1>5. CASE m.id = id
  BY <1>2, <1>3, <1>4, <1>5, FS_AddElement DEF new
<1>6. CASE m.id # id
  BY <1>2, <1>3, <1>4, <1>6 DEF new
<1> QED
  BY <1>5, <1>6

(* erase.                                                                  *)
LEMMA TimesRemove ==
  ASSUME NEW q \in Seq(Message), NEW i \in 1 .. Len(q), NEW id
  PROVE  Times(RemoveAt(q, i), id) = Times(q, id) - (IF q[i].id = id THEN 1 ELSE 0)
<1> DEFINE new == RemoveAt(q, i)
           I == {k \in DOMAIN q : q[k].id = id}
           J == {k \in DOMAIN new : new[k].id = id}
           R == I \ {i}
           f == [j \in J |-> IF j < i THEN j ELSE j + 1]
<1>1. /\ new \in Seq(Message) /\ Len(q) \in Nat
      /\ DOMAIN q = 1 .. Len(q) /\ DOMAIN new = 1 .. Len(q) - 1
      /\ \A j \in 1 .. Len(q) - 1 : new[j] = IF j < i THEN q[j] ELSE q[j + 1]
  BY RemoveAtProperties, LenProperties
<1> HIDE DEF new
<1>2. IsFiniteSet(I) /\ Cardinality(I) \in Nat
  BY TimesType DEF Times
<1>3. IsFiniteSet(J) /\ Cardinality(J) \in Nat
  BY <1>1, TimesType DEF Times
<1>4. f \in Bijection(J, R)
  <2>1. \A j \in J : f[j] \in R
    BY <1>1
  <2>2. \A j, k \in J : f[j] = f[k] => j = k
    BY <1>1
  <2>3. \A k \in R : \E j \in J : f[j] = k
    <3> SUFFICES ASSUME NEW k \in R PROVE \E j \in J : f[j] = k
      OBVIOUS
    <3>1. CASE k < i
      <4>1. k \in J /\ f[k] = k
        BY <1>1, <3>1
      <4> QED
        BY <4>1
    <3>2. CASE k > i
      <4>1. k - 1 \in J /\ f[k - 1] = k
        BY <1>1, <3>2
      <4> QED
        BY <4>1
    <3> QED
      BY <1>1, <3>1, <3>2
  <2> QED
    BY <2>1, <2>2, <2>3 DEF Bijection, Injection, Surjection, IsInjective
<1>5. Cardinality(R) = Cardinality(J)
  BY <1>3, <1>4, FS_Bijection DEF ExistsBijection
<1>6. Cardinality(R) = IF i \in I THEN Cardinality(I) - 1 ELSE Cardinality(I)
  BY <1>2, FS_RemoveElement
<1>7. i \in I <=> q[i].id = id
  BY <1>1
<1>8. Times(q, id) = Cardinality(I) /\ Times(new, id) = Cardinality(J)
  BY DEF Times
<1> HIDE DEF I, J, R
<1>9. Times(new, id) = Times(q, id) - (IF q[i].id = id THEN 1 ELSE 0)
  <2>1. CASE q[i].id = id
    BY <1>2, <1>5, <1>6, <1>7, <1>8, <2>1
  <2>2. CASE q[i].id # id
    <3>1. Times(new, id) = Times(q, id)
      BY <1>5, <1>6, <1>7, <1>8, <2>2
    <3>2. Times(q, id) \in Nat
      BY <1>2, <1>8
    <3> QED
      BY <2>2, <3>1, <3>2
  <2> QED
    BY <2>1, <2>2
<1> QED
  BY <1>9 DEF new

(* What erase leaves was there before, and what was behind moves up.       *)
LEMMA EraseEffect ==
  ASSUME NEW i \in 1 .. Len(queue), queue \in Seq(Message), Erase(i)
  PROVE  /\ queue' \in Seq(Message)
         /\ Len(queue) \in Nat /\ Len(queue') = Len(queue) - 1
         /\ DOMAIN queue = 1 .. Len(queue) /\ DOMAIN queue' = 1 .. Len(queue) - 1
         /\ \A j \in 1 .. Len(queue) - 1 :
               queue'[j] = IF j < i THEN queue[j] ELSE queue[j + 1]
         /\ \A k \in DOMAIN queue' : \E l \in DOMAIN queue : queue'[k] = queue[l]
         /\ \A id : QueuedTimes(id)' = QueuedTimes(id) - (IF queue[i].id = id THEN 1 ELSE 0)
<1>1. /\ queue' \in Seq(Message) /\ Len(queue) \in Nat /\ Len(queue') = Len(queue) - 1
      /\ DOMAIN queue = 1 .. Len(queue) /\ DOMAIN queue' = 1 .. Len(queue) - 1
      /\ \A j \in 1 .. Len(queue) - 1 :
            queue'[j] = IF j < i THEN queue[j] ELSE queue[j + 1]
  BY RemoveAtProperties, LenProperties DEF Erase
<1>2. \A k \in DOMAIN queue' : \E l \in DOMAIN queue : queue'[k] = queue[l]
  <2> SUFFICES ASSUME NEW k \in DOMAIN queue' PROVE \E l \in DOMAIN queue : queue'[k] = queue[l]
    OBVIOUS
  <2>1. k \in DOMAIN queue /\ k + 1 \in DOMAIN queue
    BY <1>1
  <2> QED
    BY <1>1, <2>1
<1>3. \A id : QueuedTimes(id)' = QueuedTimes(id) - (IF queue[i].id = id THEN 1 ELSE 0)
  <2> SUFFICES ASSUME NEW id
               PROVE  QueuedTimes(id)' = QueuedTimes(id) - (IF queue[i].id = id THEN 1 ELSE 0)
    OBVIOUS
  <2>1. Times(RemoveAt(queue, i), id) = Times(queue, id) - (IF queue[i].id = id THEN 1 ELSE 0)
    BY TimesRemove
  <2>2. QueuedTimes(id) = Times(queue, id) /\ QueuedTimes(id)' = Times(queue', id)
    BY DEF QueuedTimes, Times
  <2>3. queue' = RemoveAt(queue, i)
    BY DEF Erase
  <2> QED
    BY <2>1, <2>2, <2>3
<1> QED
  BY <1>1, <1>2, <1>3

-----------------------------------------------------------------------------
(* The invariant.                                                          *)

\* Control handles a line, or the destructor is in Exit: they have the lock
\* of the game.  A game that ends queues nothing more.
GameLocks == \A g \in Games :
    /\ gameLock[g] = Sender(g) <=> sender[g].pc # "idle"
    /\ gameLock[g] = Destroyer(g) <=> destroyer[g] \in {"lock", "purge"}
    /\ destroyer[g] # "idle" => cleanup[g] = TRUE /\ sender[g].pc = "idle"

\* Who counts on having msgmutex has it.
MutexHeld ==
    /\ \A g \in Games : /\ msgmutex = Sender(g) <=> sender[g].pc = "push"
                        /\ msgmutex = Destroyer(g) <=> destroyer[g] = "purge"
    /\ timer.pc \in {"scan", "send"} => msgmutex = Timer

\* A message that is due has a place.
HasPlace == timer.pc = "send" => timer.i > 0

\* The two scans are within the queue.
InBounds ==
    /\ timer.pc \in {"scan", "send"} => timer.i <= Len(queue)
    /\ \A g \in Games : destroyer[g] = "purge" => place[g] <= Len(queue)

\* What a purge has gone past holds nothing for its game.
Purged == \A g \in Games : \A k \in DOMAIN queue :
    \/ destroyer[g] \in {"purged", "gone"}
    \/ destroyer[g] = "purge" /\ k > place[g]
    => queue[k].game # g

Quiet == \A g \in Games : sender[g].pc # "signal"

\* What the timer knows of the times of the messages.
Alarm ==
    /\ timer.pc = "start" => timer.nextevent = None
    /\ timer.pc \in {"test", "timedwait", "asleepTimed"} /\ Quiet =>
          \A k \in DOMAIN queue : timer.nextevent <= queue[k].stamp
    /\ timer.pc \in {"wait", "asleep"} /\ Quiet => queue = <<>>
    /\ timer.pc \in {"scan", "send"} => \A k \in DOMAIN queue :
          k > timer.i => timer.nextevent # None /\ timer.nextevent <= queue[k].stamp

\* Numbers of messages are given once.
Numbered ==
    /\ \A g \in Games : sender[g].pc \in {"lock", "push"} =>
          sender[g].id \in 1 .. sent /\ sender[g].stamp \in 1 .. MaxTime
    /\ \A g, h \in Games : /\ sender[g].pc \in {"lock", "push"}
                           /\ sender[h].pc \in {"lock", "push"}
                           /\ sender[g].id = sender[h].id
                           => g = h

Accounts == \A id \in 1 .. MaxMessages :
    QueuedTimes(id) + done[id] = IF id > sent \/ InHand(id) THEN 0 ELSE 1

Inv == /\ TypeOK /\ GameLocks /\ Numbered /\ HasPlace
       /\ ~stolen => MutexHeld /\ InBounds /\ Purged /\ Accounts /\ faults = {}
       /\ ~stolen /\ ~lost => Alarm

-----------------------------------------------------------------------------
(* What the longer steps do.                                               *)

(* These are names of owners.                                              *)
LEMMA OwnersHave == /\ Nobody \in Owners /\ Timer \in Owners
                    /\ \A g \in Games : Sender(g) \in Owners /\ Destroyer(g) \in Owners
  BY DEF Owners

(* A message is looked at: it is due, or its time is remembered.           *)
LEMMA LookEffect ==
  ASSUME Look
  PROVE  /\ timer.pc = "scan" /\ timer.i > 0
         /\ UNCHANGED <<queue, msgmutex, gameLock, cleanup, now, sender, destroyer, place,
                        sent, done, stolen, lost>>
         /\ \/ /\ timer.i > Len(queue)
               /\ faults' = faults \cup {"outOfRange"}
               /\ timer' = [timer EXCEPT !.i = timer.i - 1]
            \/ /\ timer.i <= Len(queue)
               /\ UNCHANGED faults
               /\ timer' = [timer EXCEPT !.pc = "send"]
            \/ /\ timer.i <= Len(queue)
               /\ UNCHANGED faults
               /\ timer' = [timer EXCEPT !.i = timer.i - 1,
                                         !.nextevent = Earliest(timer.nextevent,
                                                                queue[timer.i].stamp)]
  BY DEF Look, At

(* Stamps are times.                                                       *)
LEMMA StampType ==
  ASSUME queue \in Seq(Message), NEW k \in DOMAIN queue
  PROVE  queue[k] \in Message /\ queue[k].stamp \in Nat /\ queue[k].stamp # None
<1>1. queue[k] \in Message
  BY ElementOfSeq, LenProperties
<1> QED
  BY <1>1, BoundsAssumption DEF Message, None

(* The earlier of two times is one.                                        *)
LEMMA EarliestType ==
  ASSUME NEW time \in Nat, NEW stamp \in Nat, stamp # None
  PROVE  /\ Earliest(time, stamp) \in Nat
         /\ Earliest(time, stamp) # None
         /\ Earliest(time, stamp) <= stamp
         /\ time # None => Earliest(time, stamp) <= time
  BY DEF Earliest, None

(* A message is sent and goes.                                             *)
LEMMA SendDueEffect ==
  ASSUME SendDue
  PROVE  /\ timer.pc = "send"
         /\ timer' = [timer EXCEPT !.pc = "scan", !.i = timer.i - 1]
         /\ UNCHANGED <<msgmutex, gameLock, cleanup, now, sender, destroyer, place, sent,
                        stolen, lost>>
         /\ \/ /\ timer.i > Len(queue)
               /\ faults' = faults \cup {"outOfRange"}
               /\ UNCHANGED <<queue, done>>
            \/ /\ timer.i <= Len(queue)
               /\ \/ UNCHANGED faults
                  \/ /\ destroyer[queue[timer.i].game] = "gone"
                     /\ faults' = faults \cup {"deadGame"}
               /\ Finish({queue[timer.i].id})
               /\ Erase(timer.i)
  BY DEF SendDue, At

(* The messages of a game are taken out.                                   *)
LEMMA PurgeNextEffect ==
  ASSUME NEW g, PurgeNext(g)
  PROVE  /\ destroyer[g] = "purge" /\ place[g] > 0
         /\ place' = [place EXCEPT ![g] = place[g] - 1]
         /\ UNCHANGED <<msgmutex, gameLock, cleanup, now, timer, sender, destroyer, sent,
                        stolen, lost>>
         /\ \/ /\ place[g] > Len(queue)
               /\ faults' = faults \cup {"outOfRange"}
               /\ UNCHANGED <<queue, done>>
            \/ /\ place[g] <= Len(queue)
               /\ UNCHANGED faults
               /\ queue[place[g]].game = g
               /\ Finish({queue[place[g]].id})
               /\ Erase(place[g])
            \/ /\ place[g] <= Len(queue)
               /\ UNCHANGED <<faults, queue, done>>
               /\ queue[place[g]].game # g
  BY DEF PurgeNext, IsFor

(* What is done once more is a number.                                     *)
LEMMA FinishType ==
  ASSUME done \in [1 .. MaxMessages -> Nat], NEW ids, Finish(ids)
  PROVE  /\ done' \in [1 .. MaxMessages -> Nat]
         /\ \A id \in 1 .. MaxMessages : done'[id] = done[id] + (IF id \in ids THEN 1 ELSE 0)
<1>1. /\ DOMAIN done = 1 .. MaxMessages /\ \A id \in 1 .. MaxMessages : done[id] \in Nat
      /\ done' = [id \in 1 .. MaxMessages |-> IF id \in ids THEN done[id] + 1 ELSE done[id]]
  BY DEF Finish
<1> QED
  BY <1>1

(* Nothing happens to the messages.                                        *)
LEMMA SameAccounts == Accounts /\ UNCHANGED <<queue, sender, sent, done>> => Accounts'
  BY DEF Accounts, QueuedTimes, InHand

(* The types after a message is sent.                                      *)
LEMMA TypeSendDue ==
  ASSUME TypeOK, HasPlace, SendDue
  PROVE  TypeOK'
<1>1. /\ timer.pc = "send" /\ timer.i \in Nat /\ timer.i > 0 /\ timer.nextevent \in Nat
      /\ timer = [pc |-> timer.pc, i |-> timer.i, nextevent |-> timer.nextevent]
  BY SendDueEffect DEF TypeOK, HasPlace
<1>2. timer' = [pc |-> "scan", i |-> timer.i - 1, nextevent |-> timer.nextevent]
  <2>1. timer' = [timer EXCEPT !.pc = "scan", !.i = timer.i - 1]
    BY SendDueEffect
  <2> QED
    BY <1>1, <2>1
<1>3. timer.i - 1 \in Nat
  BY <1>1
<1>4. faults' \subseteq {"outOfRange", "deadGame"}
  BY SendDueEffect DEF TypeOK
<1>5. queue' \in Seq(Message) /\ done' \in [1 .. MaxMessages -> Nat]
  <2>1. queue \in Seq(Message) /\ done \in [1 .. MaxMessages -> Nat]
    BY DEF TypeOK
  <2>2. CASE UNCHANGED <<queue, done>>
    BY <2>1, <2>2
  <2>3. CASE timer.i <= Len(queue) /\ Erase(timer.i) /\ Finish({queue[timer.i].id})
    <3>1. timer.i \in 1 .. Len(queue)
      BY <1>1, <2>1, <2>3, LenProperties
    <3> QED
      BY <2>1, <2>3, <3>1, EraseEffect, FinishType
  <2> QED
    BY <2>2, <2>3, SendDueEffect
<1>6. UNCHANGED <<msgmutex, gameLock, cleanup, now, sender, destroyer, place, sent,
                  stolen, lost>>
  BY SendDueEffect
<1> QED
  BY <1>1, <1>2, <1>3, <1>4, <1>5, <1>6 DEF TypeOK

(* The types after a message is purged.                                    *)
LEMMA TypePurgeNext ==
  ASSUME TypeOK, NEW g \in Games, PurgeNext(g)
  PROVE  TypeOK'
<1>1. place[g] \in Nat /\ place[g] > 0 /\ place[g] - 1 \in Nat
  <2>1. place[g] \in Nat
    BY DEF TypeOK
  <2>2. place[g] > 0
    BY PurgeNextEffect
  <2> QED
    BY <2>1, <2>2
<1>2. place' \in [Games -> Nat]
  <2>1. place' = [place EXCEPT ![g] = place[g] - 1] /\ place \in [Games -> Nat]
    BY PurgeNextEffect DEF TypeOK
  <2> QED
    BY <1>1, <2>1
<1>3. faults' \subseteq {"outOfRange", "deadGame"}
  BY PurgeNextEffect DEF TypeOK
<1>4. queue' \in Seq(Message) /\ done' \in [1 .. MaxMessages -> Nat]
  <2>1. queue \in Seq(Message) /\ done \in [1 .. MaxMessages -> Nat]
    BY DEF TypeOK
  <2>2. CASE UNCHANGED <<queue, done>>
    BY <2>1, <2>2
  <2>3. CASE place[g] <= Len(queue) /\ Erase(place[g]) /\ Finish({queue[place[g]].id})
    <3>1. place[g] \in 1 .. Len(queue)
      BY <1>1, <2>1, <2>3, LenProperties
    <3> QED
      BY <2>1, <2>3, <3>1, EraseEffect, FinishType
  <2> QED
    BY <2>2, <2>3, PurgeNextEffect
<1>5. UNCHANGED <<msgmutex, gameLock, cleanup, now, timer, sender, destroyer, sent,
                  stolen, lost>>
  BY PurgeNextEffect
<1> QED
  BY <1>2, <1>3, <1>4, <1>5 DEF TypeOK

(* The types after a signal.                                               *)
LEMMA TypeEndSend ==
  ASSUME TypeOK, NEW g \in Games, EndSend(g)
  PROVE  TypeOK'
<1>1. timer' \in [pc : {"start", "test", "wait", "timedwait", "asleep",
                        "asleepTimed", "woken", "scan", "send"},
                  i : Nat, nextevent : Nat]
  BY DEF EndSend, Signal, TypeOK
<1>2. lost' \in BOOLEAN
  BY DEF EndSend, Signal, TypeOK
<1>3. gameLock' \in [Games -> Owners]
  BY OwnersHave DEF EndSend, TypeOK
<1>4. sender' = [sender EXCEPT ![g].pc = "idle"]
  BY DEF EndSend
<1>5. sender' \in [Games -> [pc : {"idle", "lock", "push", "signal"},
                             id : 0 .. MaxMessages, stamp : 0 .. MaxTime]]
  BY <1>4 DEF TypeOK
<1>6. UNCHANGED <<queue, msgmutex, cleanup, now, destroyer, place, sent, done,
                  stolen, faults>>
  BY DEF EndSend
<1> QED
  BY <1>1, <1>2, <1>3, <1>5, <1>6 DEF TypeOK

(* A purged game has nothing in the queue.                                 *)
LEMMA NothingLeft ==
  ASSUME Purged, NEW g \in Games, destroyer[g] \in {"purged", "gone"}, NEW k \in DOMAIN queue
  PROVE  queue[k].game # g
  BY DEF Purged

(* With msgmutex, the timer sends a message that is there and takes it out.*)
LEMMA SendDueWorks ==
  ASSUME TypeOK, HasPlace, MutexHeld, InBounds, Purged, SendDue
  PROVE  /\ timer.pc = "send" /\ timer.i \in 1 .. Len(queue)
         /\ timer'.pc = "scan" /\ timer'.i = timer.i - 1
         /\ timer'.nextevent = timer.nextevent
         /\ UNCHANGED <<destroyer, place, sender, sent, faults>>
         /\ Finish({queue[timer.i].id}) /\ Erase(timer.i)
         /\ \A g \in Games : destroyer[g] # "purge"
<1>1. /\ timer.pc = "send" /\ timer.i \in 1 .. Len(queue)
      /\ timer' = [timer EXCEPT !.pc = "scan", !.i = timer.i - 1]
  BY SendDueEffect, LenProperties DEF HasPlace, InBounds, TypeOK
<1>2. UNCHANGED <<destroyer, place, sender, sent>>
  BY SendDueEffect
<1>3. \A g \in Games : destroyer[g] # "purge"
  BY <1>1, NamesDiffer DEF MutexHeld
<1>4. destroyer[queue[timer.i].game] # "gone"
  <2>1. queue \in Seq(Message) /\ timer.i \in DOMAIN queue
    BY <1>1, LenProperties DEF TypeOK
  <2>2. queue[timer.i].game \in Games
    BY <2>1, StampType DEF Message
  <2> QED
    BY <2>1, <2>2, NothingLeft
<1>5. timer.i <= Len(queue) /\ ~(timer.i > Len(queue))
  BY <1>1, LenProperties DEF TypeOK
<1>6. Finish({queue[timer.i].id}) /\ Erase(timer.i) /\ UNCHANGED faults
  BY <1>4, <1>5, SendDueEffect
<1>7. /\ timer'.pc = "scan" /\ timer'.i = timer.i - 1
      /\ timer'.nextevent = timer.nextevent
  BY <1>1 DEF TypeOK
<1> QED
  BY <1>1, <1>2, <1>3, <1>6, <1>7

(* With msgmutex, a purge takes out a message of its game, if it sees one. *)
LEMMA PurgeNextWorks ==
  ASSUME TypeOK, MutexHeld, InBounds, NEW g \in Games, PurgeNext(g)
  PROVE  /\ destroyer[g] = "purge" /\ place[g] \in 1 .. Len(queue)
         /\ place'[g] = place[g] - 1
         /\ UNCHANGED <<destroyer, timer, sender, sent, faults>>
         /\ timer.pc \notin {"scan", "send"}
         /\ \A h \in Games \ {g} : destroyer[h] # "purge"
         /\ \/ Finish({queue[place[g]].id}) /\ Erase(place[g])
            \/ UNCHANGED <<queue, done>> /\ queue[place[g]].game # g
<1>1. /\ destroyer[g] = "purge" /\ place[g] \in 1 .. Len(queue)
      /\ place' = [place EXCEPT ![g] = place[g] - 1]
  <2>1. /\ destroyer[g] = "purge" /\ place[g] > 0
        /\ place' = [place EXCEPT ![g] = place[g] - 1]
    BY PurgeNextEffect
  <2>2. place[g] \in Nat /\ Len(queue) \in Nat /\ place[g] <= Len(queue)
    BY <2>1, LenProperties DEF InBounds, TypeOK
  <2> QED
    BY <2>1, <2>2
<1>2. place'[g] = place[g] - 1
  BY <1>1 DEF TypeOK
<1>3. UNCHANGED <<destroyer, timer, sender, sent>>
  BY PurgeNextEffect
<1>4. msgmutex = Destroyer(g)
  BY <1>1 DEF MutexHeld
<1>5. /\ timer.pc \notin {"scan", "send"}
      /\ \A h \in Games \ {g} : destroyer[h] # "purge"
  BY <1>4, NamesDiffer DEF MutexHeld
<1>6. ~(place[g] > Len(queue))
  BY <1>1, LenProperties DEF TypeOK
<1>7. /\ UNCHANGED faults
      /\ \/ Finish({queue[place[g]].id}) /\ Erase(place[g])
         \/ UNCHANGED <<queue, done>> /\ queue[place[g]].game # g
  BY <1>6, PurgeNextEffect
<1> QED
  BY <1>1, <1>2, <1>3, <1>5, <1>7

(* The scan stays in the queue when it looks at a message.                 *)
LEMMA BoundsLook ==
  ASSUME TypeOK, InBounds, MutexHeld, Look
  PROVE  InBounds' /\ UNCHANGED faults
<1>1. /\ timer.pc = "scan" /\ timer.i > 0 /\ timer.i \in Nat
      /\ timer.i <= Len(queue) /\ Len(queue) \in Nat
      /\ UNCHANGED <<queue, destroyer, place>>
  BY LookEffect, LenProperties DEF InBounds, TypeOK
<1>2. UNCHANGED faults /\ (timer'.i = timer.i \/ timer'.i = timer.i - 1)
  <2>1. CASE timer' = [timer EXCEPT !.pc = "send"] /\ UNCHANGED faults
    BY <2>1 DEF TypeOK
  <2>2. CASE /\ timer' = [timer EXCEPT !.i = timer.i - 1,
                                       !.nextevent = Earliest(timer.nextevent,
                                                              queue[timer.i].stamp)]
             /\ UNCHANGED faults
    BY <2>2 DEF TypeOK
  <2>3. ~(timer.i > Len(queue))
    BY <1>1
  <2> QED
    BY <2>1, <2>2, <2>3, LookEffect
<1>3. timer'.i <= Len(queue')
  BY <1>1, <1>2
<1> QED
  BY <1>1, <1>2, <1>3 DEF InBounds

(* The scan stays in the queue when a message is sent.                     *)
LEMMA BoundsSendDue ==
  ASSUME TypeOK, HasPlace, MutexHeld, InBounds, Purged, SendDue
  PROVE  InBounds' /\ UNCHANGED faults
<1>1. queue \in Seq(Message)
  BY DEF TypeOK
<1>2. /\ timer.i \in 1 .. Len(queue) /\ timer'.pc = "scan" /\ timer'.i = timer.i - 1
      /\ Erase(timer.i) /\ UNCHANGED <<destroyer, place, faults>>
      /\ \A g \in Games : destroyer[g] # "purge"
  BY SendDueWorks
<1>3. Len(queue') = Len(queue) - 1 /\ Len(queue) \in Nat
  BY <1>1, <1>2, EraseEffect
<1>4. timer'.i <= Len(queue')
  BY <1>2, <1>3
<1> QED
  BY <1>2, <1>4 DEF InBounds

(* A purge stays in the queue.                                             *)
LEMMA BoundsPurgeNext ==
  ASSUME TypeOK, MutexHeld, InBounds, NEW g \in Games, PurgeNext(g)
  PROVE  InBounds' /\ UNCHANGED faults
<1>1. queue \in Seq(Message) /\ Len(queue) \in Nat
  BY LenProperties DEF TypeOK
<1>2. /\ place[g] \in 1 .. Len(queue) /\ place'[g] = place[g] - 1
      /\ timer.pc \notin {"scan", "send"} /\ UNCHANGED <<destroyer, timer, faults>>
      /\ \A h \in Games \ {g} : destroyer[h] # "purge"
      /\ Erase(place[g]) \/ UNCHANGED queue
  BY PurgeNextWorks
<1>3. Len(queue') = Len(queue) \/ Len(queue') = Len(queue) - 1
  BY <1>1, <1>2, EraseEffect
<1>4. place'[g] <= Len(queue')
  BY <1>1, <1>2, <1>3
<1> QED
  BY <1>2, <1>4 DEF InBounds

(* What the timer sends was in no purge's way.                             *)
LEMMA PurgedSendDue ==
  ASSUME TypeOK, HasPlace, MutexHeld, InBounds, Purged, SendDue
  PROVE  Purged'
<1>1. queue \in Seq(Message)
  BY DEF TypeOK
<1>2. /\ timer.i \in 1 .. Len(queue) /\ Erase(timer.i) /\ UNCHANGED destroyer
      /\ \A g \in Games : destroyer[g] # "purge"
  BY SendDueWorks
<1> SUFFICES ASSUME NEW g \in Games, NEW k \in DOMAIN queue',
                    destroyer[g] \in {"purged", "gone"}
             PROVE  queue'[k].game # g
  BY <1>2 DEF Purged
<1>3. PICK l \in DOMAIN queue : queue'[k] = queue[l]
  BY <1>1, <1>2, EraseEffect
<1> QED
  BY <1>3, NothingLeft

(* A game that puts a message in has not been purged.                      *)
LEMMA PurgedPush ==
  ASSUME TypeOK, GameLocks, MutexHeld, Purged, NEW g \in Games, Push(g)
  PROVE  Purged'
<1>1. /\ sender[g].pc = "push" /\ UNCHANGED destroyer
      /\ queue' = Append(queue, [id |-> sender[g].id, stamp |-> sender[g].stamp, game |-> g])
  BY DEF Push
<1>2. destroyer[g] = "idle" /\ msgmutex = Sender(g)
  BY <1>1 DEF GameLocks, MutexHeld
<1>3. \A h \in Games : destroyer[h] # "purge"
  BY <1>2, NamesDiffer DEF MutexHeld
<1> SUFFICES ASSUME NEW h \in Games, NEW k \in DOMAIN queue',
                    destroyer[h] \in {"purged", "gone"}
             PROVE  queue'[k].game # h
  BY <1>1, <1>3 DEF Purged
<1>4. CASE k \in DOMAIN queue
  <2>1. queue'[k] = queue[k]
    BY <1>1, <1>4 DEF TypeOK
  <2> QED
    BY <1>4, <2>1, NothingLeft
<1>5. CASE k \notin DOMAIN queue
  <2>1. queue'[k].game = g
    BY <1>1, <1>5 DEF TypeOK
  <2> QED
    BY <1>2, <2>1
<1> QED
  BY <1>4, <1>5

(* A purge leaves nothing of its game behind it.                           *)
LEMMA PurgedPurgeNext ==
  ASSUME TypeOK, MutexHeld, InBounds, Purged, NEW g \in Games, PurgeNext(g)
  PROVE  Purged'
<1> DEFINE p == place[g]
<1>1. queue \in Seq(Message) /\ Len(queue) \in Nat /\ DOMAIN queue = 1 .. Len(queue)
  BY LenProperties DEF TypeOK
<1>2. /\ destroyer[g] = "purge" /\ p \in 1 .. Len(queue) /\ place'[g] = p - 1
      /\ UNCHANGED destroyer
      /\ \A h \in Games \ {g} : destroyer[h] # "purge"
      /\ \/ Erase(p)
         \/ UNCHANGED queue /\ queue[p].game # g
  BY PurgeNextWorks
<1>3. \A k \in DOMAIN queue : k > p => queue[k].game # g
  BY <1>2 DEF Purged
<1> HIDE DEF p
<1>4. \A k \in DOMAIN queue' : \E l \in DOMAIN queue : queue'[k] = queue[l]
  BY <1>1, <1>2, EraseEffect
<1>5. ASSUME NEW k \in DOMAIN queue', k > p - 1
      PROVE  queue'[k].game # g
  <2>1. CASE Erase(p)
    <3>1. /\ DOMAIN queue' = 1 .. Len(queue) - 1
          /\ \A j \in 1 .. Len(queue) - 1 :
                queue'[j] = IF j < p THEN queue[j] ELSE queue[j + 1]
      BY <1>1, <1>2, <2>1, EraseEffect
    <3>2. queue'[k] = queue[k + 1] /\ k + 1 \in DOMAIN queue /\ k + 1 > p
      BY <1>1, <1>2, <1>5, <3>1
    <3> QED
      BY <1>3, <3>2
  <2>2. CASE UNCHANGED queue /\ queue[p].game # g
    <3>1. k = p \/ k > p
      BY <1>1, <1>2, <1>5, <2>2
    <3> QED
      BY <1>3, <2>2, <3>1
  <2> QED
    BY <1>2, <2>1, <2>2
<1>6. ASSUME NEW h \in Games, destroyer[h] \in {"purged", "gone"}, NEW k \in DOMAIN queue'
      PROVE  queue'[k].game # h
  <2>1. PICK l \in DOMAIN queue : queue'[k] = queue[l]
    BY <1>4
  <2> QED
    BY <1>6, <2>1, NothingLeft
<1> SUFFICES ASSUME NEW h \in Games, NEW k \in DOMAIN queue',
                    \/ destroyer[h] \in {"purged", "gone"}
                    \/ destroyer[h] = "purge" /\ k > place'[h]
             PROVE  queue'[k].game # h
  BY <1>2 DEF Purged
<1>7. destroyer[h] = "purge" => h = g
  BY <1>2
<1> QED
  BY <1>2, <1>5, <1>6, <1>7

(* A message that is sent or purged is one less in the queue, one more     *)
(* done.                                                                   *)
LEMMA AccountsErase ==
  ASSUME TypeOK, Accounts, UNCHANGED <<sent, sender>>,
         NEW i \in 1 .. Len(queue), Erase(i), Finish({queue[i].id})
  PROVE  Accounts'
<1> SUFFICES ASSUME NEW id \in 1 .. MaxMessages
             PROVE  QueuedTimes(id)' + done'[id]
                       = IF id > sent \/ InHand(id) THEN 0 ELSE 1
  BY DEF Accounts, InHand
<1>1. queue \in Seq(Message) /\ done \in [1 .. MaxMessages -> Nat]
  BY DEF TypeOK
<1> DEFINE one == IF queue[i].id = id THEN 1 ELSE 0
<1>2. QueuedTimes(id)' = QueuedTimes(id) - one
  BY <1>1, EraseEffect
<1>3. done'[id] = done[id] + one
  BY <1>1, FinishType
<1>4. QueuedTimes(id) \in Nat /\ done[id] \in Nat /\ one \in Nat
  <2>1. Times(queue, id) \in Nat
    BY <1>1, TimesType
  <2> QED
    BY <1>1, <2>1 DEF Times, QueuedTimes
<1> HIDE DEF one
<1>5. QueuedTimes(id)' + done'[id] = QueuedTimes(id) + done[id]
  BY <1>2, <1>3, <1>4
<1> QED
  BY <1>5 DEF Accounts

(* A message that is new is with its sender.                               *)
LEMMA AccountsBeginSend ==
  ASSUME TypeOK, Accounts, NEW g \in Games, BeginSend(g)
  PROVE  Accounts'
<1>1. /\ sent \in Nat /\ sent' = sent + 1 /\ UNCHANGED <<queue, done>>
      /\ sender[g].pc = "idle"
  BY DEF BeginSend, TypeOK
<1>2. PICK d \in Delays :
         sender' = [sender EXCEPT ![g] = [pc |-> "lock", id |-> sent + 1, stamp |-> Stamp(d)]]
  BY DEF BeginSend
<1>3. /\ sender'[g].pc = "lock" /\ sender'[g].id = sent + 1
      /\ \A h \in Games \ {g} : sender'[h] = sender[h]
  BY <1>2 DEF TypeOK
<1> SUFFICES ASSUME NEW id \in 1 .. MaxMessages
             PROVE  QueuedTimes(id)' + done'[id]
                       = IF id > sent' \/ InHand(id)' THEN 0 ELSE 1
  BY DEF Accounts
<1>4. QueuedTimes(id)' = QueuedTimes(id) /\ done'[id] = done[id]
  BY <1>1 DEF QueuedTimes
<1>5. InHand(id)' <=> id = sent + 1 \/ InHand(id)
  <2>1. ASSUME InHand(id)' PROVE id = sent + 1 \/ InHand(id)
    <3>1. PICK h \in Games : sender'[h].pc \in {"lock", "push"} /\ sender'[h].id = id
      BY <2>1 DEF InHand
    <3>2. CASE h = g
      BY <1>3, <3>1, <3>2
    <3>3. CASE h # g
      BY <1>3, <3>1, <3>3 DEF InHand
    <3> QED
      BY <3>2, <3>3
  <2>2. ASSUME id = sent + 1 PROVE InHand(id)'
    BY <1>3, <2>2 DEF InHand
  <2>3. ASSUME InHand(id) PROVE InHand(id)'
    <3>1. PICK h \in Games : sender[h].pc \in {"lock", "push"} /\ sender[h].id = id
      BY <2>3 DEF InHand
    <3>2. h # g
      BY <1>1, <3>1
    <3> QED
      BY <1>3, <3>1, <3>2 DEF InHand
  <2> QED
    BY <2>1, <2>2, <2>3
<1>6. id > sent' \/ InHand(id)' <=> id > sent \/ InHand(id)
  BY <1>1, <1>5
<1> QED
  BY <1>4, <1>6 DEF Accounts

(* A message that is put in is in the queue once more, and with nobody.    *)
LEMMA AccountsPush ==
  ASSUME TypeOK, Numbered, Accounts, NEW g \in Games, Push(g)
  PROVE  Accounts'
<1> DEFINE m == [id |-> sender[g].id, stamp |-> sender[g].stamp, game |-> g]
<1>1. /\ queue' = Append(queue, m) /\ UNCHANGED <<done, sent>>
      /\ sender[g].pc = "push"
      /\ sender' = [sender EXCEPT ![g].pc = "signal"]
  BY DEF Push
<1>2. /\ sender[g].id \in 1 .. sent /\ sender[g].stamp \in 1 .. MaxTime
      /\ sent \in Nat /\ sent <= MaxMessages
  BY <1>1, BoundsAssumption DEF Numbered, TypeOK
<1>3. m \in Message /\ m.id = sender[g].id
  BY <1>2, BoundsAssumption DEF Message
<1>4. sender'[g].pc = "signal" /\ \A h \in Games \ {g} : sender'[h] = sender[h]
  BY <1>1 DEF TypeOK
<1> HIDE DEF m
<1> SUFFICES ASSUME NEW id \in 1 .. MaxMessages
             PROVE  QueuedTimes(id)' + done'[id]
                       = IF id > sent' \/ InHand(id)' THEN 0 ELSE 1
  BY DEF Accounts
<1>5. QueuedTimes(id)' = QueuedTimes(id) + (IF m.id = id THEN 1 ELSE 0)
  <2>1. Times(Append(queue, m), id) = Times(queue, id) + (IF m.id = id THEN 1 ELSE 0)
    BY <1>3, TimesAppend DEF TypeOK
  <2> QED
    BY <1>1, <2>1 DEF Times, QueuedTimes
<1>6. QueuedTimes(id) \in Nat /\ done[id] \in Nat
  <2>1. Times(queue, id) \in Nat
    BY TimesType DEF TypeOK
  <2> QED
    BY <2>1 DEF Times, QueuedTimes, TypeOK
<1>7. QueuedTimes(id) + done[id] = IF id > sent \/ InHand(id) THEN 0 ELSE 1
  BY DEF Accounts
<1>8. CASE id = sender[g].id
  <2>1. InHand(id)
    BY <1>1, <1>8 DEF InHand
  <2>2. ~InHand(id)'
    <3> SUFFICES ASSUME NEW h \in Games, sender'[h].pc \in {"lock", "push"},
                        sender'[h].id = id
                 PROVE  FALSE
      BY DEF InHand
    <3>1. h # g /\ sender'[h] = sender[h]
      BY <1>4
    <3> QED
      BY <1>1, <1>8, <3>1 DEF Numbered
  <2> QED
    BY <1>1, <1>2, <1>3, <1>5, <1>6, <1>7, <1>8, <2>1, <2>2
<1>9. CASE id # sender[g].id
  <2>1. ASSUME InHand(id)' PROVE InHand(id)
    <3>1. PICK h \in Games : sender'[h].pc \in {"lock", "push"} /\ sender'[h].id = id
      BY <2>1 DEF InHand
    <3> QED
      BY <1>4, <3>1 DEF InHand
  <2>2. ASSUME InHand(id) PROVE InHand(id)'
    <3>1. PICK h \in Games : sender[h].pc \in {"lock", "push"} /\ sender[h].id = id
      BY <2>2 DEF InHand
    <3>2. h # g
      BY <1>9, <3>1
    <3> QED
      BY <1>4, <3>1, <3>2 DEF InHand
  <2> QED
    BY <1>1, <1>3, <1>5, <1>6, <1>7, <1>9, <2>1, <2>2
<1> QED
  BY <1>8, <1>9

(* What a purge leaves was there, with its time.                           *)
LEMMA AlarmPurgeNext ==
  ASSUME TypeOK, MutexHeld, InBounds, Alarm, NEW g \in Games, PurgeNext(g)
  PROVE  Alarm'
<1>1. queue \in Seq(Message)
  BY DEF TypeOK
<1>2. /\ place[g] \in 1 .. Len(queue) /\ UNCHANGED <<timer, sender>>
      /\ timer.pc \notin {"scan", "send"}
      /\ Erase(place[g]) \/ UNCHANGED queue
  BY PurgeNextWorks
<1>3. \A k \in DOMAIN queue' : \E l \in DOMAIN queue : queue'[k] = queue[l]
  BY <1>1, <1>2, EraseEffect
<1>4. queue # <<>>
  BY <1>1, <1>2, LenProperties
<1> QED
  BY <1>2, <1>3, <1>4 DEF Alarm, Quiet

(* Without an owner robbed, there was none before.                         *)
LEMMA StolenStays == Inv /\ [Next]_vars /\ ~stolen' => ~stolen
<1> SUFFICES ASSUME Inv, [Next]_vars, ~stolen' PROVE ~stolen
  OBVIOUS
<1> USE NamesDiffer DEF Inv, TypeOK
<1>1. CASE StartTimer
  BY <1>1 DEF StartTimer, At, TimerGoes, Lock
<1>2. CASE TestQueue
  BY <1>2 DEF TestQueue, At, TimerGoes
<1>3. CASE Wait
  BY <1>3 DEF Wait, At, TimerGoes, Unlock
<1>4. CASE InvalidTime
  BY <1>4 DEF InvalidTime, At
<1>5. CASE TimeOut
  BY <1>5 DEF TimeOut, At, TimerGoes
<1>6. CASE Wake
  BY <1>6 DEF Wake, At, Lock
<1>7. CASE Look
  BY <1>7 DEF Look, At
<1>8. CASE SendDue
  BY <1>8 DEF SendDue, At, Finish
<1>9. CASE EndRound
  BY <1>9 DEF EndRound, At, TimerGoes, Unlock
<1>10. CASE Tick
  BY <1>10 DEF Tick
<1>11. ASSUME NEW g \in Games, BeginSend(g) PROVE ~stolen
  BY <1>11 DEF BeginSend, MayQueue, Stamp
<1>12. ASSUME NEW g \in Games, LockToPush(g) PROVE ~stolen
  BY <1>12 DEF LockToPush, Lock
<1>13. ASSUME NEW g \in Games, Push(g) PROVE ~stolen
  BY <1>13 DEF Push, Unlock
<1>14. ASSUME NEW g \in Games, EndSend(g) PROVE ~stolen
  BY <1>14 DEF EndSend, Signal
<1>15. ASSUME NEW g \in Games, BeginExit(g) PROVE ~stolen
  BY <1>15 DEF BeginExit
<1>16. ASSUME NEW g \in Games, LockToPurge(g) PROVE ~stolen
  BY <1>16 DEF LockToPurge, Lock
<1>17. ASSUME NEW g \in Games, PurgeNext(g) PROVE ~stolen
  BY <1>17 DEF PurgeNext, Finish, IsFor
<1>18. ASSUME NEW g \in Games, EndPurge(g) PROVE ~stolen
  BY <1>18 DEF EndPurge, Unlock
<1>19. ASSUME NEW g \in Games, FreeGame(g) PROVE ~stolen
  BY <1>19 DEF FreeGame
<1>20. CASE UNCHANGED vars
  BY <1>20 DEF vars
<1> QED
  BY <1>1, <1>2, <1>3, <1>4, <1>5, <1>6, <1>7, <1>8, <1>9, <1>10,
     <1>11, <1>12, <1>13, <1>14, <1>15, <1>16, <1>17, <1>18, <1>19, <1>20
     DEF Next, TimerStep, SenderStep, DestroyerStep

(* Without a lost signal, there was none before.                           *)
LEMMA LostStays == Inv /\ [Next]_vars /\ ~lost' => ~lost
<1> SUFFICES ASSUME Inv, [Next]_vars, ~lost' PROVE ~lost
  OBVIOUS
<1> USE NamesDiffer DEF Inv, TypeOK
<1>1. CASE StartTimer
  BY <1>1 DEF StartTimer, At, TimerGoes, Lock
<1>2. CASE TestQueue
  BY <1>2 DEF TestQueue, At, TimerGoes
<1>3. CASE Wait
  BY <1>3 DEF Wait, At, TimerGoes, Unlock
<1>4. CASE InvalidTime
  BY <1>4 DEF InvalidTime, At
<1>5. CASE TimeOut
  BY <1>5 DEF TimeOut, At, TimerGoes
<1>6. CASE Wake
  BY <1>6 DEF Wake, At, Lock
<1>7. CASE Look
  BY <1>7 DEF Look, At
<1>8. CASE SendDue
  BY <1>8 DEF SendDue, At, Finish
<1>9. CASE EndRound
  BY <1>9 DEF EndRound, At, TimerGoes, Unlock
<1>10. CASE Tick
  BY <1>10 DEF Tick
<1>11. ASSUME NEW g \in Games, BeginSend(g) PROVE ~lost
  BY <1>11 DEF BeginSend, MayQueue, Stamp
<1>12. ASSUME NEW g \in Games, LockToPush(g) PROVE ~lost
  BY <1>12 DEF LockToPush, Lock
<1>13. ASSUME NEW g \in Games, Push(g) PROVE ~lost
  BY <1>13 DEF Push, Unlock
<1>14. ASSUME NEW g \in Games, EndSend(g) PROVE ~lost
  BY <1>14 DEF EndSend, Signal
<1>15. ASSUME NEW g \in Games, BeginExit(g) PROVE ~lost
  BY <1>15 DEF BeginExit
<1>16. ASSUME NEW g \in Games, LockToPurge(g) PROVE ~lost
  BY <1>16 DEF LockToPurge, Lock
<1>17. ASSUME NEW g \in Games, PurgeNext(g) PROVE ~lost
  BY <1>17 DEF PurgeNext, Finish, IsFor
<1>18. ASSUME NEW g \in Games, EndPurge(g) PROVE ~lost
  BY <1>18 DEF EndPurge, Unlock
<1>19. ASSUME NEW g \in Games, FreeGame(g) PROVE ~lost
  BY <1>19 DEF FreeGame
<1>20. CASE UNCHANGED vars
  BY <1>20 DEF vars
<1> QED
  BY <1>1, <1>2, <1>3, <1>4, <1>5, <1>6, <1>7, <1>8, <1>9, <1>10,
     <1>11, <1>12, <1>13, <1>14, <1>15, <1>16, <1>17, <1>18, <1>19, <1>20
     DEF Next, TimerStep, SenderStep, DestroyerStep

(* The types stay.                                                         *)
LEMMA TypeKeeps == Inv /\ [Next]_vars => TypeOK'
<1> SUFFICES ASSUME Inv, [Next]_vars PROVE TypeOK'
  OBVIOUS
<1> USE NamesDiffer DEF Inv, TypeOK, HasPlace
<1>1. CASE StartTimer
  BY <1>1, OwnersHave DEF StartTimer, At, TimerGoes, Lock
<1>2. CASE TestQueue
  BY <1>2, OwnersHave DEF TestQueue, At, TimerGoes
<1>3. CASE Wait
  BY <1>3, OwnersHave DEF Wait, At, TimerGoes, Unlock
<1>4. CASE InvalidTime
  <2>1. timer'.i \in Nat /\ timer' = [pc |-> "scan", i |-> timer'.i, nextevent |-> 0]
    BY <1>4, LenProperties DEF InvalidTime, None
  <2> QED
    BY <1>4, <2>1 DEF InvalidTime
<1>5. CASE TimeOut
  BY <1>5, OwnersHave DEF TimeOut, At, TimerGoes
<1>6. CASE Wake
  <2>1. timer'.i \in Nat /\ timer' = [pc |-> "scan", i |-> timer'.i, nextevent |-> 0]
    BY <1>6, LenProperties DEF Wake, None
  <2> QED
    BY <1>6, <2>1, OwnersHave DEF Wake, Lock
<1>7. CASE Look
  <2>1. timer' \in [pc : {"scan", "send"}, i : Nat, nextevent : Nat]
    <3>1. timer.i - 1 \in Nat
      BY <1>7, LookEffect
    <3>2. timer.i <= Len(queue) => Earliest(timer.nextevent, queue[timer.i].stamp) \in Nat
      <4> SUFFICES ASSUME timer.i <= Len(queue)
                   PROVE  Earliest(timer.nextevent, queue[timer.i].stamp) \in Nat
        OBVIOUS
      <4>1. timer.i \in DOMAIN queue
        BY <1>7, LookEffect, LenProperties
      <4> QED
        BY <4>1, StampType, EarliestType
    <3> QED
      BY <1>7, <3>1, <3>2, LookEffect
  <2>2. faults' \subseteq {"outOfRange", "deadGame"}
    BY <1>7, LookEffect
  <2> QED
    BY <1>7, <2>1, <2>2, LookEffect
<1>8. CASE SendDue
  BY <1>8, TypeSendDue
<1>9. CASE EndRound
  BY <1>9, OwnersHave DEF EndRound, At, TimerGoes, Unlock
<1>10. CASE Tick
  BY <1>10, BoundsAssumption DEF Tick
<1>11. ASSUME NEW g \in Games, BeginSend(g) PROVE TypeOK'
  <2>1. /\ sent < MaxMessages /\ sent' = sent + 1 /\ sent' \in 1 .. MaxMessages
    BY <1>11, BoundsAssumption DEF BeginSend
  <2>2. PICK d \in Delays :
           /\ now + d <= MaxTime
           /\ sender' = [sender EXCEPT ![g] = [pc |-> "lock", id |-> sent + 1,
                                               stamp |-> now + d]]
    BY <1>11 DEF BeginSend, Stamp
  <2>3. now + d \in 0 .. MaxTime
    BY <2>2, BoundsAssumption, DelaysAssumption
  <2>4. sender' \in [Games -> [pc : {"idle", "lock", "push", "signal"},
                               id : 0 .. MaxMessages, stamp : 0 .. MaxTime]]
    BY <2>1, <2>2, <2>3
  <2>5. sent' \in 0 .. MaxMessages
    BY <2>1
  <2> QED
    BY <1>11, <2>4, <2>5, OwnersHave DEF BeginSend
<1>12. ASSUME NEW g \in Games, LockToPush(g) PROVE TypeOK'
  BY <1>12, OwnersHave DEF LockToPush, Lock
<1>13. ASSUME NEW g \in Games, Push(g) PROVE TypeOK'
  <2>1. /\ sender[g].id \in 1 .. MaxMessages /\ sender[g].stamp \in 1 .. MaxTime
    BY <1>13, BoundsAssumption DEF Push, Numbered
  <2>2. queue' \in Seq(Message)
    BY <1>13, <2>1 DEF Push, Message
  <2> QED
    BY <1>13, <2>2, OwnersHave DEF Push, Unlock
<1>14. ASSUME NEW g \in Games, EndSend(g) PROVE TypeOK'
  BY <1>14, TypeEndSend
<1>15. ASSUME NEW g \in Games, BeginExit(g) PROVE TypeOK'
  BY <1>15, OwnersHave DEF BeginExit
<1>16. ASSUME NEW g \in Games, LockToPurge(g) PROVE TypeOK'
  BY <1>16, OwnersHave DEF LockToPurge, Lock
<1>17. ASSUME NEW g \in Games, PurgeNext(g) PROVE TypeOK'
  BY <1>17, TypePurgeNext
<1>18. ASSUME NEW g \in Games, EndPurge(g) PROVE TypeOK'
  BY <1>18, OwnersHave DEF EndPurge, Unlock
<1>19. ASSUME NEW g \in Games, FreeGame(g) PROVE TypeOK'
  BY <1>19, OwnersHave DEF FreeGame
<1>20. CASE UNCHANGED vars
  BY <1>20 DEF vars
<1> QED
  BY <1>1, <1>2, <1>3, <1>4, <1>5, <1>6, <1>7, <1>8, <1>9, <1>10,
     <1>11, <1>12, <1>13, <1>14, <1>15, <1>16, <1>17, <1>18, <1>19, <1>20
     DEF Next, TimerStep, SenderStep, DestroyerStep

(* Control and the destructor keep their game locked.                      *)
LEMMA GameLocksKeep == Inv /\ [Next]_vars => GameLocks'
<1> SUFFICES ASSUME Inv, [Next]_vars PROVE GameLocks'
  OBVIOUS
<1> USE NamesDiffer DEF Inv, TypeOK, GameLocks, Nobody
<1>1. CASE StartTimer
  BY <1>1 DEF StartTimer, At, TimerGoes, Lock
<1>2. CASE TestQueue
  BY <1>2 DEF TestQueue, At, TimerGoes
<1>3. CASE Wait
  BY <1>3 DEF Wait, At, TimerGoes, Unlock
<1>4. CASE InvalidTime
  BY <1>4 DEF InvalidTime, At
<1>5. CASE TimeOut
  BY <1>5 DEF TimeOut, At, TimerGoes
<1>6. CASE Wake
  BY <1>6 DEF Wake, At, Lock
<1>7. CASE Look
  BY <1>7 DEF Look, At
<1>8. CASE SendDue
  BY <1>8 DEF SendDue, At, Finish
<1>9. CASE EndRound
  BY <1>9 DEF EndRound, At, TimerGoes, Unlock
<1>10. CASE Tick
  BY <1>10 DEF Tick
<1>11. ASSUME NEW g \in Games, BeginSend(g) PROVE GameLocks'
  BY <1>11 DEF BeginSend, MayQueue, Stamp
<1>12. ASSUME NEW g \in Games, LockToPush(g) PROVE GameLocks'
  BY <1>12 DEF LockToPush, Lock
<1>13. ASSUME NEW g \in Games, Push(g) PROVE GameLocks'
  BY <1>13 DEF Push, Unlock
<1>14. ASSUME NEW g \in Games, EndSend(g) PROVE GameLocks'
  BY <1>14 DEF EndSend, Signal
<1>15. ASSUME NEW g \in Games, BeginExit(g) PROVE GameLocks'
  BY <1>15 DEF BeginExit
<1>16. ASSUME NEW g \in Games, LockToPurge(g) PROVE GameLocks'
  BY <1>16 DEF LockToPurge, Lock
<1>17. ASSUME NEW g \in Games, PurgeNext(g) PROVE GameLocks'
  BY <1>17 DEF PurgeNext, Finish, IsFor
<1>18. ASSUME NEW g \in Games, EndPurge(g) PROVE GameLocks'
  BY <1>18 DEF EndPurge, Unlock
<1>19. ASSUME NEW g \in Games, FreeGame(g) PROVE GameLocks'
  BY <1>19 DEF FreeGame
<1>20. CASE UNCHANGED vars
  BY <1>20 DEF vars
<1> QED
  BY <1>1, <1>2, <1>3, <1>4, <1>5, <1>6, <1>7, <1>8, <1>9, <1>10,
     <1>11, <1>12, <1>13, <1>14, <1>15, <1>16, <1>17, <1>18, <1>19, <1>20
     DEF Next, TimerStep, SenderStep, DestroyerStep

(* A message that is due has a place.                                      *)
LEMMA PlaceKeeps == Inv /\ [Next]_vars => HasPlace'
<1> SUFFICES ASSUME Inv, [Next]_vars PROVE HasPlace'
  OBVIOUS
<1> USE NamesDiffer DEF Inv, TypeOK, HasPlace
<1>1. CASE StartTimer
  BY <1>1 DEF StartTimer, At, TimerGoes, Lock
<1>2. CASE TestQueue
  BY <1>2 DEF TestQueue, At, TimerGoes
<1>3. CASE Wait
  BY <1>3 DEF Wait, At, TimerGoes, Unlock
<1>4. CASE InvalidTime
  BY <1>4 DEF InvalidTime, At
<1>5. CASE TimeOut
  BY <1>5 DEF TimeOut, At, TimerGoes
<1>6. CASE Wake
  BY <1>6 DEF Wake, At, Lock
<1>7. CASE Look
  BY <1>7 DEF Look, At
<1>8. CASE SendDue
  BY <1>8 DEF SendDue, At, Finish
<1>9. CASE EndRound
  BY <1>9 DEF EndRound, At, TimerGoes, Unlock
<1>10. CASE Tick
  BY <1>10 DEF Tick
<1>11. ASSUME NEW g \in Games, BeginSend(g) PROVE HasPlace'
  BY <1>11 DEF BeginSend, MayQueue, Stamp
<1>12. ASSUME NEW g \in Games, LockToPush(g) PROVE HasPlace'
  BY <1>12 DEF LockToPush, Lock
<1>13. ASSUME NEW g \in Games, Push(g) PROVE HasPlace'
  BY <1>13 DEF Push, Unlock
<1>14. ASSUME NEW g \in Games, EndSend(g) PROVE HasPlace'
  BY <1>14 DEF EndSend, Signal
<1>15. ASSUME NEW g \in Games, BeginExit(g) PROVE HasPlace'
  BY <1>15 DEF BeginExit
<1>16. ASSUME NEW g \in Games, LockToPurge(g) PROVE HasPlace'
  BY <1>16 DEF LockToPurge, Lock
<1>17. ASSUME NEW g \in Games, PurgeNext(g) PROVE HasPlace'
  BY <1>17 DEF PurgeNext, Finish, IsFor
<1>18. ASSUME NEW g \in Games, EndPurge(g) PROVE HasPlace'
  BY <1>18 DEF EndPurge, Unlock
<1>19. ASSUME NEW g \in Games, FreeGame(g) PROVE HasPlace'
  BY <1>19 DEF FreeGame
<1>20. CASE UNCHANGED vars
  BY <1>20 DEF vars
<1> QED
  BY <1>1, <1>2, <1>3, <1>4, <1>5, <1>6, <1>7, <1>8, <1>9, <1>10,
     <1>11, <1>12, <1>13, <1>14, <1>15, <1>16, <1>17, <1>18, <1>19, <1>20
     DEF Next, TimerStep, SenderStep, DestroyerStep

(* A number is given to one message.                                       *)
LEMMA NumberedKeep == Inv /\ [Next]_vars => Numbered'
<1> SUFFICES ASSUME Inv, [Next]_vars PROVE Numbered'
  OBVIOUS
<1> USE NamesDiffer DEF Inv, TypeOK, Numbered
<1>1. CASE StartTimer
  BY <1>1 DEF StartTimer, At, TimerGoes, Lock
<1>2. CASE TestQueue
  BY <1>2 DEF TestQueue, At, TimerGoes
<1>3. CASE Wait
  BY <1>3 DEF Wait, At, TimerGoes, Unlock
<1>4. CASE InvalidTime
  BY <1>4 DEF InvalidTime, At
<1>5. CASE TimeOut
  BY <1>5 DEF TimeOut, At, TimerGoes
<1>6. CASE Wake
  BY <1>6 DEF Wake, At, Lock
<1>7. CASE Look
  BY <1>7 DEF Look, At
<1>8. CASE SendDue
  BY <1>8 DEF SendDue, At, Finish
<1>9. CASE EndRound
  BY <1>9 DEF EndRound, At, TimerGoes, Unlock
<1>10. CASE Tick
  BY <1>10 DEF Tick
<1>11. ASSUME NEW g \in Games, BeginSend(g) PROVE Numbered'
  <2>1. /\ sent \in Nat /\ sent' = sent + 1
    BY <1>11 DEF BeginSend
  <2>2. PICK d \in Delays :
           /\ now + d <= MaxTime
           /\ sender' = [sender EXCEPT ![g] = [pc |-> "lock", id |-> sent + 1,
                                               stamp |-> now + d]]
    BY <1>11 DEF BeginSend, Stamp
  <2>3. now + d \in 1 .. MaxTime
    BY <2>2, BoundsAssumption, DelaysAssumption
  <2> QED
    BY <2>1, <2>2, <2>3
<1>12. ASSUME NEW g \in Games, LockToPush(g) PROVE Numbered'
  BY <1>12 DEF LockToPush, Lock
<1>13. ASSUME NEW g \in Games, Push(g) PROVE Numbered'
  BY <1>13 DEF Push, Unlock
<1>14. ASSUME NEW g \in Games, EndSend(g) PROVE Numbered'
  BY <1>14 DEF EndSend, Signal
<1>15. ASSUME NEW g \in Games, BeginExit(g) PROVE Numbered'
  BY <1>15 DEF BeginExit
<1>16. ASSUME NEW g \in Games, LockToPurge(g) PROVE Numbered'
  BY <1>16 DEF LockToPurge, Lock
<1>17. ASSUME NEW g \in Games, PurgeNext(g) PROVE Numbered'
  BY <1>17 DEF PurgeNext, Finish, IsFor
<1>18. ASSUME NEW g \in Games, EndPurge(g) PROVE Numbered'
  BY <1>18 DEF EndPurge, Unlock
<1>19. ASSUME NEW g \in Games, FreeGame(g) PROVE Numbered'
  BY <1>19 DEF FreeGame
<1>20. CASE UNCHANGED vars
  BY <1>20 DEF vars
<1> QED
  BY <1>1, <1>2, <1>3, <1>4, <1>5, <1>6, <1>7, <1>8, <1>9, <1>10,
     <1>11, <1>12, <1>13, <1>14, <1>15, <1>16, <1>17, <1>18, <1>19, <1>20
     DEF Next, TimerStep, SenderStep, DestroyerStep

(* Who counts on msgmutex has it, if nobody was robbed of it.              *)
LEMMA MutexKeeps == Inv /\ [Next]_vars /\ ~stolen' => MutexHeld'
<1> SUFFICES ASSUME Inv, [Next]_vars, ~stolen' PROVE MutexHeld'
  OBVIOUS
<1> USE NamesDiffer DEF Inv, TypeOK, MutexHeld
<1>a. ~stolen
  BY StolenStays
<1> USE <1>a
<1>1. CASE StartTimer
  BY <1>1 DEF StartTimer, At, TimerGoes, Lock
<1>2. CASE TestQueue
  BY <1>2 DEF TestQueue, At, TimerGoes
<1>3. CASE Wait
  BY <1>3 DEF Wait, At, TimerGoes, Unlock
<1>4. CASE InvalidTime
  BY <1>4 DEF InvalidTime, At
<1>5. CASE TimeOut
  BY <1>5 DEF TimeOut, At, TimerGoes
<1>6. CASE Wake
  BY <1>6 DEF Wake, At, Lock
<1>7. CASE Look
  BY <1>7 DEF Look, At
<1>8. CASE SendDue
  BY <1>8 DEF SendDue, At, Finish
<1>9. CASE EndRound
  BY <1>9 DEF EndRound, At, TimerGoes, Unlock
<1>10. CASE Tick
  BY <1>10 DEF Tick
<1>11. ASSUME NEW g \in Games, BeginSend(g) PROVE MutexHeld'
  BY <1>11 DEF BeginSend, MayQueue, Stamp
<1>12. ASSUME NEW g \in Games, LockToPush(g) PROVE MutexHeld'
  BY <1>12 DEF LockToPush, Lock
<1>13. ASSUME NEW g \in Games, Push(g) PROVE MutexHeld'
  BY <1>13 DEF Push, Unlock
<1>14. ASSUME NEW g \in Games, EndSend(g) PROVE MutexHeld'
  BY <1>14 DEF EndSend, Signal
<1>15. ASSUME NEW g \in Games, BeginExit(g) PROVE MutexHeld'
  BY <1>15 DEF BeginExit
<1>16. ASSUME NEW g \in Games, LockToPurge(g) PROVE MutexHeld'
  BY <1>16 DEF LockToPurge, Lock
<1>17. ASSUME NEW g \in Games, PurgeNext(g) PROVE MutexHeld'
  BY <1>17 DEF PurgeNext, Finish, IsFor
<1>18. ASSUME NEW g \in Games, EndPurge(g) PROVE MutexHeld'
  BY <1>18 DEF EndPurge, Unlock
<1>19. ASSUME NEW g \in Games, FreeGame(g) PROVE MutexHeld'
  BY <1>19 DEF FreeGame
<1>20. CASE UNCHANGED vars
  BY <1>20 DEF vars
<1> QED
  BY <1>1, <1>2, <1>3, <1>4, <1>5, <1>6, <1>7, <1>8, <1>9, <1>10,
     <1>11, <1>12, <1>13, <1>14, <1>15, <1>16, <1>17, <1>18, <1>19, <1>20
     DEF Next, TimerStep, SenderStep, DestroyerStep

(* No scan leaves the queue, and no game is sent to that is gone.          *)
LEMMA InBoundsKeep == Inv /\ [Next]_vars /\ ~stolen' => InBounds' /\ faults' = {}
<1> SUFFICES ASSUME Inv, [Next]_vars, ~stolen' PROVE InBounds' /\ faults' = {}
  OBVIOUS
<1> USE NamesDiffer DEF Inv, TypeOK, GameLocks, HasPlace, MutexHeld, InBounds, Purged
<1>a. ~stolen
  BY StolenStays
<1> USE <1>a
<1>1. CASE StartTimer
  BY <1>1 DEF StartTimer, At, TimerGoes, Lock
<1>2. CASE TestQueue
  BY <1>2 DEF TestQueue, At, TimerGoes
<1>3. CASE Wait
  BY <1>3 DEF Wait, At, TimerGoes, Unlock
<1>4. CASE InvalidTime
  BY <1>4 DEF InvalidTime, At
<1>5. CASE TimeOut
  BY <1>5 DEF TimeOut, At, TimerGoes
<1>6. CASE Wake
  BY <1>6 DEF Wake, At, Lock
<1>7. CASE Look
  BY <1>7, BoundsLook
<1>8. CASE SendDue
  BY <1>8, BoundsSendDue
<1>9. CASE EndRound
  BY <1>9 DEF EndRound, At, TimerGoes, Unlock
<1>10. CASE Tick
  BY <1>10 DEF Tick
<1>11. ASSUME NEW g \in Games, BeginSend(g) PROVE InBounds' /\ faults' = {}
  BY <1>11 DEF BeginSend, MayQueue, Stamp
<1>12. ASSUME NEW g \in Games, LockToPush(g) PROVE InBounds' /\ faults' = {}
  BY <1>12 DEF LockToPush, Lock
<1>13. ASSUME NEW g \in Games, Push(g) PROVE InBounds' /\ faults' = {}
  BY <1>13 DEF Push, Unlock
<1>14. ASSUME NEW g \in Games, EndSend(g) PROVE InBounds' /\ faults' = {}
  BY <1>14 DEF EndSend, Signal
<1>15. ASSUME NEW g \in Games, BeginExit(g) PROVE InBounds' /\ faults' = {}
  BY <1>15 DEF BeginExit
<1>16. ASSUME NEW g \in Games, LockToPurge(g) PROVE InBounds' /\ faults' = {}
  BY <1>16 DEF LockToPurge, Lock
<1>17. ASSUME NEW g \in Games, PurgeNext(g) PROVE InBounds' /\ faults' = {}
  BY <1>17, BoundsPurgeNext
<1>18. ASSUME NEW g \in Games, EndPurge(g) PROVE InBounds' /\ faults' = {}
  BY <1>18 DEF EndPurge, Unlock
<1>19. ASSUME NEW g \in Games, FreeGame(g) PROVE InBounds' /\ faults' = {}
  BY <1>19 DEF FreeGame
<1>20. CASE UNCHANGED vars
  BY <1>20 DEF vars
<1> QED
  BY <1>1, <1>2, <1>3, <1>4, <1>5, <1>6, <1>7, <1>8, <1>9, <1>10,
     <1>11, <1>12, <1>13, <1>14, <1>15, <1>16, <1>17, <1>18, <1>19, <1>20
     DEF Next, TimerStep, SenderStep, DestroyerStep

(* A purge leaves nothing behind.                                          *)
LEMMA PurgedKeep == Inv /\ [Next]_vars /\ ~stolen' => Purged'
<1> SUFFICES ASSUME Inv, [Next]_vars, ~stolen' PROVE Purged'
  OBVIOUS
<1> USE NamesDiffer DEF Inv, TypeOK, GameLocks, HasPlace, MutexHeld, InBounds, Purged
<1>a. ~stolen
  BY StolenStays
<1> USE <1>a
<1>1. CASE StartTimer
  BY <1>1 DEF StartTimer, At, TimerGoes, Lock
<1>2. CASE TestQueue
  BY <1>2 DEF TestQueue, At, TimerGoes
<1>3. CASE Wait
  BY <1>3 DEF Wait, At, TimerGoes, Unlock
<1>4. CASE InvalidTime
  BY <1>4 DEF InvalidTime, At
<1>5. CASE TimeOut
  BY <1>5 DEF TimeOut, At, TimerGoes
<1>6. CASE Wake
  BY <1>6 DEF Wake, At, Lock
<1>7. CASE Look
  BY <1>7 DEF Look, At
<1>8. CASE SendDue
  BY <1>8, PurgedSendDue
<1>9. CASE EndRound
  BY <1>9 DEF EndRound, At, TimerGoes, Unlock
<1>10. CASE Tick
  BY <1>10 DEF Tick
<1>11. ASSUME NEW g \in Games, BeginSend(g) PROVE Purged'
  BY <1>11 DEF BeginSend, MayQueue, Stamp
<1>12. ASSUME NEW g \in Games, LockToPush(g) PROVE Purged'
  BY <1>12 DEF LockToPush, Lock
<1>13. ASSUME NEW g \in Games, Push(g) PROVE Purged'
  BY <1>13, PurgedPush
<1>14. ASSUME NEW g \in Games, EndSend(g) PROVE Purged'
  BY <1>14 DEF EndSend, Signal
<1>15. ASSUME NEW g \in Games, BeginExit(g) PROVE Purged'
  BY <1>15 DEF BeginExit
<1>16. ASSUME NEW g \in Games, LockToPurge(g) PROVE Purged'
  BY <1>16 DEF LockToPurge, Lock
<1>17. ASSUME NEW g \in Games, PurgeNext(g) PROVE Purged'
  BY <1>17, PurgedPurgeNext
<1>18. ASSUME NEW g \in Games, EndPurge(g) PROVE Purged'
  BY <1>18 DEF EndPurge, Unlock
<1>19. ASSUME NEW g \in Games, FreeGame(g) PROVE Purged'
  BY <1>19 DEF FreeGame
<1>20. CASE UNCHANGED vars
  BY <1>20 DEF vars
<1> QED
  BY <1>1, <1>2, <1>3, <1>4, <1>5, <1>6, <1>7, <1>8, <1>9, <1>10,
     <1>11, <1>12, <1>13, <1>14, <1>15, <1>16, <1>17, <1>18, <1>19, <1>20
     DEF Next, TimerStep, SenderStep, DestroyerStep

(* Every message stays in one place.                                       *)
LEMMA AccountsKeep == Inv /\ [Next]_vars /\ ~stolen' => Accounts'
<1> SUFFICES ASSUME Inv, [Next]_vars, ~stolen' PROVE Accounts'
  OBVIOUS
<1> USE NamesDiffer DEF Inv, TypeOK, HasPlace, MutexHeld, InBounds, Numbered
<1>a. ~stolen
  BY StolenStays
<1> USE <1>a
<1>1. CASE StartTimer
  BY <1>1, SameAccounts DEF StartTimer, At, TimerGoes, Lock
<1>2. CASE TestQueue
  BY <1>2, SameAccounts DEF TestQueue, At, TimerGoes
<1>3. CASE Wait
  BY <1>3, SameAccounts DEF Wait, At, TimerGoes, Unlock
<1>4. CASE InvalidTime
  BY <1>4, SameAccounts DEF InvalidTime, At
<1>5. CASE TimeOut
  BY <1>5, SameAccounts DEF TimeOut, At, TimerGoes
<1>6. CASE Wake
  BY <1>6, SameAccounts DEF Wake, At, Lock
<1>7. CASE Look
  BY <1>7, SameAccounts DEF Look, At
<1>8. CASE SendDue
  BY <1>8, SendDueWorks, AccountsErase
<1>9. CASE EndRound
  BY <1>9, SameAccounts DEF EndRound, At, TimerGoes, Unlock
<1>10. CASE Tick
  BY <1>10, SameAccounts DEF Tick
<1>11. ASSUME NEW g \in Games, BeginSend(g) PROVE Accounts'
  BY <1>11, AccountsBeginSend
<1>12. ASSUME NEW g \in Games, LockToPush(g) PROVE Accounts'
  <2>1. \A id \in 1 .. MaxMessages : /\ InHand(id)' <=> InHand(id)
                                     /\ QueuedTimes(id)' = QueuedTimes(id)
    BY <1>12 DEF LockToPush, InHand, QueuedTimes
  <2>2. UNCHANGED <<done, sent>>
    BY <1>12 DEF LockToPush
  <2> QED
    BY <2>1, <2>2 DEF Accounts
<1>13. ASSUME NEW g \in Games, Push(g) PROVE Accounts'
  BY <1>13, AccountsPush
<1>14. ASSUME NEW g \in Games, EndSend(g) PROVE Accounts'
  <2>1. \A id \in 1 .. MaxMessages : /\ InHand(id)' <=> InHand(id)
                                     /\ QueuedTimes(id)' = QueuedTimes(id)
    BY <1>14 DEF EndSend, InHand, QueuedTimes
  <2>2. UNCHANGED <<done, sent>>
    BY <1>14 DEF EndSend
  <2> QED
    BY <2>1, <2>2 DEF Accounts
<1>15. ASSUME NEW g \in Games, BeginExit(g) PROVE Accounts'
  BY <1>15, SameAccounts DEF BeginExit
<1>16. ASSUME NEW g \in Games, LockToPurge(g) PROVE Accounts'
  BY <1>16, SameAccounts DEF LockToPurge, Lock
<1>17. ASSUME NEW g \in Games, PurgeNext(g) PROVE Accounts'
  <2>1. UNCHANGED <<sent, sender>> /\ place[g] \in 1 .. Len(queue)
    BY <1>17, PurgeNextWorks
  <2>2. CASE UNCHANGED <<queue, done>>
    BY <2>1, <2>2, SameAccounts
  <2>3. CASE Finish({queue[place[g]].id}) /\ Erase(place[g])
    BY <2>1, <2>3, AccountsErase
  <2> QED
    BY <1>17, <2>2, <2>3, PurgeNextWorks
<1>18. ASSUME NEW g \in Games, EndPurge(g) PROVE Accounts'
  BY <1>18, SameAccounts DEF EndPurge, Unlock
<1>19. ASSUME NEW g \in Games, FreeGame(g) PROVE Accounts'
  BY <1>19, SameAccounts DEF FreeGame
<1>20. CASE UNCHANGED vars
  BY <1>20, SameAccounts DEF vars
<1> QED
  BY <1>1, <1>2, <1>3, <1>4, <1>5, <1>6, <1>7, <1>8, <1>9, <1>10,
     <1>11, <1>12, <1>13, <1>14, <1>15, <1>16, <1>17, <1>18, <1>19, <1>20
     DEF Next, TimerStep, SenderStep, DestroyerStep

(* The timer remembers the earliest time of what it has looked at.         *)
LEMMA AlarmKeeps == Inv /\ [Next]_vars /\ ~stolen' /\ ~lost' => Alarm'
<1> SUFFICES ASSUME Inv, [Next]_vars, ~stolen', ~lost' PROVE Alarm'
  OBVIOUS
<1> USE NamesDiffer DEF Inv, TypeOK, HasPlace, MutexHeld, InBounds, Alarm, Quiet
<1>a. ~stolen /\ ~lost
  BY StolenStays, LostStays
<1> USE <1>a
<1>1. CASE StartTimer
  <2>1. timer'.pc = "test" /\ timer'.nextevent = 0 /\ UNCHANGED <<queue, sender>>
    BY <1>1 DEF StartTimer, At, TimerGoes, None
  <2>2. \A k \in DOMAIN queue : 0 <= queue[k].stamp
    BY StampType
  <2> QED
    BY <2>1, <2>2
<1>2. CASE TestQueue
  BY <1>2 DEF TestQueue, At, TimerGoes
<1>3. CASE Wait
  BY <1>3 DEF Wait, At, TimerGoes, Unlock
<1>4. CASE InvalidTime
  BY <1>4 DEF InvalidTime, At
<1>5. CASE TimeOut
  BY <1>5 DEF TimeOut, At, TimerGoes
<1>6. CASE Wake
  BY <1>6 DEF Wake, At, Lock
<1>7. CASE Look
  <2>1. /\ timer.pc = "scan" /\ timer.i \in Nat \ {0} /\ timer.i <= Len(queue)
        /\ UNCHANGED <<queue, sender>>
    BY <1>7, LookEffect
  <2>2. /\ timer.i \in DOMAIN queue /\ Len(queue) \in Nat /\ DOMAIN queue = 1 .. Len(queue)
    BY <2>1, LenProperties
  <2>3. CASE timer' = [timer EXCEPT !.pc = "send"]
    BY <2>1, <2>3
  <2>4. CASE timer' = [timer EXCEPT !.i = timer.i - 1,
                                    !.nextevent = Earliest(timer.nextevent,
                                                           queue[timer.i].stamp)]
    <3> DEFINE old == timer.nextevent
               new == Earliest(old, queue[timer.i].stamp)
    <3>1. /\ new \in Nat /\ new # None /\ new <= queue[timer.i].stamp
          /\ old # None => new <= old
      BY <2>2, StampType, EarliestType
    <3>2. timer'.pc = "scan" /\ timer'.i = timer.i - 1 /\ timer'.nextevent = new
      BY <2>1, <2>4
    <3> HIDE DEF new
    <3>3. ASSUME NEW k \in DOMAIN queue, k > timer.i - 1
          PROVE  new <= queue[k].stamp
      <4>1. CASE k = timer.i
        BY <3>1, <4>1
      <4>2. CASE k > timer.i
        <5>1. old # None /\ old <= queue[k].stamp
          BY <2>1, <4>2
        <5>2. new <= old /\ old \in Nat /\ queue[k].stamp \in Nat
          BY <3>1, <5>1, StampType
        <5> QED
          BY <3>1, <5>1, <5>2
      <4> QED
        BY <2>2, <3>3, <4>1, <4>2
    <3> QED
      BY <2>1, <3>1, <3>2, <3>3
  <2> QED
    BY <1>7, <2>1, <2>3, <2>4, LookEffect
<1>8. CASE SendDue
  <2>1. /\ timer.pc = "send" /\ timer' = [timer EXCEPT !.pc = "scan", !.i = timer.i - 1]
    BY <1>8, SendDueEffect
  <2>2. timer.i \in 1 .. Len(queue) /\ Erase(timer.i)
    BY <1>8, <2>1, SendDueEffect, LenProperties
  <2>3. /\ Len(queue) \in Nat /\ DOMAIN queue = 1 .. Len(queue)
        /\ DOMAIN queue' = 1 .. Len(queue) - 1
        /\ \A j \in 1 .. Len(queue) - 1 :
              queue'[j] = IF j < timer.i THEN queue[j] ELSE queue[j + 1]
    BY <2>2, EraseEffect
  <2>4. ASSUME NEW k \in DOMAIN queue', k > timer.i - 1
        PROVE  timer.nextevent # None /\ timer.nextevent <= queue'[k].stamp
    <3>1. queue'[k] = queue[k + 1] /\ k + 1 \in DOMAIN queue /\ k + 1 > timer.i
      BY <2>2, <2>3, <2>4
    <3> QED
      BY <2>1, <3>1
  <2>5. /\ timer'.pc = "scan" /\ timer'.i = timer.i - 1
        /\ timer'.nextevent = timer.nextevent
    BY <2>1
  <2> QED
    BY <2>4, <2>5
<1>9. CASE EndRound
  BY <1>9 DEF EndRound, At, TimerGoes, Unlock
<1>10. CASE Tick
  BY <1>10 DEF Tick
<1>11. ASSUME NEW g \in Games, BeginSend(g) PROVE Alarm'
  BY <1>11 DEF BeginSend, MayQueue, Stamp
<1>12. ASSUME NEW g \in Games, LockToPush(g) PROVE Alarm'
  BY <1>12 DEF LockToPush, Lock
<1>13. ASSUME NEW g \in Games, Push(g) PROVE Alarm'
  BY <1>13 DEF Push, Unlock
<1>14. ASSUME NEW g \in Games, EndSend(g) PROVE Alarm'
  BY <1>14 DEF EndSend, Signal
<1>15. ASSUME NEW g \in Games, BeginExit(g) PROVE Alarm'
  BY <1>15 DEF BeginExit
<1>16. ASSUME NEW g \in Games, LockToPurge(g) PROVE Alarm'
  BY <1>16 DEF LockToPurge, Lock
<1>17. ASSUME NEW g \in Games, PurgeNext(g) PROVE Alarm'
  BY <1>17, AlarmPurgeNext
<1>18. ASSUME NEW g \in Games, EndPurge(g) PROVE Alarm'
  BY <1>18 DEF EndPurge, Unlock
<1>19. ASSUME NEW g \in Games, FreeGame(g) PROVE Alarm'
  BY <1>19 DEF FreeGame
<1>20. CASE UNCHANGED vars
  BY <1>20 DEF vars
<1> QED
  BY <1>1, <1>2, <1>3, <1>4, <1>5, <1>6, <1>7, <1>8, <1>9, <1>10,
     <1>11, <1>12, <1>13, <1>14, <1>15, <1>16, <1>17, <1>18, <1>19, <1>20
     DEF Next, TimerStep, SenderStep, DestroyerStep

-----------------------------------------------------------------------------
(* The invariant, from the start and with every step.                      *)

LEMMA InitInv == Init => Inv
<1> SUFFICES ASSUME Init PROVE Inv
  OBVIOUS
<1> USE NamesDiffer, OwnersHave DEF Init
<1>1. TypeOK
  <2>1. now \in 1 .. MaxTime /\ sent \in 0 .. MaxMessages /\ 0 \in 0 .. MaxTime
    BY BoundsAssumption
  <2>2. sender \in [Games -> [pc : {"idle", "lock", "push", "signal"},
                             id : 0 .. MaxMessages, stamp : 0 .. MaxTime]]
    BY <2>1
  <2>3. queue \in Seq(Message) /\ done \in [1 .. MaxMessages -> Nat]
    OBVIOUS
  <2> QED
    BY <2>1, <2>2, <2>3 DEF TypeOK, None
<1>2. GameLocks /\ Numbered /\ HasPlace /\ MutexHeld /\ InBounds /\ Purged
  BY DEF GameLocks, Numbered, HasPlace, MutexHeld, InBounds, Purged
<1>3. Accounts
  <2> SUFFICES ASSUME NEW id \in 1 .. MaxMessages PROVE QueuedTimes(id) + done[id] = 0
    BY BoundsAssumption DEF Accounts
  <2>1. {k \in DOMAIN queue : queue[k].id = id} = {}
    OBVIOUS
  <2> QED
    BY <2>1, FS_EmptySet DEF QueuedTimes
<1>4. Alarm
  BY DEF Alarm
<1> QED
  BY <1>1, <1>2, <1>3, <1>4 DEF Inv

LEMMA StepInv == Inv /\ [Next]_vars => Inv'
  BY TypeKeeps, GameLocksKeep, NumberedKeep, PlaceKeeps, MutexKeeps, InBoundsKeep,
     PurgedKeep, AccountsKeep, AlarmKeeps DEF Inv

(* What the threads know of each other holds for any games, delays and     *)
(* bounds.                                                                 *)
THEOREM InvHolds == Spec => []Inv
  BY InitInv, StepInv, PTL DEF Spec

(* The state of the timed messages is always of its type.                  *)
THEOREM TypesHold == Spec => []TypeOK
<1>1. Inv => TypeOK
  BY DEF Inv
<1> QED
  BY <1>1, InvHolds, PTL

(* SendMsg is never called of a game that is gone, no scan of the queue    *)
(* leaves it, and a game whose purge is over has no message in it.         *)
THEOREM NoMessageForTheDead == Spec => []NoDeadRecipient
<1>1. Inv => NoDeadRecipient
  BY NothingLeft, StampType DEF Inv, NoDeadRecipient, TypeOK, Message
<1> QED
  BY <1>1, InvHolds, PTL

(* Every message is with its sender, in the queue or done, and only once,  *)
(* while the timer and the purges scan and erase.                          *)
THEOREM MessagesAreAccounted == Spec => []EveryMessageAccounted
<1>1. Inv => EveryMessageAccounted
  <2> SUFFICES ASSUME Inv, ~stolen, NEW id \in 1 .. sent
               PROVE  QueuedTimes(id) + done[id] = (IF InHand(id) THEN 0 ELSE 1)
    BY DEF EveryMessageAccounted
  <2>1. id \in 1 .. MaxMessages /\ ~(id > sent)
    BY BoundsAssumption DEF Inv, TypeOK
  <2> QED
    BY <2>1 DEF Inv, Accounts
<1> QED
  BY <1>1, InvHolds, PTL

(* Unless a signal was lost, a sleeping timer wakes in time.               *)
THEOREM AlarmIsUpToDate == Spec => []AlarmUpToDate
<1>1. Inv => AlarmUpToDate
  BY DEF Inv, Alarm, Quiet, AlarmUpToDate, WakesInTime
<1> QED
  BY <1>1, InvHolds, PTL
=============================================================================
