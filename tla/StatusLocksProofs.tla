------------------------- MODULE StatusLocksProofs -------------------------
(***************************************************************************)
(* Proofs about StatusLocks, for any set of threads and any nesting depth. *)
(*                                                                         *)
(* The first part is about lists: what AddReader, a decrement and DropNode *)
(* do to the read count of every thread.  The second part only speaks of   *)
(* read counts.                                                            *)
(***************************************************************************)
EXTENDS StatusLocks, SequenceTheorems, TLAPS

(* RemoveAt takes one element out and keeps the order of the others.       *)
LEMMA RemoveAtProperties ==
  ASSUME NEW S, NEW seq \in Seq(S), NEW i \in 1..Len(seq)
  PROVE  /\ RemoveAt(seq, i) \in Seq(S)
         /\ Len(RemoveAt(seq, i)) = Len(seq) - 1
         /\ \A j \in 1 .. Len(seq) - 1 :
               RemoveAt(seq, i)[j] = IF j < i THEN seq[j] ELSE seq[j + 1]
<1> DEFINE front == SubSeq(seq, 1, i - 1)
           back  == SubSeq(seq, i + 1, Len(seq))
<1>0. /\ Len(seq) \in Nat
      /\ \A j \in 1 .. Len(seq) : seq[j] \in S
  BY LenProperties, ElementOfSeq
<1>1. /\ front \in Seq(S)
      /\ Len(front) = i - 1
      /\ \A j \in 1 .. i - 1 : front[j] = seq[j]
  <2>1. \A j \in 1 .. i - 1 : seq[j] \in S
    BY <1>0
  <2> HIDE DEF front
  <2>2. /\ front \in Seq(S)
        /\ Len(front) = IF 1 <= i - 1 THEN (i - 1) - 1 + 1 ELSE 0
        /\ \A j \in 1 .. (i - 1) - 1 + 1 : front[j] = seq[1 + j - 1]
    BY <2>1, <1>0, SubSeqProperties DEF front
  <2> QED
    BY <2>2, <1>0
<1>2. /\ back \in Seq(S)
      /\ Len(back) = Len(seq) - i
      /\ \A j \in 1 .. Len(seq) - i : back[j] = seq[i + j]
  <2>1. \A j \in i + 1 .. Len(seq) : seq[j] \in S
    BY <1>0
  <2> HIDE DEF back
  <2>2. /\ back \in Seq(S)
        /\ Len(back) = IF i + 1 <= Len(seq) THEN Len(seq) - (i + 1) + 1 ELSE 0
        /\ \A j \in 1 .. Len(seq) - (i + 1) + 1 : back[j] = seq[(i + 1) + j - 1]
    BY <2>1, <1>0, SubSeqProperties DEF back
  <2> QED
    BY <2>2, <1>0
<1>3. RemoveAt(seq, i) = front \o back
  BY DEF RemoveAt
<1> HIDE DEF front, back
<1>4. /\ front \o back \in Seq(S)
      /\ Len(front \o back) = Len(front) + Len(back)
      /\ \A j \in 1 .. Len(front) + Len(back) : (front \o back)[j] =
            IF j <= Len(front) THEN front[j] ELSE back[j - Len(front)]
  BY <1>1, <1>2, ConcatProperties
<1> QED
  BY <1>0, <1>1, <1>2, <1>3, <1>4

(* A list as the object keeps it.                                          *)
List(list) == list \in Seq(ReaderInfo) /\ list # <<>> /\ WellFormed(list)

(* A node of a list is the only one with its thread, so its count is what  *)
(* the thread has; a thread without a node has nothing.                    *)
LEMMA CountOfNode ==
  ASSUME NEW list, List(list)
  PROVE  /\ \A i \in 1 .. Len(list) : CountIn(list, list[i].thread) = list[i].count
         /\ \A t \in Threads :
               (\A i \in 1 .. Len(list) : list[i].thread # t) => CountIn(list, t) = 0
<1>1. DOMAIN list = 1 .. Len(list) /\ Len(list) \in Nat
  BY LenProperties DEF List
<1>2. ASSUME NEW i \in 1 .. Len(list)
      PROVE  CountIn(list, list[i].thread) = list[i].count
  <2>1. NodesOf(list, list[i].thread) = {i}
    BY <1>1, <1>2 DEF NodesOf, List, WellFormed
  <2> QED
    BY <2>1 DEF CountIn
<1>3. ASSUME NEW t \in Threads, \A i \in 1 .. Len(list) : list[i].thread # t
      PROVE  CountIn(list, t) = 0
  BY <1>1, <1>3 DEF CountIn, NodesOf
<1> QED
  BY <1>2, <1>3

(* A list with one node replaced.                                          *)
Updated(list, i, node) == [list EXCEPT ![i] = node]

(* The counts of a list with one node changed, given as what the new list  *)
(* holds: used for the two operations that keep the length.                *)
LEMMA CountAfterUpdate ==
  ASSUME NEW list, List(list), NEW i \in 1 .. Len(list), NEW node \in ReaderInfo,
         \A j \in 1 .. Len(list) : j # i => list[j].thread # node.thread,
         node.count = 0 => Len(list) = 1
  PROVE  /\ List(Updated(list, i, node))
         /\ CountIn(Updated(list, i, node), node.thread) = node.count
         /\ \A u \in Threads : u # node.thread /\ u # list[i].thread
               => CountIn(Updated(list, i, node), u) = CountIn(list, u)
         /\ node.thread # list[i].thread
               => CountIn(Updated(list, i, node), list[i].thread) = 0
<1> DEFINE new == Updated(list, i, node)
<1>1. /\ new \in Seq(ReaderInfo)
      /\ Len(new) = Len(list)
      /\ \A j \in 1 .. Len(list) : new[j] = IF j = i THEN node ELSE list[j]
  BY ExceptSeq DEF List, Updated
<1>2. /\ DOMAIN list = 1 .. Len(list) /\ DOMAIN new = 1 .. Len(new)
      /\ Len(list) \in Nat
      /\ \A j \in 1 .. Len(list) : list[j] \in ReaderInfo
  BY <1>1, LenProperties, ElementOfSeq DEF List
<1> HIDE DEF new
<1>3. List(new)
  <2>1. new # <<>>
    BY <1>1, <1>2
  <2>2. WellFormed(new)
    BY <1>1, <1>2 DEF WellFormed, List
  <2> QED
    BY <1>1, <2>1, <2>2 DEF List
<1>4. CountIn(new, node.thread) = node.count
  BY <1>1, <1>3, CountOfNode
<1>5. ASSUME NEW u \in Threads, u # node.thread, u # list[i].thread
      PROVE  CountIn(new, u) = CountIn(list, u)
  <2>1. CASE \E j \in 1 .. Len(list) : list[j].thread = u
    BY <2>1, <1>1, <1>3, <1>5, CountOfNode
  <2>2. CASE \A j \in 1 .. Len(list) : list[j].thread # u
    BY <2>2, <1>1, <1>3, <1>5, CountOfNode
  <2> QED
    BY <2>1, <2>2
<1>6. ASSUME node.thread # list[i].thread
      PROVE  CountIn(new, list[i].thread) = 0
  <2>1. \A j \in 1 .. Len(new) : new[j].thread # list[i].thread
    BY <1>1, <1>2, <1>6 DEF List, WellFormed
  <2>2. list[i].thread \in Threads
    BY <1>2 DEF ReaderInfo
  <2> QED
    BY <2>1, <2>2, <1>3, CountOfNode
<1> QED
  BY <1>3, <1>4, <1>5, <1>6 DEF new

(* AddReader gives thread t one read lock more and nobody else any; it     *)
(* leaves no empty head.                                                   *)
LEMMA AddReaderEffect ==
  ASSUME NEW list, List(list), NEW t \in Threads
  PROVE  /\ List(AddReader(list, t))
         /\ CountIn(AddReader(list, t), t) = CountIn(list, t) + 1
         /\ \A u \in Threads \ {t} : CountIn(AddReader(list, t), u) = CountIn(list, u)
<1>0. /\ DOMAIN list = 1 .. Len(list) /\ Len(list) \in Nat /\ Len(list) >= 1
      /\ \A j \in 1 .. Len(list) : list[j] \in ReaderInfo
      /\ list \in Seq(ReaderInfo)
  BY LenProperties, ElementOfSeq, EmptySeq DEF List
<1>1. CASE list[1].count = 0
  <2> DEFINE node == [thread |-> t, count |-> 1]
  <2>1. AddReader(list, t) = Updated(list, 1, node)
    BY <1>1 DEF AddReader, Updated
  <2>2. node \in ReaderInfo /\ node.thread = t /\ node.count = 1
    BY DEF ReaderInfo
  <2>3. Len(list) = 1
    BY <1>0, <1>1 DEF List, WellFormed
  <2>4. CountIn(list, t) = 0 /\ \A u \in Threads : CountIn(list, u) = 0
    BY <2>3, <1>0, <1>1, CountOfNode
  <2> HIDE DEF node
  <2>5. 1 \in 1 .. Len(list) /\ \A j \in 1 .. Len(list) : j = 1
    BY <2>3
  <2>6. /\ List(Updated(list, 1, node))
        /\ CountIn(Updated(list, 1, node), t) = 1
        /\ \A u \in Threads : u # t /\ u # list[1].thread
              => CountIn(Updated(list, 1, node), u) = CountIn(list, u)
        /\ t # list[1].thread
              => CountIn(Updated(list, 1, node), list[1].thread) = 0
    BY <2>2, <2>5, CountAfterUpdate
  <2> QED
    BY <2>1, <2>4, <2>6
<1>2. CASE list[1].count # 0 /\ NodesOf(list, t) # {}
  <2> DEFINE i == CHOOSE k \in NodesOf(list, t) : TRUE
             node == [list[i] EXCEPT !.count = @ + 1]
  <2>1. i \in 1 .. Len(list) /\ list[i].thread = t
    BY <1>2, <1>0 DEF NodesOf
  <2>2. AddReader(list, t) = Updated(list, i, node)
    BY <1>2 DEF AddReader, Updated
  <2> HIDE DEF i
  <2>3. node \in ReaderInfo /\ node.thread = t /\ node.count = list[i].count + 1
    BY <2>1, <1>0 DEF ReaderInfo
  <2>4. list[i].count = CountIn(list, t) /\ list[i].count \in Nat
    BY <2>1, <1>0, CountOfNode DEF ReaderInfo
  <2>5. \A j \in 1 .. Len(list) : j # i => list[j].thread # t
    BY <2>1, <1>0 DEF List, WellFormed
  <2> HIDE DEF node
  <2>6. /\ List(Updated(list, i, node))
        /\ CountIn(Updated(list, i, node), t) = node.count
        /\ \A u \in Threads : u # t
              => CountIn(Updated(list, i, node), u) = CountIn(list, u)
    BY <2>1, <2>3, <2>4, <2>5, CountAfterUpdate
  <2> QED
    BY <2>2, <2>3, <2>4, <2>6
<1>3. CASE list[1].count # 0 /\ NodesOf(list, t) = {}
  <2> DEFINE node == [thread |-> t, count |-> 1]
             new  == Append(list, node)
  <2>1. AddReader(list, t) = new
    BY <1>3 DEF AddReader
  <2>2. node \in ReaderInfo /\ node.thread = t /\ node.count = 1
    BY DEF ReaderInfo
  <2> HIDE DEF node
  <2>3. /\ new \in Seq(ReaderInfo)
        /\ Len(new) = Len(list) + 1
        /\ \A j \in 1 .. Len(list) : new[j] = list[j]
        /\ new[Len(list) + 1] = node
        /\ DOMAIN new = 1 .. Len(new)
        /\ new # <<>>
    BY <2>2, <1>0, AppendProperties, LenProperties
  <2> HIDE DEF new
  <2>4. \A j \in 1 .. Len(list) : list[j].thread # t /\ list[j].count # 0
    BY <1>3, <1>0 DEF NodesOf, List, WellFormed
  <2>5. List(new)
    <3>1. \A j \in 1 .. Len(new) :
             IF j = Len(list) + 1 THEN new[j] = node
                                  ELSE j \in 1 .. Len(list) /\ new[j] = list[j]
      BY <2>3, <1>0
    <3>2. \A j, k \in DOMAIN new : new[j].thread = new[k].thread => j = k
      BY <3>1, <2>2, <2>3, <2>4, <1>0 DEF List, WellFormed
    <3>3. \A j \in DOMAIN new : new[j].count # 0
      BY <3>1, <2>2, <2>3, <2>4
    <3> QED
      BY <2>3, <3>2, <3>3 DEF List, WellFormed
  <2>6. CountIn(new, t) = 1 /\ CountIn(list, t) = 0
    BY <2>2, <2>3, <2>4, <2>5, <1>0, CountOfNode
  <2>7. ASSUME NEW u \in Threads \ {t}
        PROVE  CountIn(new, u) = CountIn(list, u)
    <3>1. CASE \E j \in 1 .. Len(list) : list[j].thread = u
      BY <3>1, <2>3, <2>5, <1>0, CountOfNode
    <3>2. CASE \A j \in 1 .. Len(list) : list[j].thread # u
      <4>1. \A j \in 1 .. Len(new) : new[j].thread # u
        BY <3>2, <2>2, <2>3, <2>7, <1>0
      <4> QED
        BY <4>1, <3>2, <2>5, CountOfNode
    <3> QED
      BY <3>1, <3>2
  <2> QED
    BY <2>1, <2>5, <2>6, <2>7
<1> QED
  BY <1>1, <1>2, <1>3

(* Unlinking the node with the last read lock of a thread takes that lock  *)
(* away and leaves everybody else's.                                       *)
LEMMA DropNodeEffect ==
  ASSUME NEW list, List(list), NEW i \in 1 .. Len(list), list[i].count = 1
  PROVE  /\ List(DropNode(list, i))
         /\ CountIn(DropNode(list, i), list[i].thread) = 0
         /\ \A u \in Threads \ {list[i].thread} :
               CountIn(DropNode(list, i), u) = CountIn(list, u)
<1>0. /\ DOMAIN list = 1 .. Len(list) /\ Len(list) \in Nat /\ Len(list) >= 1
      /\ \A j \in 1 .. Len(list) : list[j] \in ReaderInfo
      /\ list \in Seq(ReaderInfo)
  BY LenProperties, ElementOfSeq, EmptySeq DEF List
<1>00. list[i].thread \in Threads
  BY <1>0 DEF ReaderInfo
<1>1. CASE Len(list) = 1
  <2> DEFINE node == [thread |-> list[1].thread, count |-> 0]
  <2>1. i = 1 /\ \A j \in 1 .. Len(list) : j = 1
    BY <1>1
  <2>2. list[1] = [thread |-> list[1].thread, count |-> list[1].count]
    BY <1>0 DEF ReaderInfo
  <2>3. [list[1] EXCEPT !.count = 0] = node
    BY <2>2
  <2>4. DropNode(list, i) = Updated(list, 1, node)
    BY <1>1, <2>3 DEF DropNode, Updated
  <2>5. node \in ReaderInfo /\ node.thread = list[1].thread /\ node.count = 0
    BY <1>00, <2>1 DEF ReaderInfo
  <2> HIDE DEF node
  <2>6. /\ List(Updated(list, 1, node))
        /\ CountIn(Updated(list, 1, node), list[1].thread) = 0
        /\ \A u \in Threads : u # list[1].thread
              => CountIn(Updated(list, 1, node), u) = CountIn(list, u)
    BY <1>1, <2>1, <2>5, CountAfterUpdate
  <2> QED
    BY <2>1, <2>4, <2>6
<1>2. CASE Len(list) # 1
  <2> DEFINE new == RemoveAt(list, i)
  <2>1. DropNode(list, i) = new
    BY <1>2 DEF DropNode
  <2>2. /\ new \in Seq(ReaderInfo)
        /\ Len(new) = Len(list) - 1
        /\ DOMAIN new = 1 .. Len(list) - 1
        /\ \A j \in 1 .. Len(list) - 1 :
              new[j] = IF j < i THEN list[j] ELSE list[j + 1]
    BY <1>0, RemoveAtProperties, LenProperties
  <2> HIDE DEF new
  <2>3. new # <<>>
    BY <1>0, <1>2, <2>2
  <2>4. \A j \in 1 .. Len(list) : list[j].count # 0
    BY <1>0, <1>2 DEF List, WellFormed
  <2>5. \A j, k \in 1 .. Len(list) : list[j].thread = list[k].thread => j = k
    BY <1>0 DEF List, WellFormed
  <2>6. List(new)
    <3>1. \A j, k \in DOMAIN new : new[j].thread = new[k].thread => j = k
      BY <2>2, <2>5, <1>0
    <3>2. \A j \in DOMAIN new : new[j].count # 0
      BY <2>2, <2>4, <1>0
    <3> QED
      BY <2>2, <2>3, <3>1, <3>2 DEF List, WellFormed
  <2>7. CountIn(new, list[i].thread) = 0
    <3>1. \A j \in 1 .. Len(new) : new[j].thread # list[i].thread
      BY <2>2, <2>5, <1>0
    <3> QED
      BY <3>1, <2>6, <1>00, CountOfNode
  <2>8. ASSUME NEW u \in Threads, u # list[i].thread
        PROVE  CountIn(new, u) = CountIn(list, u)
    <3>1. CASE \E j \in 1 .. Len(list) : list[j].thread = u
      <4>1. PICK j \in 1 .. Len(list) : list[j].thread = u
        BY <3>1
      <4>2. \E k \in 1 .. Len(new) : new[k] = list[j]
        <5>1. CASE j < i
          <6>1. j \in 1 .. Len(new) /\ new[j] = list[j]
            BY <5>1, <2>2, <1>0
          <6> QED
            BY <6>1
        <5>2. CASE j > i
          <6>1. j - 1 \in 1 .. Len(new) /\ new[j - 1] = list[j]
            BY <5>2, <2>2, <1>0
          <6> QED
            BY <6>1
        <5> QED
          BY <4>1, <5>1, <5>2, <2>8, <1>0
      <4> QED
        BY <4>1, <4>2, <2>6, CountOfNode
    <3>2. CASE \A j \in 1 .. Len(list) : list[j].thread # u
      <4>1. \A j \in 1 .. Len(new) : new[j].thread # u
        BY <3>2, <2>2, <1>0
      <4> QED
        BY <4>1, <3>2, <2>6, CountOfNode
    <3> QED
      BY <3>1, <3>2
  <2> QED
    BY <2>1, <2>6, <2>7, <2>8
<1> QED
  BY <1>1, <1>2

(* One read lock less where there are more.                                *)
LEMMA DecrementEffect ==
  ASSUME NEW list, List(list), NEW i \in 1 .. Len(list), list[i].count > 1
  PROVE  LET new == [list EXCEPT ![i].count = @ - 1]
         IN  /\ List(new)
             /\ CountIn(new, list[i].thread) = CountIn(list, list[i].thread) - 1
             /\ \A u \in Threads \ {list[i].thread} : CountIn(new, u) = CountIn(list, u)
<1> DEFINE node == [thread |-> list[i].thread, count |-> list[i].count - 1]
<1>1. /\ DOMAIN list = 1 .. Len(list)
      /\ list[i] \in ReaderInfo
  BY LenProperties, ElementOfSeq DEF List
<1>2. list[i] = [thread |-> list[i].thread, count |-> list[i].count]
  BY <1>1 DEF ReaderInfo
<1>3. [list EXCEPT ![i].count = @ - 1] = Updated(list, i, node)
  <2>1. [list[i] EXCEPT !.count = @ - 1] = node
    BY <1>2
  <2> QED
    BY <2>1 DEF Updated
<1>4. /\ node \in ReaderInfo /\ node.thread = list[i].thread
      /\ node.count = list[i].count - 1 /\ node.count # 0
  BY <1>1 DEF ReaderInfo
<1>5. CountIn(list, list[i].thread) = list[i].count
  BY CountOfNode
<1>6. \A j \in 1 .. Len(list) : j # i => list[j].thread # list[i].thread
  BY <1>1 DEF List, WellFormed
<1> HIDE DEF node
<1>7. /\ List(Updated(list, i, node))
      /\ CountIn(Updated(list, i, node), list[i].thread) = node.count
      /\ \A u \in Threads : u # list[i].thread
            => CountIn(Updated(list, i, node), u) = CountIn(list, u)
  BY <1>4, <1>6, CountAfterUpdate
<1> QED
  BY <1>3, <1>4, <1>5, <1>7

(* What StatusUnstable looks at, said in terms of read counts.             *)
LEMMA OthersReadMeaning ==
  ASSUME NEW list, List(list), NEW t \in Threads
  PROVE  /\ \A u \in Threads : CountIn(list, u) \in Nat
         /\ OthersRead(list, t) <=> \E u \in Threads \ {t} : CountIn(list, u) > 0
<1>0. /\ DOMAIN list = 1 .. Len(list) /\ Len(list) \in Nat /\ Len(list) >= 1
      /\ \A j \in 1 .. Len(list) : list[j] \in ReaderInfo
  BY LenProperties, ElementOfSeq, EmptySeq DEF List
<1>1. \A j \in 1 .. Len(list) : /\ list[j].thread \in Threads
                                /\ list[j].count \in Nat
                                /\ CountIn(list, list[j].thread) = list[j].count
  BY <1>0, CountOfNode DEF ReaderInfo
<1>2. \A u \in Threads : \/ CountIn(list, u) = 0
                         \/ \E j \in 1 .. Len(list) : list[j].thread = u
  BY CountOfNode
<1>3. \A u \in Threads : CountIn(list, u) \in Nat
  BY <1>1, <1>2
<1>4. ASSUME Len(list) > 1 PROVE \E u \in Threads \ {t} : CountIn(list, u) > 0
  <2>1. list[1].thread # list[2].thread /\ list[1].count # 0 /\ list[2].count # 0
    BY <1>0, <1>4 DEF List, WellFormed
  <2> QED
    BY <2>1, <1>0, <1>1, <1>4
<1>5. ASSUME list[1].count # 0, list[1].thread # t
      PROVE  \E u \in Threads \ {t} : CountIn(list, u) > 0
  BY <1>0, <1>1, <1>5
<1>6. ASSUME NEW u \in Threads \ {t}, CountIn(list, u) > 0
      PROVE  OthersRead(list, t)
  <2>1. PICK j \in 1 .. Len(list) : list[j].thread = u
    BY <1>2, <1>6
  <2> QED
    BY <2>1, <1>0, <1>1, <1>6 DEF OthersRead
<1> QED
  BY <1>3, <1>4, <1>5, <1>6 DEF OthersRead

-----------------------------------------------------------------------------
(* The inductive invariant.  Each part needs the others: Exclusion that    *)
(* the list counts right, NoLostWakeup that a decrement cannot make room   *)
(* unless a count reaches 0.                                               *)
Inv == /\ TypeOK
       /\ ListWellFormed
       /\ Exclusion
       /\ NoLostWakeup

(* What the types and the form of the list say of counts and of who waits. *)
LEMMA InvFacts ==
  ASSUME TypeOK, ListWellFormed
  PROVE  /\ List(readerinfo)
         /\ \A u \in Threads : ReadCount(u) \in Nat /\ WriteCount(u) \in Nat
         /\ \A t \in Threads : MustWaitUnstable(t) <=>
               \/ \E u \in Threads \ {t} : ReadCount(u) > 0
               \/ writercount # 0 /\ writer # t
<1>1. List(readerinfo)
  BY DEF TypeOK, ListWellFormed, List
<1> QED
  BY <1>1, OthersReadMeaning DEF MustWaitUnstable, ReadCount, WriteCount, TypeOK

(* A new object satisfies the invariant.                                   *)
LEMMA InitInv == Init => Inv
<1> SUFFICES ASSUME Init PROVE Inv
  OBVIOUS
<1>1. PICK t \in Threads : readerinfo = <<[thread |-> t, count |-> 0]>>
  BY DEF Init
<1>2. /\ readerinfo \in Seq(ReaderInfo) /\ readerinfo # <<>>
      /\ Len(readerinfo) = 1 /\ DOMAIN readerinfo = {1}
  BY <1>1 DEF ReaderInfo
<1>3. TypeOK
  BY <1>2 DEF TypeOK, Init, PC
<1>4. ListWellFormed
  BY <1>2 DEF ListWellFormed, WellFormed
<1>5. Exclusion /\ NoLostWakeup
  BY DEF Init, Exclusion, NoLostWakeup
<1> QED
  BY <1>3, <1>4, <1>5 DEF Inv

(* A broadcast leaves nobody asleep.                                       *)
LEMMA WakeAllEffect ==
  ASSUME pc \in [Threads -> PC], NEW t \in Threads, WakeAll(t)
  PROVE  /\ pc' \in [Threads -> PC]
         /\ \A u \in Threads : pc'[u] \notin {"lockAsleep", "unstableAsleep"}
  BY DEF WakeAll, PC

(* UnlockStatus in terms of read counts.                                   *)
LEMMA UnlockStatusEffect ==
  ASSUME Inv, NEW t \in Threads, UnlockStatus(t)
  PROVE  /\ List(readerinfo')
         /\ ReadCount(t)' = ReadCount(t) - 1
         /\ \A u \in Threads \ {t} : ReadCount(u)' = ReadCount(u)
         /\ \/ ReadCount(t) > 1 /\ UNCHANGED pc
            \/ ReadCount(t) = 1 /\ WakeAll(t)
<1>1. List(readerinfo)
  BY InvFacts DEF Inv
<1>2. PICK i \in NodesOf(readerinfo, t) :
         \/ /\ readerinfo[i].count > 1
            /\ readerinfo' = [readerinfo EXCEPT ![i].count = @ - 1]
            /\ UNCHANGED pc
         \/ /\ readerinfo[i].count = 1
            /\ readerinfo' = DropNode(readerinfo, i)
            /\ WakeAll(t)
  BY DEF UnlockStatus
<1>3. i \in 1 .. Len(readerinfo) /\ readerinfo[i].thread = t
  BY <1>1, <1>2, LenProperties DEF NodesOf, List
<1>4. ReadCount(t) = readerinfo[i].count
  BY <1>1, <1>3, CountOfNode DEF ReadCount
<1>5. CASE /\ readerinfo[i].count > 1
           /\ readerinfo' = [readerinfo EXCEPT ![i].count = @ - 1]
           /\ UNCHANGED pc
  BY <1>1, <1>3, <1>4, <1>5, DecrementEffect DEF ReadCount
<1>6. CASE /\ readerinfo[i].count = 1
           /\ readerinfo' = DropNode(readerinfo, i)
           /\ WakeAll(t)
  BY <1>1, <1>3, <1>4, <1>6, DropNodeEffect DEF ReadCount
<1> QED
  BY <1>2, <1>5, <1>6

(* Every step keeps the invariant.                                         *)
LEMMA StepInv == Inv /\ [Next]_vars => Inv'
<1> SUFFICES ASSUME Inv, [Next]_vars PROVE Inv'
  OBVIOUS
<1> USE DEF Inv
<1>0. /\ List(readerinfo)
      /\ \A u \in Threads : ReadCount(u) \in Nat /\ WriteCount(u) \in Nat
      /\ \A u \in Threads : MustWaitUnstable(u) <=>
               \/ \E v \in Threads \ {u} : ReadCount(v) > 0
               \/ writercount # 0 /\ writer # u
  BY InvFacts
<1>00. writercount \in Nat /\ writer \in Threads /\ pc \in [Threads -> PC]
  BY DEF TypeOK
<1>1. ASSUME NEW t \in Threads, CallLock(t) \/ CallUnstable(t)
      PROVE  Inv'
  <2>1. /\ readerinfo' = readerinfo /\ writercount' = writercount /\ writer' = writer
        /\ \E new \in {"lock", "unstable"} : pc' = [pc EXCEPT ![t] = new]
    BY <1>1 DEF CallLock, CallUnstable
  <2>2. TypeOK'
    BY <2>1 DEF TypeOK, PC
  <2>3. ListWellFormed' /\ Exclusion'
    BY <2>1 DEF ListWellFormed, WellFormed, Exclusion, ReadCount, CountIn, NodesOf
  <2>4. NoLostWakeup'
    <3>1. \A u \in Threads : MustWaitUnstable(u)' = MustWaitUnstable(u)
      BY <2>1 DEF MustWaitUnstable, OthersRead
    <3>2. MustWaitLock' = MustWaitLock
      BY <2>1 DEF MustWaitLock
    <3> QED
      BY <2>1, <3>1, <3>2, <1>00 DEF NoLostWakeup
  <2> QED
    BY <2>2, <2>3, <2>4
<1>2. ASSUME NEW t \in Threads, LockStatus(t)
      PROVE  Inv'
  <2>1. CASE MustWaitLock
    <3>1. /\ UNCHANGED <<readerinfo, writercount, writer>>
          /\ pc' = [pc EXCEPT ![t] = "lockAsleep"]
      BY <1>2, <2>1 DEF LockStatus
    <3>2. TypeOK'
      BY <3>1 DEF TypeOK, PC
    <3>3. ListWellFormed' /\ Exclusion'
      BY <3>1 DEF ListWellFormed, WellFormed, Exclusion, ReadCount, CountIn, NodesOf
    <3>4. NoLostWakeup'
      BY <2>1, <3>1, <1>00
         DEF NoLostWakeup, MustWaitLock, MustWaitUnstable, OthersRead
    <3> QED
      BY <3>2, <3>3, <3>4
  <2>2. CASE ~MustWaitLock
    <3>1. /\ readerinfo' = AddReader(readerinfo, t)
          /\ UNCHANGED <<writercount, writer>>
          /\ writercount = 0
          /\ pc' = [pc EXCEPT ![t] = "out"]
      BY <1>2, <2>2 DEF LockStatus, MustWaitLock
    <3>2. /\ List(readerinfo')
          /\ ReadCount(t)' = ReadCount(t) + 1
          /\ \A u \in Threads \ {t} : ReadCount(u)' = ReadCount(u)
      BY <3>1, <1>0, AddReaderEffect DEF ReadCount
    <3>3. TypeOK' /\ ListWellFormed'
      BY <3>1, <3>2 DEF TypeOK, PC, List, ListWellFormed
    <3>4. Exclusion'
      BY <3>1 DEF Exclusion
    <3>5. NoLostWakeup'
      <4>1. \A u \in Threads : pc[u] # "lockAsleep"
        BY <3>1 DEF NoLostWakeup, MustWaitLock
      <4>2. \A u \in Threads : MustWaitUnstable(u) => MustWaitUnstable(u)'
        <5>1. \A u \in Threads : ReadCount(u) > 0 => ReadCount(u)' > 0
          BY <3>2, <1>0
        <5>2. \A u \in Threads : MustWaitUnstable(u)' <=>
                 \/ \E v \in Threads \ {u} : ReadCount(v)' > 0
                 \/ writercount' # 0 /\ writer' # u
          BY <3>2, OthersReadMeaning DEF MustWaitUnstable, ReadCount
        <5> QED
          BY <5>1, <5>2, <3>1, <1>0
      <4>3. \A u \in Threads : /\ pc'[u] # "lockAsleep"
                               /\ pc'[u] = "unstableAsleep" => pc[u] = "unstableAsleep"
        BY <3>1, <4>1, <1>00
      <4> QED
        BY <4>2, <4>3 DEF NoLostWakeup
    <3> QED
      BY <3>3, <3>4, <3>5
  <2> QED
    BY <2>1, <2>2
<1>3. ASSUME NEW t \in Threads, UnlockStatus(t)
      PROVE  Inv'
  <2>1. /\ List(readerinfo')
        /\ ReadCount(t)' = ReadCount(t) - 1
        /\ \A u \in Threads \ {t} : ReadCount(u)' = ReadCount(u)
        /\ \/ ReadCount(t) > 1 /\ UNCHANGED pc
           \/ ReadCount(t) = 1 /\ WakeAll(t)
    BY <1>3, UnlockStatusEffect
  <2>2. UNCHANGED <<writercount, writer>> /\ ReadCount(t) > 0
    BY <1>3 DEF UnlockStatus
  <2>3. TypeOK' /\ ListWellFormed'
    BY <2>1, <2>2, <1>00, WakeAllEffect DEF TypeOK, List, ListWellFormed
  <2>4. Exclusion'
    BY <2>1, <2>2, <1>0 DEF Exclusion
  <2>5. NoLostWakeup'
    <3>1. CASE ReadCount(t) > 1 /\ UNCHANGED pc
      <4>1. \A u \in Threads : ReadCount(u) > 0 <=> ReadCount(u)' > 0
        BY <3>1, <2>1, <1>0
      <4>2. \A u \in Threads : MustWaitUnstable(u)' <=>
               \/ \E v \in Threads \ {u} : ReadCount(v)' > 0
               \/ writercount' # 0 /\ writer' # u
        BY <2>1, OthersReadMeaning DEF MustWaitUnstable, ReadCount
      <4>3. \A u \in Threads : MustWaitUnstable(u) => MustWaitUnstable(u)'
        BY <4>1, <4>2, <2>2, <1>0
      <4> QED
        BY <3>1, <4>3, <2>2 DEF NoLostWakeup, MustWaitLock
    <3>2. CASE WakeAll(t)
      BY <3>2, <1>00, WakeAllEffect DEF NoLostWakeup
    <3> QED
      BY <2>1, <3>1, <3>2
  <2> QED
    BY <2>3, <2>4, <2>5
<1>4. ASSUME NEW t \in Threads, StatusUnstable(t)
      PROVE  Inv'
  <2>1. CASE MustWaitUnstable(t)
    <3>1. /\ UNCHANGED <<readerinfo, writercount, writer>>
          /\ pc' = [pc EXCEPT ![t] = "unstableAsleep"]
      BY <1>4, <2>1 DEF StatusUnstable
    <3>2. TypeOK'
      BY <3>1 DEF TypeOK, PC
    <3>3. ListWellFormed' /\ Exclusion'
      BY <3>1 DEF ListWellFormed, WellFormed, Exclusion, ReadCount, CountIn, NodesOf
    <3>4. NoLostWakeup'
      BY <2>1, <3>1, <1>00
         DEF NoLostWakeup, MustWaitLock, MustWaitUnstable, OthersRead
    <3> QED
      BY <3>2, <3>3, <3>4
  <2>2. CASE ~MustWaitUnstable(t)
    <3>1. /\ writercount' = writercount + 1
          /\ writer' = t
          /\ UNCHANGED readerinfo
          /\ pc' = [pc EXCEPT ![t] = "out"]
      BY <1>4, <2>2 DEF StatusUnstable
    <3>2. \A u \in Threads \ {t} : ReadCount(u) = 0
      BY <2>2, <1>0
    <3>3. writercount # 0 => writer = t
      BY <2>2 DEF MustWaitUnstable
    <3>4. TypeOK' /\ ListWellFormed'
      BY <3>1 DEF TypeOK, PC, ListWellFormed, WellFormed
    <3>5. Exclusion'
      BY <3>1, <3>2 DEF Exclusion, ReadCount, CountIn, NodesOf
    <3>6. NoLostWakeup'
      <4>1. \A u \in Threads \ {t} : MustWaitLock' /\ MustWaitUnstable(u)'
        BY <3>1, <1>00 DEF MustWaitLock, MustWaitUnstable
      <4> QED
        BY <3>1, <4>1, <1>00 DEF NoLostWakeup
    <3> QED
      BY <3>4, <3>5, <3>6
  <2> QED
    BY <2>1, <2>2
<1>5. ASSUME NEW t \in Threads, StatusStable(t)
      PROVE  Inv'
  <2>1. /\ writercount > 0 /\ writer = t
        /\ writercount' = writercount - 1
        /\ UNCHANGED <<readerinfo, writer>>
        /\ \/ writercount' = 0 /\ WakeAll(t)
           \/ writercount' > 0 /\ UNCHANGED pc
    BY <1>5, <1>00 DEF StatusStable, WriteCount
  <2>2. TypeOK'
    BY <2>1, <1>00, WakeAllEffect DEF TypeOK
  <2>3. ListWellFormed' /\ Exclusion'
    BY <2>1 DEF ListWellFormed, WellFormed, Exclusion, ReadCount, CountIn, NodesOf
  <2>4. NoLostWakeup'
    <3>1. CASE WakeAll(t)
      BY <3>1, <1>00, WakeAllEffect DEF NoLostWakeup
    <3>2. CASE writercount' > 0 /\ UNCHANGED pc
      BY <3>2, <2>1 DEF NoLostWakeup, MustWaitLock, MustWaitUnstable, OthersRead
    <3> QED
      BY <2>1, <3>1, <3>2
  <2> QED
    BY <2>2, <2>3, <2>4
<1>6. CASE UNCHANGED vars
  BY <1>6 DEF vars, TypeOK, ListWellFormed, WellFormed, Exclusion, NoLostWakeup,
              MustWaitLock, MustWaitUnstable, OthersRead, ReadCount, CountIn, NodesOf
<1> QED
  BY <1>1, <1>2, <1>3, <1>4, <1>5, <1>6 DEF Next, Call, Run, Release

-----------------------------------------------------------------------------
(* The theorems.                                                           *)

(* TypeOK, ListWellFormed, Exclusion and NoLostWakeup hold always.         *)
THEOREM Invariance == Spec => []Inv
<1>1. Init => Inv
  BY InitInv
<1>2. Inv /\ [Next]_vars => Inv'
  BY StepInv
<1> QED
  BY <1>1, <1>2, PTL DEF Spec

(* StatusLocks::StatusUnstable and LockStatus never leave two threads      *)
(* inside when one of them writes.                                         *)
THEOREM ExclusionHolds == Spec => []Exclusion
<1>1. Inv => Exclusion
  BY DEF Inv
<1> QED
  BY <1>1, Invariance, PTL

(* UnlockStatus and StatusStable broadcast whenever they must.             *)
THEOREM NoLostWakeupHolds == Spec => []NoLostWakeup
<1>1. Inv => NoLostWakeup
  BY DEF Inv
<1> QED
  BY <1>1, Invariance, PTL

(* Who waits for a read lock has no write lock: the discipline of the      *)
(* callers, carried from the call to the wait.                             *)
Discipline == \A t \in Threads :
                 pc[t] \in {"lock", "lockAsleep"} => WriteCount(t) = 0

(* Nested locks are granted at once, so that the recursive use by Game     *)
(* cannot block on itself.                                                 *)
THEOREM ReentryHolds == Spec => []ReentryNeverSleeps
<1>1. Init => Discipline
  BY DEF Init, Discipline
<1>2. Inv /\ Discipline /\ [Next]_vars => Discipline'
  <2> SUFFICES ASSUME Inv, Discipline, [Next]_vars, NEW u \in Threads,
                      pc'[u] \in {"lock", "lockAsleep"}
               PROVE  WriteCount(u)' = 0
    BY DEF Discipline
  <2>0. pc \in [Threads -> PC] /\ writercount \in Nat
    BY DEF Inv, TypeOK
  <2>1. ASSUME NEW t \in Threads, CallLock(t)
        PROVE  WriteCount(u)' = 0
    BY <2>0, <2>1 DEF CallLock, Discipline, WriteCount
  <2>2. ASSUME NEW t \in Threads, CallUnstable(t)
        PROVE  WriteCount(u)' = 0
    BY <2>0, <2>2 DEF CallUnstable, Discipline, WriteCount
  <2>3. ASSUME NEW t \in Threads, LockStatus(t)
        PROVE  WriteCount(u)' = 0
    BY <2>0, <2>3 DEF LockStatus, Discipline, WriteCount
  <2>4. ASSUME NEW t \in Threads, UnlockStatus(t)
        PROVE  WriteCount(u)' = 0
    <3>1. UNCHANGED <<writercount, writer>> /\ pc[t] = "out"
          /\ (UNCHANGED pc \/ WakeAll(t))
      BY <2>4, UnlockStatusEffect DEF UnlockStatus
    <3> QED
      BY <3>1, <2>0 DEF Discipline, WriteCount, WakeAll
  <2>5. ASSUME NEW t \in Threads, StatusUnstable(t)
        PROVE  WriteCount(u)' = 0
    <3>1. pc'[t] \notin {"lock", "lockAsleep"} /\ \A v \in Threads \ {t} : pc'[v] = pc[v]
      BY <2>0, <2>5 DEF StatusUnstable
    <3>2. u # t
      BY <3>1
    <3>3. CASE UNCHANGED <<writercount, writer>>
      BY <3>1, <3>2, <3>3 DEF Discipline, WriteCount
    <3>4. CASE writer' = t
      BY <3>2, <3>4 DEF WriteCount
    <3> QED
      BY <2>5, <3>3, <3>4 DEF StatusUnstable
  <2>6. ASSUME NEW t \in Threads, StatusStable(t)
        PROVE  WriteCount(u)' = 0
    <3>1. /\ writer' = writer /\ writer = t /\ writercount > 0 /\ pc[t] = "out"
          /\ (UNCHANGED pc \/ WakeAll(t))
      BY <2>0, <2>6 DEF StatusStable, WriteCount
    <3>2. u # t
      BY <3>1, <2>0 DEF WakeAll
    <3> QED
      BY <3>1, <3>2 DEF WriteCount
  <2>7. CASE UNCHANGED vars
    BY <2>7 DEF vars, Discipline, WriteCount
  <2> QED
    BY <2>1, <2>2, <2>3, <2>4, <2>5, <2>6, <2>7 DEF Next, Call, Run, Release
<1>3. Inv /\ Discipline => ReentryNeverSleeps
  <2> SUFFICES ASSUME Inv, Discipline, NEW t \in Threads
               PROVE  /\ ReadCount(t) > 0 => pc[t] # "lockAsleep"
                      /\ WriteCount(t) > 0 => pc[t] # "unstableAsleep"
    BY DEF ReentryNeverSleeps
  <2>0. /\ writercount \in Nat /\ writer \in Threads
        /\ \A u \in Threads : ReadCount(u) \in Nat
        /\ MustWaitUnstable(t) <=> \/ \E u \in Threads \ {t} : ReadCount(u) > 0
                                   \/ writercount # 0 /\ writer # t
    BY InvFacts DEF Inv, TypeOK
  <2>1. ASSUME ReadCount(t) > 0, pc[t] = "lockAsleep" PROVE FALSE
    <3>1. writercount # 0
      BY <2>1 DEF Inv, NoLostWakeup, MustWaitLock
    <3>2. writer = t
      BY <2>0, <2>1, <3>1 DEF Inv, Exclusion
    <3> QED
      BY <2>1, <3>1, <3>2 DEF Discipline, WriteCount
  <2>2. ASSUME WriteCount(t) > 0, pc[t] = "unstableAsleep" PROVE FALSE
    <3>1. writer = t /\ writercount > 0
      BY <2>0, <2>2 DEF WriteCount
    <3>2. \E u \in Threads \ {t} : ReadCount(u) > 0
      BY <2>0, <2>2, <3>1 DEF Inv, NoLostWakeup
    <3> QED
      BY <3>1, <3>2 DEF Inv, Exclusion
  <2> QED
    BY <2>1, <2>2
<1> QED
  BY <1>1, <1>2, <1>3, Invariance, PTL DEF Spec

-----------------------------------------------------------------------------
(* The refinement: every step is a step of the abstract lock or changes    *)
(* nothing it knows of.                                                    *)

(* A new object is a new abstract lock.                                    *)
LEMMA InitRefines == Init => RW!Init
<1> SUFFICES ASSUME Init PROVE RW!Init
  OBVIOUS
<1>1. Inv
  BY InitInv
<1>2. PICK t \in Threads : readerinfo = <<[thread |-> t, count |-> 0]>>
  BY DEF Init
<1>3. Len(readerinfo) = 1 /\ readerinfo[1].count = 0 /\ readerinfo[1].thread = t
  BY <1>2
<1>4. \A u \in Threads : ReadCount(u) = 0
  BY <1>1, <1>3, InvFacts, CountOfNode DEF Inv, ReadCount
<1>5. \A u \in Threads : WriteCount(u) = 0
  BY DEF Init, WriteCount
<1> QED
  BY <1>4, <1>5 DEF RW!Init

(* Each step is one of the abstract lock, or changes no count.             *)
LEMMA StepRefines == Inv /\ [Next]_vars => [RW!Next]_(RW!vars)
<1> SUFFICES ASSUME Inv, [Next]_vars PROVE [RW!Next]_(RW!vars)
  OBVIOUS
<1> DEFINE rd == [u \in Threads |-> ReadCount(u)]
           wr == [u \in Threads |-> WriteCount(u)]
<1>0. /\ List(readerinfo)
      /\ \A u \in Threads : ReadCount(u) \in Nat /\ WriteCount(u) \in Nat
      /\ \A u \in Threads : MustWaitUnstable(u) <=>
               \/ \E v \in Threads \ {u} : ReadCount(v) > 0
               \/ writercount # 0 /\ writer # u
      /\ writercount \in Nat /\ writer \in Threads
  BY InvFacts DEF Inv, TypeOK
<1>1. ASSUME UNCHANGED readerinfo PROVE rd' = rd
  BY <1>1 DEF ReadCount, CountIn, NodesOf
<1>2. ASSUME UNCHANGED <<writercount, writer>> PROVE wr' = wr
  BY <1>2 DEF WriteCount
<1>3. ASSUME UNCHANGED <<readerinfo, writercount, writer>>
      PROVE  [RW!Next]_(RW!vars)
  <2>1. rd' = rd /\ wr' = wr
    BY <1>1, <1>2, <1>3
  <2> QED
    BY <2>1 DEF RW!vars
<1>4. ASSUME NEW t \in Threads, LockStatus(t), ~MustWaitLock
      PROVE  [RW!Next]_(RW!vars)
  <2>1. /\ readerinfo' = AddReader(readerinfo, t)
        /\ UNCHANGED <<writercount, writer>>
        /\ writercount = 0
    BY <1>4 DEF LockStatus, MustWaitLock
  <2>2. rd' = [rd EXCEPT ![t] = @ + 1]
    BY <1>0, <2>1, AddReaderEffect DEF ReadCount
  <2>3. \A u \in Threads : wr[u] = 0
    BY <2>1 DEF WriteCount
  <2>4. wr' = wr
    BY <2>1, <1>2
  <2>5. RW!AcquireRead(t)
    BY <2>2, <2>3, <2>4 DEF RW!AcquireRead, RW!NobodyWrites
  <2> QED
    BY <2>5 DEF RW!Next
<1>5. ASSUME NEW t \in Threads, UnlockStatus(t)
      PROVE  [RW!Next]_(RW!vars)
  <2>1. /\ ReadCount(t)' = ReadCount(t) - 1
        /\ \A u \in Threads \ {t} : ReadCount(u)' = ReadCount(u)
    BY <1>5, UnlockStatusEffect
  <2>2. UNCHANGED <<writercount, writer>> /\ ReadCount(t) > 0
    BY <1>5 DEF UnlockStatus
  <2>3. rd' = [rd EXCEPT ![t] = @ - 1]
    BY <2>1
  <2>4. wr' = wr
    BY <2>2, <1>2
  <2>5. RW!ReleaseRead(t)
    BY <2>2, <2>3, <2>4 DEF RW!ReleaseRead
  <2> QED
    BY <2>5 DEF RW!Next
<1>6. ASSUME NEW t \in Threads, StatusUnstable(t), ~MustWaitUnstable(t)
      PROVE  [RW!Next]_(RW!vars)
  <2>1. UNCHANGED readerinfo /\ writercount' = writercount + 1 /\ writer' = t
    BY <1>6 DEF StatusUnstable
  <2>2. rd' = rd
    BY <2>1, <1>1
  <2>3. \A u \in Threads \ {t} : rd[u] = 0 /\ wr[u] = 0
    BY <1>0, <1>6 DEF WriteCount
  <2>4. wr[t] = writercount
    BY <1>0, <1>6 DEF WriteCount
  <2>5. wr' = [wr EXCEPT ![t] = @ + 1]
    BY <2>1, <2>3, <2>4 DEF WriteCount
  <2>6. RW!AcquireWrite(t)
    BY <2>2, <2>3, <2>5 DEF RW!AcquireWrite, RW!NobodyBut
  <2> QED
    BY <2>6 DEF RW!Next
<1>7. ASSUME NEW t \in Threads, StatusStable(t)
      PROVE  [RW!Next]_(RW!vars)
  <2>1. /\ writercount > 0 /\ writer = t /\ UNCHANGED <<readerinfo, writer>>
        /\ writercount' = writercount - 1
    BY <1>0, <1>7 DEF StatusStable, WriteCount
  <2>2. rd' = rd
    BY <2>1, <1>1
  <2>3. wr' = [wr EXCEPT ![t] = @ - 1] /\ wr[t] > 0
    BY <2>1 DEF WriteCount
  <2>4. RW!ReleaseWrite(t)
    BY <2>2, <2>3 DEF RW!ReleaseWrite
  <2> QED
    BY <2>4 DEF RW!Next
<1>8. ASSUME NEW t \in Threads, \/ CallLock(t)
                                \/ CallUnstable(t)
                                \/ LockStatus(t) /\ MustWaitLock
                                \/ StatusUnstable(t) /\ MustWaitUnstable(t)
      PROVE  [RW!Next]_(RW!vars)
  BY <1>3, <1>8 DEF CallLock, CallUnstable, LockStatus, StatusUnstable
<1>9. CASE UNCHANGED vars
  BY <1>3, <1>9 DEF vars
<1> QED
  BY <1>4, <1>5, <1>6, <1>7, <1>8, <1>9 DEF Next, Call, Run, Release

(* helpers/StatusLocks.cpp is a re-entrant reader/writer lock.             *)
THEOREM Refinement == Spec => ImplementsRWLock
<1>1. Init => RW!Init
  BY InitRefines
<1>2. Inv /\ [Next]_vars => [RW!Next]_(RW!vars)
  BY StepRefines
<1> QED
  BY <1>1, <1>2, Invariance, PTL DEF Spec, ImplementsRWLock, RW!Spec
=============================================================================
