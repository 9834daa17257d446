---------------------------- MODULE OutputProofs ----------------------------
(***************************************************************************)
(* Proofs about Output, for any admins, hosts and number of calls: who has *)
(* the mutex of OutprintControl, who waits for himself, and the order in   *)
(* which admins read what is put out.                                      *)
(***************************************************************************)
EXTENDS Output, SequenceTheorems, TLAPS

USE TerminalAssumption, NamesAssumption, MaxPutsAssumption

Frames == PutFrame \cup WriteFrame

IsPut(t, k)  == k \in DOMAIN stack[t] /\ stack[t][k].call = "put"

\* The call that has the mutex.
Inside(t, k) == IsPut(t, k) /\ stack[t][k].i > 0

(* The list is never empty, and nobody is in it twice.                     *)
ListWellFormed ==
    /\ ctrls # <<>>
    /\ \A i, j \in DOMAIN ctrls : ctrls[i] = ctrls[j] => i = j
    /\ \A i \in DOMAIN ctrls : object[ctrls[i]] # "none"

(* Whose mutex it is, is in Put, in one call only.                         *)
MutexInside ==
    /\ \A t \in Threads : mutex = t => \E k \in DOMAIN stack[t] : Inside(t, k)
    /\ \A t \in Threads : \A k \in DOMAIN stack[t] : Inside(t, k) =>
          /\ mutex = t
          /\ \A j \in DOMAIN stack[t] : Inside(t, j) => j = k

(* Only handlers run on top of something.                                  *)
HandlersOnTop ==
    \A t \in Threads : \A k \in DOMAIN stack[t] :
        k < Len(stack[t]) => IsPut(t, k) /\ stack[t][k].signal # "none"

(* Every call of Put has a number of its own.                              *)
IdsDiffer ==
    /\ \A t \in Threads : \A k \in DOMAIN stack[t] :
          IsPut(t, k) => stack[t][k].id <= puts
    /\ \A t, u \in Threads : \A k \in DOMAIN stack[t] : \A l \in DOMAIN stack[u] :
          /\ IsPut(t, k) /\ IsPut(u, l)
          /\ stack[t][k].id = stack[u][l].id
          => t = u /\ k = l

Stacks == MutexInside /\ HandlersOnTop /\ IdsDiffer

(* What has been written is written once, and what is being written is the *)
(* last of all who have it; they are behind in the list.                   *)
LogsWellFormed ==
    /\ \A a \in Admins : \A i \in DOMAIN log[a] : log[a][i] <= puts
    /\ \A a \in Admins : \A i, j \in DOMAIN log[a] : log[a][i] = log[a][j] => i = j
    /\ \A t \in Threads : \A k \in DOMAIN stack[t] :
          \A a \in Admins : \A i \in DOMAIN log[a] :
             IsPut(t, k) /\ log[a][i] = stack[t][k].id =>
                /\ i = Len(log[a])
                /\ \E j \in DOMAIN ctrls : j < stack[t][k].i /\ ctrls[j] = a

Inv == TypeOK /\ ListWellFormed /\ Stacks /\ LogsWellFormed /\ SameOrder

-----------------------------------------------------------------------------
(* What the three ways to change a stack do to it.                         *)

(* A call is on top, and what was there is one below.                      *)
LEMMA PushEffect ==
  ASSUME TypeOK, NEW t \in Threads, NEW f \in Frames, Push(t, f)
  PROVE  /\ stack' \in [Threads -> Seq(Frames)]
         /\ \A u \in Threads \ {t} : stack'[u] = stack[u]
         /\ Len(stack'[t]) = Len(stack[t]) + 1
         /\ DOMAIN stack'[t] = 1 .. Len(stack[t]) + 1
         /\ stack'[t][1] = f
         /\ \A k \in 2 .. Len(stack[t]) + 1 : stack'[t][k] = stack[t][k - 1]
<1>1. stack \in [Threads -> Seq(Frames)] /\ stack[t] \in Seq(Frames)
  BY DEF TypeOK, Frames
<1>2. <<f>> \in Seq(Frames) /\ Len(<<f>>) = 1 /\ <<f>>[1] = f
  OBVIOUS
<1> DEFINE s == <<f>> \o stack[t]
<1>3. /\ s \in Seq(Frames)
      /\ Len(s) = 1 + Len(stack[t])
      /\ \A i \in 1 .. 1 + Len(stack[t]) :
            s[i] = IF i <= 1 THEN <<f>>[i] ELSE stack[t][i - 1]
  BY <1>1, <1>2, ConcatProperties
<1>4. Len(stack[t]) \in Nat /\ DOMAIN s = 1 .. Len(s)
  BY <1>1, <1>3, LenProperties
<1> HIDE DEF s
<1>5. stack' = [stack EXCEPT ![t] = s]
  BY DEF Push, s
<1>6. stack'[t] = s /\ stack' \in [Threads -> Seq(Frames)]
      /\ \A u \in Threads \ {t} : stack'[u] = stack[u]
  BY <1>1, <1>3, <1>5
<1>7. s[1] = f
  BY <1>2, <1>3, <1>4
<1>8. \A k \in 2 .. Len(stack[t]) + 1 : s[k] = stack[t][k - 1]
  BY <1>3, <1>4
<1> QED
  BY <1>3, <1>4, <1>6, <1>7, <1>8

(* The call on top is gone.                                                *)
LEMMA PopEffect ==
  ASSUME TypeOK, NEW t \in Threads, stack[t] # <<>>, Pop(t)
  PROVE  /\ stack' \in [Threads -> Seq(Frames)]
         /\ \A u \in Threads \ {t} : stack'[u] = stack[u]
         /\ Len(stack'[t]) = Len(stack[t]) - 1
         /\ DOMAIN stack'[t] = 1 .. Len(stack[t]) - 1
         /\ \A k \in 1 .. Len(stack[t]) - 1 : stack'[t][k] = stack[t][k + 1]
<1>1. stack \in [Threads -> Seq(Frames)] /\ stack[t] \in Seq(Frames)
  BY DEF TypeOK, Frames
<1>2. /\ Tail(stack[t]) \in Seq(Frames)
      /\ Len(Tail(stack[t])) = Len(stack[t]) - 1
      /\ \A i \in 1 .. Len(Tail(stack[t])) : Tail(stack[t])[i] = stack[t][i + 1]
  BY <1>1, HeadTailProperties
<1>3. DOMAIN Tail(stack[t]) = 1 .. Len(stack[t]) - 1
  BY <1>2, LenProperties
<1> QED
  BY <1>1, <1>2, <1>3 DEF Pop

(* The call on top goes on to the next of the list.                        *)
LEMMA AdvanceEffect ==
  ASSUME TypeOK, NEW t \in Threads, In(t, "put"), Advance(t)
  PROVE  /\ stack' \in [Threads -> Seq(Frames)]
         /\ \A u \in Threads \ {t} : stack'[u] = stack[u]
         /\ Len(stack'[t]) = Len(stack[t])
         /\ DOMAIN stack'[t] = DOMAIN stack[t]
         /\ stack[t][1] \in PutFrame
         /\ stack'[t][1] = [stack[t][1] EXCEPT !.i = @ + 1]
         /\ \A k \in DOMAIN stack[t] \ {1} : stack'[t][k] = stack[t][k]
<1>1. stack \in [Threads -> Seq(Frames)] /\ stack[t] \in Seq(Frames)
  BY DEF TypeOK, Frames
<1>2. /\ stack[t] # <<>> /\ Len(stack[t]) \in Nat \ {0}
      /\ DOMAIN stack[t] = 1 .. Len(stack[t])
      /\ Head(stack[t]) = stack[t][1]
  BY <1>1, EmptySeq, LenProperties DEF In
<1>3. stack[t][1] \in Frames /\ stack[t][1].call = "put"
  BY <1>1, <1>2, ElementOfSeq DEF In
<1>4. stack[t][1] \in PutFrame
  BY <1>3 DEF Frames, WriteFrame
<1> DEFINE f == [stack[t][1] EXCEPT !.i = @ + 1]
           s == [stack[t] EXCEPT ![1] = f]
<1>5. f \in Frames
  BY <1>4 DEF Frames, PutFrame
<1> HIDE DEF f
<1>6. s \in Seq(Frames) /\ Len(s) = Len(stack[t])
      /\ \A j \in 1 .. Len(stack[t]) : s[j] = IF j = 1 THEN f ELSE stack[t][j]
  BY <1>1, <1>2, <1>5, ExceptSeq
<1>7. DOMAIN s = DOMAIN stack[t]
  BY <1>2, <1>6, LenProperties
<1>8. stack' = [stack EXCEPT ![t] = s]
  BY <1>1, <1>2, <1>4 DEF Advance, s, f, PutFrame
<1> HIDE DEF s
<1>9. stack'[t] = s /\ stack' \in [Threads -> Seq(Frames)]
      /\ \A u \in Threads \ {t} : stack'[u] = stack[u]
  BY <1>1, <1>6, <1>8
<1>10. s[1] = f /\ \A k \in DOMAIN stack[t] \ {1} : s[k] = stack[t][k]
  BY <1>2, <1>6
<1>11. stack'[t][1] = [stack[t][1] EXCEPT !.i = @ + 1]
  BY <1>9, <1>10 DEF f
<1> QED
  BY <1>4, <1>6, <1>7, <1>9, <1>10, <1>11

-----------------------------------------------------------------------------
(* The stacks.                                                             *)

(* Every call that there is has been there, or is new.                     *)
CallsFollow ==
    \A u \in Threads : \A k \in DOMAIN stack'[u] : IsPut(u, k)' =>
        \/ stack'[u][k].id = puts + 1
        \/ \E l \in DOMAIN stack[u] : /\ IsPut(u, l)
                                     /\ stack'[u][k].id = stack[u][l].id
                                     /\ stack'[u][k].i >= stack[u][l].i

(* What is known of a call.                                                *)
LEMMA CallType ==
  ASSUME TypeOK, NEW u \in Threads, NEW k \in DOMAIN stack[u], IsPut(u, k)
  PROVE  stack[u][k].id \in Nat /\ stack[u][k].i \in Nat
<1>1. stack[u][k] \in Frames
  BY LenProperties, ElementOfSeq DEF TypeOK, Frames
<1> QED
  BY <1>1 DEF Frames, PutFrame, WriteFrame, IsPut

(* A call begins: it is a handler, or its thread did nothing.              *)
LEMMA PushStacks ==
  ASSUME TypeOK, Stacks, NEW t \in Threads, NEW f \in Frames, Push(t, f),
         stack[t] = <<>> \/ (f.call = "put" /\ f.signal # "none"),
         f.call = "put" => f.i = 0 /\ f.id = puts + 1 /\ puts' = puts + 1,
         puts' \in Nat, puts' >= puts, mutex' = mutex
  PROVE  Stacks' /\ CallsFollow
<1>1. /\ \A u \in Threads : Len(stack[u]) \in Nat /\ DOMAIN stack[u] = 1 .. Len(stack[u])
      /\ stack[t] = <<>> => Len(stack[t]) = 0
      /\ puts \in Nat
  BY LenProperties DEF TypeOK
<1> DEFINE n == Len(stack[t])
<1>2. /\ \A u \in Threads \ {t} : stack'[u] = stack[u]
      /\ Len(stack'[t]) = n + 1
      /\ DOMAIN stack'[t] = 1 .. n + 1
      /\ stack'[t][1] = f
      /\ \A k \in 2 .. n + 1 : stack'[t][k] = stack[t][k - 1]
  BY PushEffect
<1>3. \A k \in 2 .. n + 1 : /\ k - 1 \in DOMAIN stack[t]
                            /\ IsPut(t, k)' <=> IsPut(t, k - 1)
                            /\ Inside(t, k)' <=> Inside(t, k - 1)
  BY <1>1, <1>2 DEF IsPut, Inside
<1>4. \A u \in Threads \ {t} : \A k : /\ IsPut(u, k)' <=> IsPut(u, k)
                                      /\ Inside(u, k)' <=> Inside(u, k)
  BY <1>2 DEF IsPut, Inside
<1>5. ~Inside(t, 1)'
  BY <1>2 DEF IsPut, Inside
<1>6. \A k \in DOMAIN stack'[t] : k = 1 \/ k \in 2 .. n + 1
  BY <1>1, <1>2
<1>7. MutexInside'
  <2>1. ASSUME NEW u \in Threads, mutex' = u
        PROVE  \E k \in DOMAIN stack'[u] : Inside(u, k)'
    <3>1. PICK k \in DOMAIN stack[u] : Inside(u, k)
      BY <2>1 DEF Stacks, MutexInside
    <3>2. CASE u = t
      <4>1. k + 1 \in 2 .. n + 1 /\ k + 1 - 1 = k /\ k + 1 \in DOMAIN stack'[t]
        BY <1>1, <1>2, <3>1, <3>2
      <4>2. Inside(t, k + 1)'
        BY <1>3, <3>1, <3>2, <4>1
      <4> QED
        BY <3>2, <4>1, <4>2
    <3>3. CASE u # t
      BY <1>2, <1>4, <3>1, <3>3
    <3> QED
      BY <3>2, <3>3
  <2>2. ASSUME NEW u \in Threads, NEW k \in DOMAIN stack'[u], Inside(u, k)'
        PROVE  /\ mutex' = u
               /\ \A j \in DOMAIN stack'[u] : Inside(u, j)' => j = k
    <3>1. CASE u = t
      <4>1. k \in 2 .. n + 1 /\ Inside(t, k - 1)
        BY <1>3, <1>5, <1>6, <2>2, <3>1
      <4>2. mutex = t /\ \A j \in DOMAIN stack[t] : Inside(t, j) => j = k - 1
        BY <1>3, <4>1 DEF Stacks, MutexInside
      <4>3. ASSUME NEW j \in DOMAIN stack'[u], Inside(u, j)' PROVE j = k
        <5>1. j \in 2 .. n + 1 /\ Inside(t, j - 1) /\ j - 1 \in DOMAIN stack[t]
          BY <1>3, <1>5, <1>6, <3>1, <4>3
        <5>2. j - 1 = k - 1
          BY <4>2, <5>1
        <5> QED
          BY <1>1, <4>1, <5>1, <5>2
      <4> QED
        BY <3>1, <4>2, <4>3
    <3>2. CASE u # t
      BY <1>2, <1>4, <2>2, <3>2 DEF Stacks, MutexInside
    <3> QED
      BY <3>1, <3>2
  <2> QED
    BY <2>1, <2>2 DEF MutexInside
<1>8. HandlersOnTop'
  <2> SUFFICES ASSUME NEW u \in Threads, NEW k \in DOMAIN stack'[u], k < Len(stack'[u])
               PROVE  IsPut(u, k)' /\ stack'[u][k].signal # "none"
    BY DEF HandlersOnTop
  <2>1. CASE u = t /\ k = 1
    BY <1>1, <1>2, <2>1 DEF IsPut
  <2>2. CASE u = t /\ k \in 2 .. n + 1
    <3>1. k - 1 < n /\ k - 1 \in DOMAIN stack[t]
      BY <1>1, <1>2, <1>3, <2>2
    <3>2. IsPut(t, k - 1) /\ stack[t][k - 1].signal # "none"
      BY <3>1 DEF Stacks, HandlersOnTop
    <3> QED
      BY <1>2, <1>3, <2>2, <3>2
  <2>3. CASE u # t
    BY <1>2, <1>4, <2>3 DEF Stacks, HandlersOnTop
  <2> QED
    BY <1>6, <2>1, <2>2, <2>3
<1>9. ASSUME NEW u \in Threads, NEW k \in DOMAIN stack'[u], IsPut(u, k)'
      PROVE  \/ u = t /\ k = 1 /\ stack'[u][k].id = puts + 1 /\ puts' = puts + 1
             \/ u = t /\ k \in 2 .. n + 1 /\ k - 1 \in DOMAIN stack[u] /\ IsPut(u, k - 1)
                      /\ stack'[u][k] = stack[u][k - 1]
             \/ u # t /\ k \in DOMAIN stack[u] /\ IsPut(u, k)
                      /\ stack'[u][k] = stack[u][k]
  BY <1>2, <1>3, <1>4, <1>6, <1>9 DEF IsPut
<1>10. \A u \in Threads : \A k \in DOMAIN stack[u] :
          IsPut(u, k) => stack[u][k].id <= puts /\ stack[u][k].id \in Nat
  BY CallType DEF Stacks, IdsDiffer
<1>11. IdsDiffer'
  <2>1. ASSUME NEW u \in Threads, NEW k \in DOMAIN stack'[u], IsPut(u, k)'
        PROVE  stack'[u][k].id <= puts'
    BY <1>1, <1>9, <1>10, <2>1
  <2>2. ASSUME NEW u \in Threads, NEW v \in Threads,
               NEW k \in DOMAIN stack'[u], NEW l \in DOMAIN stack'[v],
               IsPut(u, k)', IsPut(v, l)', stack'[u][k].id = stack'[v][l].id
        PROVE  u = v /\ k = l
    <3>1. \A w, x \in Threads : \A i \in DOMAIN stack[w] : \A j \in DOMAIN stack[x] :
             IsPut(w, i) /\ IsPut(x, j) /\ stack[w][i].id = stack[x][j].id => w = x /\ i = j
      BY DEF Stacks, IdsDiffer
    <3>2. CASE u = t /\ k = 1
      BY <1>1, <1>9, <1>10, <2>2, <3>2
    <3>3. CASE v = t /\ l = 1
      BY <1>1, <1>9, <1>10, <2>2, <3>3
    <3>4. CASE ~(u = t /\ k = 1) /\ ~(v = t /\ l = 1)
      <4>1. PICK a \in DOMAIN stack[u] : /\ IsPut(u, a) /\ stack'[u][k] = stack[u][a]
                                         /\ a = IF u = t THEN k - 1 ELSE k
        BY <1>9, <2>2, <3>4
      <4>2. PICK b \in DOMAIN stack[v] : /\ IsPut(v, b) /\ stack'[v][l] = stack[v][b]
                                         /\ b = IF v = t THEN l - 1 ELSE l
        BY <1>9, <2>2, <3>4
      <4>3. u = v /\ a = b
        BY <2>2, <3>1, <4>1, <4>2
      <4>4. k \in Int /\ l \in Int
        BY <1>1, <1>2
      <4> QED
        BY <4>1, <4>2, <4>3, <4>4
    <3> QED
      BY <3>2, <3>3, <3>4
  <2> QED
    BY <2>1, <2>2 DEF IdsDiffer
<1>12. CallsFollow
  <2> SUFFICES ASSUME NEW u \in Threads, NEW k \in DOMAIN stack'[u], IsPut(u, k)'
               PROVE  \/ stack'[u][k].id = puts + 1
                      \/ \E l \in DOMAIN stack[u] : /\ IsPut(u, l)
                                                   /\ stack'[u][k].id = stack[u][l].id
                                                   /\ stack'[u][k].i >= stack[u][l].i
    BY DEF CallsFollow
  <2>1. CASE k - 1 \in DOMAIN stack[u] /\ IsPut(u, k - 1) /\ stack'[u][k] = stack[u][k - 1]
    BY <2>1, CallType
  <2>2. CASE k \in DOMAIN stack[u] /\ IsPut(u, k) /\ stack'[u][k] = stack[u][k]
    BY <2>2, CallType
  <2> QED
    BY <1>9, <2>1, <2>2
<1> QED
  BY <1>7, <1>8, <1>11, <1>12 DEF Stacks

(* A call returns; if it is one of Put, with the mutex, it gives it back.  *)
LEMMA PopStacks ==
  ASSUME TypeOK, Stacks, NEW t \in Threads, stack[t] # <<>>, Pop(t),
         mutex' = (IF Inside(t, 1) THEN Nobody ELSE mutex), puts' = puts
  PROVE  Stacks' /\ CallsFollow
<1>1. /\ \A u \in Threads : Len(stack[u]) \in Nat /\ DOMAIN stack[u] = 1 .. Len(stack[u])
      /\ Len(stack[t]) # 0
      /\ puts \in Nat
      /\ Nobody \notin Threads
  BY LenProperties, EmptySeq DEF TypeOK, Threads, Main, Nobody
<1> DEFINE n == Len(stack[t])
<1>2. /\ \A u \in Threads \ {t} : stack'[u] = stack[u]
      /\ Len(stack'[t]) = n - 1
      /\ DOMAIN stack'[t] = 1 .. n - 1
      /\ \A k \in 1 .. n - 1 : stack'[t][k] = stack[t][k + 1]
  BY PopEffect
<1>3. \A k \in 1 .. n - 1 : /\ k + 1 \in DOMAIN stack[t]
                            /\ IsPut(t, k)' <=> IsPut(t, k + 1)
                            /\ Inside(t, k)' <=> Inside(t, k + 1)
  BY <1>1, <1>2 DEF IsPut, Inside
<1>4. \A u \in Threads \ {t} : \A k : /\ IsPut(u, k)' <=> IsPut(u, k)
                                      /\ Inside(u, k)' <=> Inside(u, k)
  BY <1>2 DEF IsPut, Inside
<1>5. 1 \in DOMAIN stack[t]
  BY <1>1
<1>6. ASSUME NEW u \in Threads, NEW k \in DOMAIN stack'[u]
      PROVE  \/ /\ u = t /\ k \in 1 .. n - 1 /\ k + 1 \in DOMAIN stack[u]
                /\ stack'[u][k] = stack[u][k + 1]
                /\ IsPut(u, k)' <=> IsPut(u, k + 1)
                /\ Inside(u, k)' <=> Inside(u, k + 1)
             \/ /\ u # t /\ k \in DOMAIN stack[u]
                /\ stack'[u][k] = stack[u][k]
                /\ IsPut(u, k)' <=> IsPut(u, k)
                /\ Inside(u, k)' <=> Inside(u, k)
  BY <1>2, <1>3, <1>4
<1>7. MutexInside'
  <2>1. ASSUME NEW u \in Threads, mutex' = u
        PROVE  \E k \in DOMAIN stack'[u] : Inside(u, k)'
    <3>1. ~Inside(t, 1) /\ mutex = u
      BY <1>1, <2>1
    <3>2. PICK k \in DOMAIN stack[u] : Inside(u, k)
      BY <3>1 DEF Stacks, MutexInside
    <3>3. CASE u = t
      <4>1. k - 1 \in 1 .. n - 1 /\ k - 1 + 1 = k /\ k - 1 \in DOMAIN stack'[t]
        BY <1>1, <1>2, <3>1, <3>2, <3>3
      <4>2. Inside(t, k - 1)'
        BY <1>3, <3>2, <3>3, <4>1
      <4> QED
        BY <3>3, <4>1, <4>2
    <3>4. CASE u # t
      BY <1>2, <1>4, <3>2, <3>4
    <3> QED
      BY <3>3, <3>4
  <2>2. ASSUME NEW u \in Threads, NEW k \in DOMAIN stack'[u], Inside(u, k)'
        PROVE  /\ mutex' = u
               /\ \A j \in DOMAIN stack'[u] : Inside(u, j)' => j = k
    <3>1. CASE u = t
      <4>1. k \in 1 .. n - 1 /\ Inside(t, k + 1) /\ k + 1 \in DOMAIN stack[t]
        BY <1>6, <2>2, <3>1
      <4>2. mutex = t /\ \A j \in DOMAIN stack[t] : Inside(t, j) => j = k + 1
        BY <4>1 DEF Stacks, MutexInside
      <4>3. ~Inside(t, 1)
        BY <1>5, <1>1, <4>1, <4>2
      <4>4. ASSUME NEW j \in DOMAIN stack'[u], Inside(u, j)' PROVE j = k
        <5>1. j \in 1 .. n - 1 /\ Inside(t, j + 1) /\ j + 1 \in DOMAIN stack[t]
          BY <1>6, <3>1, <4>4
        <5>2. j + 1 = k + 1
          BY <4>2, <5>1
        <5> QED
          BY <1>1, <4>1, <5>1, <5>2
      <4> QED
        BY <3>1, <4>2, <4>3, <4>4
    <3>2. CASE u # t
      <4>1. k \in DOMAIN stack[u] /\ Inside(u, k)
        BY <1>6, <2>2, <3>2
      <4>2. mutex = u /\ \A j \in DOMAIN stack[u] : Inside(u, j) => j = k
        BY <4>1 DEF Stacks, MutexInside
      <4>3. ~Inside(t, 1)
        BY <1>5, <3>2, <4>2 DEF Stacks, MutexInside
      <4> QED
        BY <1>2, <1>4, <3>2, <4>2, <4>3
    <3> QED
      BY <3>1, <3>2
  <2> QED
    BY <2>1, <2>2 DEF MutexInside
<1>8. HandlersOnTop'
  <2> SUFFICES ASSUME NEW u \in Threads, NEW k \in DOMAIN stack'[u], k < Len(stack'[u])
               PROVE  IsPut(u, k)' /\ stack'[u][k].signal # "none"
    BY DEF HandlersOnTop
  <2>1. CASE u = t
    <3>1. k + 1 < n /\ k + 1 \in DOMAIN stack[t] /\ k \in 1 .. n - 1
      BY <1>1, <1>2, <1>3, <2>1
    <3>2. IsPut(t, k + 1) /\ stack[t][k + 1].signal # "none"
      BY <1>1, <3>1 DEF Stacks, HandlersOnTop
    <3> QED
      BY <1>2, <1>3, <2>1, <3>1, <3>2
  <2>2. CASE u # t
    BY <1>2, <1>4, <2>2 DEF Stacks, HandlersOnTop
  <2> QED
    BY <2>1, <2>2
<1>9. \A w, x \in Threads : \A i \in DOMAIN stack[w] : \A j \in DOMAIN stack[x] :
         IsPut(w, i) /\ IsPut(x, j) /\ stack[w][i].id = stack[x][j].id => w = x /\ i = j
  BY DEF Stacks, IdsDiffer
<1>10. IdsDiffer'
  <2>1. ASSUME NEW u \in Threads, NEW k \in DOMAIN stack'[u], IsPut(u, k)'
        PROVE  stack'[u][k].id <= puts'
    BY <1>6, <2>1 DEF Stacks, IdsDiffer
  <2>2. ASSUME NEW u \in Threads, NEW v \in Threads,
               NEW k \in DOMAIN stack'[u], NEW l \in DOMAIN stack'[v],
               IsPut(u, k)', IsPut(v, l)', stack'[u][k].id = stack'[v][l].id
        PROVE  u = v /\ k = l
    <3>1. \/ u = t /\ v = t /\ k \in 1 .. n - 1 /\ l \in 1 .. n - 1 /\ k + 1 = l + 1
          \/ u # t /\ v # t /\ u = v /\ k = l
      BY <1>6, <1>9, <2>2
    <3> QED
      BY <1>1, <3>1
  <2> QED
    BY <2>1, <2>2 DEF IdsDiffer
<1>11. CallsFollow
  <2> SUFFICES ASSUME NEW u \in Threads, NEW k \in DOMAIN stack'[u], IsPut(u, k)'
               PROVE  \E l \in DOMAIN stack[u] : /\ IsPut(u, l)
                                                /\ stack'[u][k].id = stack[u][l].id
                                                /\ stack'[u][k].i >= stack[u][l].i
    BY DEF CallsFollow
  <2>1. PICK l \in DOMAIN stack[u] : IsPut(u, l) /\ stack'[u][k] = stack[u][l]
    BY <1>6
  <2>2. stack[u][l].i >= stack[u][l].i
    BY <2>1, CallType
  <2> QED
    BY <2>1, <2>2
<1> QED
  BY <1>7, <1>8, <1>10, <1>11 DEF Stacks

(* Put goes on; it begins when nobody has the mutex.                       *)
LEMMA AdvanceStacks ==
  ASSUME TypeOK, Stacks, NEW t \in Threads, In(t, "put"), Advance(t),
         IF Head(stack[t]).i = 0 THEN mutex = Nobody /\ mutex' = t ELSE mutex' = mutex,
         puts' = puts
  PROVE  Stacks' /\ CallsFollow
<1>1. /\ \A u \in Threads : Len(stack[u]) \in Nat /\ DOMAIN stack[u] = 1 .. Len(stack[u])
      /\ stack[t] # <<>> /\ Len(stack[t]) # 0
      /\ Head(stack[t]) = stack[t][1]
      /\ puts \in Nat
      /\ Nobody \notin Threads
  BY LenProperties, EmptySeq DEF TypeOK, Threads, Main, Nobody, In
<1>2. /\ \A u \in Threads \ {t} : stack'[u] = stack[u]
      /\ Len(stack'[t]) = Len(stack[t])
      /\ DOMAIN stack'[t] = DOMAIN stack[t]
      /\ stack[t][1] \in PutFrame
      /\ stack'[t][1] = [stack[t][1] EXCEPT !.i = @ + 1]
      /\ \A k \in DOMAIN stack[t] \ {1} : stack'[t][k] = stack[t][k]
  BY AdvanceEffect
<1>3. /\ 1 \in DOMAIN stack[t]
      /\ IsPut(t, 1) /\ IsPut(t, 1)' /\ Inside(t, 1)'
      /\ Inside(t, 1) <=> stack[t][1].i # 0
      /\ stack[t][1].i \in Nat
      /\ stack'[t][1].id = stack[t][1].id
      /\ stack'[t][1].signal = stack[t][1].signal
      /\ stack'[t][1].i = stack[t][1].i + 1
  BY <1>1, <1>2 DEF IsPut, Inside, PutFrame
<1>4. ASSUME NEW u \in Threads
      PROVE  /\ DOMAIN stack'[u] = DOMAIN stack[u]
             /\ Len(stack'[u]) = Len(stack[u])
             /\ \A k \in DOMAIN stack[u] :
                   /\ IsPut(u, k)' <=> IsPut(u, k)
                   /\ stack'[u][k].id = stack[u][k].id
                   /\ stack'[u][k].signal = stack[u][k].signal
                   /\ ~(u = t /\ k = 1) => /\ Inside(u, k)' <=> Inside(u, k)
                                           /\ stack'[u][k] = stack[u][k]
  <2>1. CASE u = t
    BY <1>2, <1>3, <2>1 DEF IsPut, Inside
  <2>2. CASE u # t
    BY <1>2, <2>2 DEF IsPut, Inside
  <2> QED
    BY <2>1, <2>2
<1>5. \A u \in Threads : \A k \in DOMAIN stack[u] :
         Inside(u, k) => mutex = u /\ \A j \in DOMAIN stack[u] : Inside(u, j) => j = k
  BY DEF Stacks, MutexInside
<1>6. mutex' = t
  BY <1>1, <1>3, <1>5
<1>7. \A u \in Threads : \A k \in DOMAIN stack[u] : Inside(u, k) => u = t /\ k = 1
  BY <1>1, <1>3, <1>5
<1>8. MutexInside'
  BY <1>3, <1>4, <1>6, <1>7 DEF MutexInside
<1>9. HandlersOnTop'
  BY <1>4 DEF Stacks, HandlersOnTop
<1>10. IdsDiffer'
  BY <1>4 DEF Stacks, IdsDiffer
<1>11. CallsFollow
  <2> SUFFICES ASSUME NEW u \in Threads, NEW k \in DOMAIN stack'[u], IsPut(u, k)'
               PROVE  /\ k \in DOMAIN stack[u]
                      /\ IsPut(u, k)
                      /\ stack'[u][k].id = stack[u][k].id
                      /\ stack'[u][k].i >= stack[u][k].i
    BY DEF CallsFollow
  <2> QED
    BY <1>3, <1>4, CallType
<1> QED
  BY <1>8, <1>9, <1>10, <1>11 DEF Stacks

-----------------------------------------------------------------------------
(* What has been written.                                                  *)

(* Nothing is written, and the list at most grows.                         *)
LEMMA LogsFollow ==
  ASSUME TypeOK, LogsWellFormed, SameOrder, log' = log, CallsFollow, puts' \in Nat,
         puts' >= puts, stack' \in [Threads -> Seq(Frames)],
         \A i \in DOMAIN ctrls : i \in DOMAIN ctrls' /\ ctrls'[i] = ctrls[i]
  PROVE  LogsWellFormed' /\ SameOrder'
<1>1. \A a \in Admins : \A i \in DOMAIN log[a] : log[a][i] \in Nat /\ log[a][i] <= puts
  BY LenProperties, ElementOfSeq DEF TypeOK, LogsWellFormed
<1>2. puts \in Nat
  BY DEF TypeOK
<1>3. ASSUME NEW u \in Threads, NEW k \in DOMAIN stack'[u], NEW a \in Admins,
             NEW i \in DOMAIN log[a], IsPut(u, k)', log[a][i] = stack'[u][k].id
      PROVE  /\ i = Len(log[a])
             /\ \E j \in DOMAIN ctrls' : j < stack'[u][k].i /\ ctrls'[j] = a
  <2>1. log[a][i] # puts + 1
    BY <1>1, <1>2
  <2>2. PICK l \in DOMAIN stack[u] : /\ IsPut(u, l)
                                     /\ stack'[u][k].id = stack[u][l].id
                                     /\ stack'[u][k].i >= stack[u][l].i
    BY <1>3, <2>1 DEF CallsFollow
  <2>3. PICK j \in DOMAIN ctrls : j < stack[u][l].i /\ ctrls[j] = a
    BY <1>3, <2>2 DEF LogsWellFormed
  <2>4. i = Len(log[a])
    BY <1>3, <2>2 DEF LogsWellFormed
  <2>5. j \in Nat /\ stack[u][l].i \in Nat
    <3>1. DOMAIN ctrls = 1 .. Len(ctrls) /\ Len(ctrls) \in Nat
      BY LenProperties DEF TypeOK
    <3> QED
      BY <2>2, <3>1, CallType
  <2>6. stack'[u][k].i \in Nat
    <3>1. stack'[u][k] \in Frames
      BY LenProperties, ElementOfSeq
    <3> QED
      BY <1>3, <3>1 DEF Frames, PutFrame, WriteFrame, IsPut
  <2>7. j < stack'[u][k].i
    BY <2>2, <2>3, <2>5, <2>6
  <2> QED
    BY <2>3, <2>4, <2>7
<1>4. LogsWellFormed'
  <2>1. \A a \in Admins : \A i \in DOMAIN log'[a] : log'[a][i] <= puts'
    BY <1>1, <1>2
  <2>2. \A a \in Admins : \A i, j \in DOMAIN log'[a] : log'[a][i] = log'[a][j] => i = j
    BY DEF LogsWellFormed
  <2> QED
    BY <1>3, <2>1, <2>2 DEF LogsWellFormed
<1>5. SameOrder'
  BY DEF SameOrder
<1> QED
  BY <1>4, <1>5

(* A message is written to the next of the list.                           *)
LEMMA LogsGrow ==
  ASSUME Inv, NEW t \in Threads, WriteOne(t), TypeOK'
  PROVE  LogsWellFormed' /\ SameOrder'
<1> DEFINE f == stack[t][1]
           c == f.id
           n == ctrls[f.i]
           m == Len(log[n]) + 1
<1>1. /\ stack[t] # <<>> /\ 1 \in DOMAIN stack[t] /\ Head(stack[t]) = f
      /\ IsPut(t, 1) /\ Inside(t, 1) /\ f.i \in DOMAIN ctrls
      /\ f.i \in Nat /\ c \in 1 .. MaxPuts /\ c <= puts
      /\ n \in Admins
      /\ DOMAIN ctrls = 1 .. Len(ctrls) /\ Len(ctrls) \in Nat
  <2>1. /\ stack[t] # <<>> /\ Len(stack[t]) # 0 /\ Len(stack[t]) \in Nat
        /\ DOMAIN stack[t] = 1 .. Len(stack[t])
        /\ Head(stack[t]) = f /\ f.call = "put" /\ f.i \in DOMAIN ctrls
        /\ DOMAIN ctrls = 1 .. Len(ctrls) /\ Len(ctrls) \in Nat
    BY LenProperties, EmptySeq DEF Inv, TypeOK, WriteOne, Writing, In
  <2>2. f \in PutFrame
    BY <2>1, AdvanceEffect DEF Inv, WriteOne, Writing
  <2>3. IsPut(t, 1) /\ Inside(t, 1)
    BY <2>1 DEF IsPut, Inside
  <2>4. c <= puts
    BY <2>1, <2>3 DEF Inv, Stacks, IdsDiffer
  <2>5. n \in Admins
    BY <2>1, ElementOfSeq DEF Inv, TypeOK
  <2> QED
    BY <2>1, <2>2, <2>3, <2>4, <2>5 DEF PutFrame
<1>2. /\ \A a \in Admins : Len(log[a]) \in Nat /\ DOMAIN log[a] = 1 .. Len(log[a])
      /\ \A a \in Admins \ {n} : log'[a] = log[a]
      /\ Len(log'[n]) = m /\ DOMAIN log'[n] = 1 .. m /\ m \in Nat /\ Len(log[n]) = m - 1
      /\ \A i \in 1 .. m - 1 : log'[n][i] = log[n][i]
      /\ log'[n][m] = c
      /\ puts' = puts /\ ctrls' = ctrls
  <2>1. /\ log \in [Admins -> Seq(1 .. MaxPuts)]
        /\ log' = [log EXCEPT ![n] = Append(@, c)]
        /\ puts' = puts /\ ctrls' = ctrls
    BY <1>1 DEF Inv, TypeOK, WriteOne, Next1
  <2>2. \A a \in Admins : Len(log[a]) \in Nat /\ DOMAIN log[a] = 1 .. Len(log[a])
    BY <2>1, LenProperties
  <2>3. log'[n] = Append(log[n], c) /\ \A a \in Admins \ {n} : log'[a] = log[a]
    BY <1>1, <2>1
  <2>4. /\ Append(log[n], c) \in Seq(1 .. MaxPuts)
        /\ Len(Append(log[n], c)) = m
        /\ \A i \in 1 .. Len(log[n]) : Append(log[n], c)[i] = log[n][i]
        /\ Append(log[n], c)[m] = c
    BY <1>1, <2>1, AppendProperties
  <2>5. DOMAIN Append(log[n], c) = 1 .. m
    BY <2>4, LenProperties
  <2>6. m \in Nat /\ Len(log[n]) = m - 1 /\ 1 .. m - 1 = 1 .. Len(log[n])
    BY <1>1, <2>2
  <2> HIDE DEF m, n, c
  <2> QED
    BY <2>1, <2>2, <2>3, <2>4, <2>5, <2>6
<1> HIDE DEF m
<1>3. \A i \in DOMAIN log[n] : log[n][i] # c
  <2> SUFFICES ASSUME NEW i \in DOMAIN log[n], log[n][i] = c PROVE FALSE
    OBVIOUS
  <2>1. PICK j \in DOMAIN ctrls : j < f.i /\ ctrls[j] = n
    BY <1>1 DEF Inv, LogsWellFormed
  <2>2. j = f.i
    BY <1>1, <2>1 DEF Inv, ListWellFormed
  <2> QED
    BY <1>1, <2>1, <2>2
<1>4. \A a \in Admins : \A i \in DOMAIN log[a] : log[a][i] = c =>
         i = Len(log[a]) /\ \E j \in DOMAIN ctrls : j < f.i /\ ctrls[j] = a
  BY <1>1 DEF Inv, LogsWellFormed
<1>5. \A a \in Admins : /\ Len(log[a]) \in Nat /\ DOMAIN log[a] = 1 .. Len(log[a])
                         /\ Len(log'[a]) \in Nat /\ DOMAIN log'[a] = 1 .. Len(log'[a])
  BY LenProperties DEF Inv, TypeOK
<1> DEFINE Old(a, i) == i \in DOMAIN log[a] /\ log'[a][i] = log[a][i]
<1> HIDE DEF c, n
<1>6. \A a \in Admins : \A i \in DOMAIN log'[a] :
         Old(a, i) \/ (a = n /\ i = Len(log'[a]) /\ log'[a][i] = c)
  <2> SUFFICES ASSUME NEW a \in Admins, NEW i \in DOMAIN log'[a]
               PROVE  Old(a, i) \/ (a = n /\ i = Len(log'[a]) /\ log'[a][i] = c)
    OBVIOUS
  <2>1. CASE a # n
    BY <1>2, <2>1
  <2>2. CASE a = n
    <3>1. i \in 1 .. m
      BY <1>2, <2>2
    <3>2. i = m \/ i \in 1 .. m - 1
      BY <1>2, <3>1
    <3>3. i \in 1 .. m - 1 => i \in DOMAIN log[n]
      BY <1>2
    <3> QED
      BY <1>2, <2>2, <3>2, <3>3
  <2> QED
    BY <2>1, <2>2
<1>7. \A a \in Admins : \A i, j \in DOMAIN log'[a] : log'[a][i] = log'[a][j] => i = j
  <2> SUFFICES ASSUME NEW a \in Admins, NEW i \in DOMAIN log'[a], NEW j \in DOMAIN log'[a],
                      log'[a][i] = log'[a][j]
               PROVE  i = j
    OBVIOUS
  <2>1. CASE ~Old(a, i)
    BY <1>3, <1>6, <2>1
  <2>2. CASE ~Old(a, j)
    BY <1>3, <1>6, <2>2
  <2>3. CASE Old(a, i) /\ Old(a, j)
    BY <2>3 DEF Inv, LogsWellFormed
  <2> QED
    BY <2>1, <2>2, <2>3
<1>8. SameOrder'
  <2> SUFFICES ASSUME NEW a \in Admins, NEW b \in Admins,
                      NEW i \in DOMAIN log'[a], NEW j \in DOMAIN log'[a],
                      NEW k \in DOMAIN log'[b], NEW l \in DOMAIN log'[b],
                      i < j, log'[a][i] = log'[b][k], log'[a][j] = log'[b][l]
               PROVE  k < l
    BY DEF SameOrder
  <2>1. /\ i \in Nat /\ j \in Nat /\ k \in Nat /\ l \in Nat
        /\ k <= Len(log'[b]) /\ l <= Len(log'[b]) /\ i <= Len(log'[a]) /\ j <= Len(log'[a])
    BY <1>5
  <2>2. k # l
    BY <1>7, <2>1
  <2>3. \A x \in Admins : \A y \in DOMAIN log'[x] : log'[x][y] = c => y = Len(log'[x])
    <3> SUFFICES ASSUME NEW x \in Admins, NEW y \in DOMAIN log'[x], log'[x][y] = c
                 PROVE  y = Len(log'[x])
      OBVIOUS
    <3>1. CASE Old(x, y)
      BY <1>2, <1>3, <1>4, <3>1
    <3>2. CASE ~Old(x, y)
      BY <1>6, <3>2
    <3> QED
      BY <3>1, <3>2
  <2>4. CASE log'[a][j] = c
    <3>1. l = Len(log'[b])
      BY <2>3, <2>4
    <3> QED
      BY <2>1, <2>2, <3>1
  <2>5. CASE log'[a][i] = c
    BY <2>1, <2>3, <2>5
  <2>6. CASE log'[a][i] # c /\ log'[a][j] # c
    <3>1. Old(a, i) /\ Old(a, j) /\ Old(b, k) /\ Old(b, l)
      BY <1>6, <2>6
    <3> QED
      BY <3>1 DEF Inv, SameOrder
  <2> QED
    BY <2>4, <2>5, <2>6
<1>9. /\ DOMAIN stack'[t] = DOMAIN stack[t]
      /\ \A u \in Threads : DOMAIN stack'[u] = DOMAIN stack[u]
      /\ stack'[t][1].id = c
      /\ stack'[t][1].i = f.i + 1
      /\ \A u \in Threads : \A k \in DOMAIN stack[u] :
            ~(u = t /\ k = 1) => stack'[u][k] = stack[u][k] /\ (IsPut(u, k)' <=> IsPut(u, k))
  <2>1. /\ \A u \in Threads \ {t} : stack'[u] = stack[u]
        /\ DOMAIN stack'[t] = DOMAIN stack[t]
        /\ stack[t][1] \in PutFrame
        /\ stack'[t][1] = [stack[t][1] EXCEPT !.i = @ + 1]
        /\ \A k \in DOMAIN stack[t] \ {1} : stack'[t][k] = stack[t][k]
    BY AdvanceEffect DEF Inv, WriteOne, Writing
  <2>2. stack'[t][1].id = c /\ stack'[t][1].i = f.i + 1
    <3>1. f \in PutFrame /\ stack'[t][1] = [f EXCEPT !.i = @ + 1]
      BY <2>1
    <3> HIDE DEF f
    <3> QED
      BY <3>1 DEF PutFrame, c
  <2> QED
    BY <2>1, <2>2 DEF IsPut
<1>10. ASSUME NEW u \in Threads, NEW k \in DOMAIN stack'[u], NEW a \in Admins,
             NEW i \in DOMAIN log'[a], IsPut(u, k)', log'[a][i] = stack'[u][k].id
      PROVE  /\ i = Len(log'[a])
             /\ \E j \in DOMAIN ctrls' : j < stack'[u][k].i /\ ctrls'[j] = a
  <2>1. CASE u = t /\ k = 1
    <3>1. log'[a][i] = c
      BY <1>9, <1>10, <2>1
    <3>2. CASE a = n /\ i = Len(log'[a])
      <4>1. f.i < stack'[t][1].i /\ f.i \in DOMAIN ctrls /\ ctrls[f.i] = a
        BY <1>1, <1>9, <3>2 DEF n
      <4> QED
        BY <1>2, <2>1, <3>2, <4>1
    <3>3. CASE Old(a, i)
      <4>1. a # n
        BY <1>3, <3>1, <3>3
      <4>2. PICK j \in DOMAIN ctrls : j < f.i /\ ctrls[j] = a
        BY <1>4, <3>1, <3>3
      <4>3. j < f.i + 1
        BY <1>1, <4>2
      <4> QED
        BY <1>2, <1>4, <1>9, <2>1, <3>1, <3>3, <4>1, <4>2, <4>3
    <3> QED
      BY <1>6, <3>2, <3>3
  <2>2. CASE ~(u = t /\ k = 1)
    <3>1. k \in DOMAIN stack[u] /\ IsPut(u, k) /\ stack'[u][k] = stack[u][k]
      BY <1>9, <1>10, <2>2
    <3>2. log'[a][i] # c
      <4>1. stack[u][k].id # stack[t][1].id
        BY <1>1, <2>2, <3>1 DEF Inv, Stacks, IdsDiffer
      <4> QED
        BY <1>10, <3>1, <4>1 DEF c
    <3>3. Old(a, i)
      BY <1>6, <3>2
    <3>4. PICK j \in DOMAIN ctrls : j < stack[u][k].i
      BY <1>10, <3>1, <3>3 DEF Inv, LogsWellFormed
    <3>5. Inside(u, k)
      BY <1>1, <3>1, <3>4, CallType DEF Inv, Inside
    <3> QED
      BY <1>1, <2>2, <3>1, <3>5 DEF Inv, Stacks, MutexInside
  <2> QED
    BY <2>1, <2>2
<1>11. \A a \in Admins : \A i \in DOMAIN log'[a] : log'[a][i] <= puts'
  BY <1>1, <1>2, <1>6 DEF Inv, LogsWellFormed
<1> QED
  BY <1>7, <1>8, <1>10, <1>11 DEF LogsWellFormed

-----------------------------------------------------------------------------
(* The steps.                                                              *)

(* A call of Put.                                                          *)
LEMMA CallPutEffect ==
  ASSUME TypeOK, Stacks, NEW t \in Threads, NEW context \in Contexts, NEW signal \in Signals,
         CallPut(t, context, signal), stack[t] = <<>> \/ signal # "none", mutex' = mutex
  PROVE  /\ Stacks' /\ CallsFollow
         /\ stack' \in [Threads -> Seq(Frames)]
         /\ puts' \in 0 .. MaxPuts /\ puts' >= puts
<1> DEFINE f == [call |-> "put", id |-> puts + 1, context |-> context, i |-> 0,
                 signal |-> signal]
<1>1. puts \in Nat /\ puts' = puts + 1 /\ puts + 1 \in 1 .. MaxPuts /\ Push(t, f)
  BY DEF CallPut, TypeOK
<1>2. f \in Frames /\ f.call = "put" /\ f.i = 0 /\ f.id = puts + 1 /\ f.signal = signal
  BY <1>1 DEF Frames, PutFrame
<1> HIDE DEF f
<1>3. stack' \in [Threads -> Seq(Frames)]
  BY <1>1, <1>2, PushEffect
<1>4. Stacks' /\ CallsFollow
  BY <1>1, <1>2, PushStacks
<1> QED
  BY <1>1, <1>3, <1>4

(* A write to one stream.                                                  *)
LEMMA WriteEffect ==
  ASSUME TypeOK, Stacks, NEW t \in Threads, NEW f \in WriteFrame, Push(t, f),
         stack[t] = <<>>, mutex' = mutex, puts' = puts
  PROVE  Stacks' /\ CallsFollow /\ stack' \in [Threads -> Seq(Frames)]
<1>1. f \in Frames /\ f.call # "put"
  BY DEF Frames, WriteFrame
<1>2. puts' \in Nat /\ puts' >= puts
  BY DEF TypeOK
<1> QED
  BY <1>1, <1>2, PushEffect, PushStacks

(* A return from something other than Put.                                 *)
LEMMA ReturnEffect ==
  ASSUME TypeOK, Stacks, NEW t \in Threads, In(t, "send") \/ In(t, "notice"), Pop(t),
         mutex' = mutex, puts' = puts
  PROVE  Stacks' /\ CallsFollow /\ stack' \in [Threads -> Seq(Frames)]
<1>1. stack[t] # <<>> /\ Head(stack[t]) = stack[t][1]
  BY DEF In, TypeOK
<1>2. ~Inside(t, 1)
  BY <1>1 DEF In, Inside, IsPut
<1> QED
  BY <1>1, <1>2, PopEffect, PopStacks

(* The end of Put.                                                         *)
LEMMA EndPutEffect ==
  ASSUME TypeOK, ListWellFormed, Stacks, NEW t \in Threads, EndPut(t)
  PROVE  Stacks' /\ CallsFollow /\ stack' \in [Threads -> Seq(Frames)]
<1>1. stack[t] # <<>> /\ Head(stack[t]) = stack[t][1] /\ 1 \in DOMAIN stack[t]
  BY LenProperties, EmptySeq DEF EndPut, In, TypeOK
<1>2. Len(ctrls) \in Nat \ {0}
  BY EmptySeq DEF TypeOK, ListWellFormed
<1>3. IsPut(t, 1) /\ stack[t][1].i \in Nat
  BY <1>1, CallType DEF EndPut, In, IsPut
<1>4. Inside(t, 1)
  BY <1>1, <1>2, <1>3 DEF EndPut, Inside
<1> QED
  BY <1>1, <1>4, PopEffect, PopStacks DEF EndPut, Release

(* Put goes on.                                                            *)
LEMMA AdvancePutEffect ==
  ASSUME TypeOK, Stacks, NEW t \in Threads, In(t, "put"), Advance(t), puts' = puts,
         IF Head(stack[t]).i = 0 THEN mutex = Nobody /\ mutex' = t ELSE mutex' = mutex
  PROVE  Stacks' /\ CallsFollow /\ stack' \in [Threads -> Seq(Frames)]
  BY AdvanceEffect, AdvanceStacks

(* Who is written to is not the zeroth of the list.                        *)
LEMMA WritingHas ==
  ASSUME TypeOK, NEW t \in Threads, Writing(t)
  PROVE  In(t, "put") /\ Head(stack[t]).i # 0 /\ Next1(t) \in Admins
<1>1. DOMAIN ctrls = 1 .. Len(ctrls) /\ Len(ctrls) \in Nat
  BY LenProperties DEF TypeOK
<1>2. ctrls[Head(stack[t]).i] \in Admins
  BY <1>1, ElementOfSeq DEF TypeOK, Writing
<1> QED
  BY <1>1, <1>2 DEF Writing, Next1

(* Put.                                                                    *)
LEMMA PutKeeps ==
  ASSUME Inv, NEW t \in Threads, PutStep(t)
  PROVE  Inv'
<1> USE DEF Inv
<1>1. CASE LockPut(t)
  <2>1. Stacks' /\ CallsFollow /\ stack' \in [Threads -> Seq(Frames)]
    BY <1>1, AdvancePutEffect DEF LockPut, MutexFree
  <2>2. TypeOK'
    BY <1>1, <2>1 DEF LockPut, TypeOK, Frames
  <2>3. ListWellFormed'
    BY <1>1 DEF LockPut, ListWellFormed
  <2>4. LogsWellFormed' /\ SameOrder'
    BY <1>1, <2>1, LogsFollow DEF LockPut, TypeOK
  <2> QED
    BY <2>1, <2>2, <2>3, <2>4
<1>2. CASE PassOver(t) \/ TouchFreed(t)
  <2>1. Stacks' /\ CallsFollow /\ stack' \in [Threads -> Seq(Frames)]
    BY <1>2, WritingHas, AdvancePutEffect DEF PassOver, TouchFreed
  <2>2. TypeOK'
    BY <1>2, <2>1 DEF PassOver, TouchFreed, TypeOK, Frames
  <2>3. ListWellFormed'
    BY <1>2 DEF PassOver, TouchFreed, ListWellFormed
  <2>4. LogsWellFormed' /\ SameOrder'
    BY <1>2, <2>1, LogsFollow DEF PassOver, TouchFreed, TypeOK
  <2> QED
    BY <2>1, <2>2, <2>3, <2>4
<1>3. CASE WriteOne(t)
  <2>1. Stacks' /\ CallsFollow /\ stack' \in [Threads -> Seq(Frames)]
    BY <1>3, WritingHas, AdvancePutEffect DEF WriteOne
  <2>2. TypeOK'
    <3>1. Next1(t) \in Admins /\ Head(stack[t]).id \in 1 .. MaxPuts
      <4>1. stack[t] # <<>> /\ Head(stack[t]) = stack[t][1] /\ stack[t][1] \in PutFrame
        <5>1. In(t, "put") /\ Advance(t)
          BY <1>3, WritingHas DEF WriteOne
        <5>2. stack[t][1] \in PutFrame
          BY <5>1, AdvanceEffect
        <5> QED
          BY <5>1, <5>2 DEF In, TypeOK
      <4> QED
        BY <1>3, <4>1, WritingHas DEF WriteOne, PutFrame
    <3>2. Append(log[Next1(t)], Head(stack[t]).id) \in Seq(1 .. MaxPuts)
      BY <3>1, AppendProperties DEF TypeOK
    <3>3. log' \in [Admins -> Seq(1 .. MaxPuts)]
      BY <1>3, <3>1, <3>2 DEF WriteOne, TypeOK
    <3> QED
      BY <1>3, <2>1, <3>3 DEF WriteOne, TypeOK, Frames
  <2>3. ListWellFormed'
    BY <1>3 DEF WriteOne, ListWellFormed
  <2>4. LogsWellFormed' /\ SameOrder'
    BY <1>3, <2>2, LogsGrow
  <2> QED
    BY <2>1, <2>2, <2>3, <2>4
<1>4. CASE EndPut(t)
  <2>1. Stacks' /\ CallsFollow /\ stack' \in [Threads -> Seq(Frames)]
    BY <1>4, EndPutEffect
  <2>2. TypeOK'
    BY <1>4, <2>1 DEF EndPut, Release, TypeOK, Frames
  <2>3. ListWellFormed'
    BY <1>4 DEF EndPut, ListWellFormed
  <2>4. LogsWellFormed' /\ SameOrder'
    BY <1>4, <2>1, LogsFollow DEF EndPut, TypeOK
  <2> QED
    BY <2>1, <2>2, <2>3, <2>4
<1> QED
  BY <1>1, <1>2, <1>3, <1>4 DEF PutStep

(* Who writes to one stream.                                               *)
LEMMA WriterKeeps ==
  ASSUME Inv, NEW t \in Threads, EndSend(t) \/ SigPipe(t) \/ SigInt(t)
  PROVE  Inv'
<1> USE DEF Inv
<1>1. CASE EndSend(t)
  <2>1. Stacks' /\ CallsFollow /\ stack' \in [Threads -> Seq(Frames)]
    BY <1>1, ReturnEffect DEF EndSend
  <2>2. TypeOK'
    BY <1>1, <2>1 DEF EndSend, TypeOK, Frames
  <2>3. ListWellFormed'
    BY <1>1 DEF EndSend, ListWellFormed
  <2>4. LogsWellFormed' /\ SameOrder'
    BY <1>1, <2>1, LogsFollow DEF EndSend, TypeOK
  <2> QED
    BY <2>1, <2>2, <2>3, <2>4
<1>2. CASE SigPipe(t) \/ SigInt(t)
  <2>1. PICK signal \in {"SIGPIPE", "SIGINT"} : CallPut(t, All, signal)
    BY <1>2 DEF SigPipe, SigInt
  <2>2. /\ Stacks' /\ CallsFollow /\ stack' \in [Threads -> Seq(Frames)]
        /\ puts' \in 0 .. MaxPuts /\ puts' >= puts
    <3>1. All \in Contexts /\ signal \in Signals /\ signal # "none" /\ mutex' = mutex
      BY <1>2 DEF Contexts, Signals, SigPipe, SigInt
    <3> QED
      BY <2>1, <3>1, CallPutEffect
  <2>3. TypeOK'
    BY <1>2, <2>2 DEF SigPipe, SigInt, TypeOK, Frames
  <2>4. ListWellFormed'
    BY <1>2 DEF SigPipe, SigInt, ListWellFormed
  <2>5. LogsWellFormed' /\ SameOrder'
    BY <1>2, <2>2, LogsFollow DEF SigPipe, SigInt
  <2> QED
    BY <2>2, <2>3, <2>4, <2>5
<1> QED
  BY <1>1, <1>2

(* An admin comes.                                                         *)
LEMMA ArriveKeeps ==
  ASSUME Inv, NEW a \in Admins, Arrive(a)
  PROVE  Inv'
<1> USE DEF Inv
<1>1. /\ Stacks' /\ CallsFollow /\ stack' \in [Threads -> Seq(Frames)]
      /\ puts' \in 0 .. MaxPuts /\ puts' >= puts
  <2>1. /\ a \in Contexts /\ "none" \in Signals /\ Main \in Threads
        /\ CallPut(Main, a, "none") /\ stack[Main] = <<>> /\ mutex' = mutex
    BY DEF Contexts, Signals, Threads, Arrive, Idle
  <2> QED
    BY <2>1, CallPutEffect
<1>2. /\ ctrls \in Seq(Admins) /\ Len(ctrls) \in Nat /\ DOMAIN ctrls = 1 .. Len(ctrls)
      /\ ctrls' \in Seq(Admins) /\ DOMAIN ctrls' = 1 .. Len(ctrls) + 1
      /\ \A i \in 1 .. Len(ctrls) : ctrls'[i] = ctrls[i]
      /\ ctrls'[Len(ctrls) + 1] = a
  <2>1. ctrls \in Seq(Admins) /\ ctrls' = Append(ctrls, a)
    BY DEF Arrive, TypeOK
  <2> QED
    BY <2>1, LenProperties, AppendProperties
<1>3. /\ object' = [object EXCEPT ![a] = "live"] /\ object[a] = "none"
      /\ conn' = [conn EXCEPT ![a] = "open"]
      /\ UNCHANGED <<mutex, sel, pipe, log, interrupt, alive>>
  BY DEF Arrive
<1>4. TypeOK'
  BY <1>1, <1>2, <1>3 DEF TypeOK, Frames
<1>5. ListWellFormed'
  <2>1. \A i \in 1 .. Len(ctrls) : ctrls[i] \in Admins /\ ctrls[i] # a
    BY <1>2, <1>3, ElementOfSeq DEF ListWellFormed
  <2>2. ctrls' # <<>>
    BY <1>2
  <2>3. \A i, j \in DOMAIN ctrls' : ctrls'[i] = ctrls'[j] => i = j
    <3> SUFFICES ASSUME NEW i \in DOMAIN ctrls', NEW j \in DOMAIN ctrls', ctrls'[i] = ctrls'[j]
                 PROVE  i = j
      OBVIOUS
    <3>1. \A k \in DOMAIN ctrls' : k = Len(ctrls) + 1 \/ k \in 1 .. Len(ctrls)
      BY <1>2
    <3>2. CASE i \in 1 .. Len(ctrls) /\ j \in 1 .. Len(ctrls)
      BY <1>2, <3>2 DEF ListWellFormed
    <3>3. CASE i = Len(ctrls) + 1 \/ j = Len(ctrls) + 1
      BY <1>2, <2>1, <3>1, <3>3
    <3> QED
      BY <3>1, <3>2, <3>3
  <2>4. \A i \in DOMAIN ctrls' : object'[ctrls'[i]] # "none"
    <3> SUFFICES ASSUME NEW i \in DOMAIN ctrls' PROVE object'[ctrls'[i]] # "none"
      OBVIOUS
    <3>1. CASE i \in 1 .. Len(ctrls)
      BY <1>2, <1>3, <2>1, <3>1 DEF ListWellFormed, TypeOK
    <3>2. CASE i = Len(ctrls) + 1
      BY <1>2, <1>3, <3>2 DEF TypeOK
    <3> QED
      BY <1>2, <3>1, <3>2
  <2> QED
    BY <2>2, <2>3, <2>4 DEF ListWellFormed
<1>6. LogsWellFormed' /\ SameOrder'
  BY <1>1, <1>2, <1>3, LogsFollow
<1> QED
  BY <1>1, <1>4, <1>5, <1>6

(* An admin or a host calls Put.                                           *)
LEMMA CallerKeeps ==
  ASSUME Inv, NEW t \in Admins \cup Hosts,
         \/ t \in Admins /\ (Answer(t) \/ Select(t))
         \/ t \in Hosts /\ HostPuts(t)
  PROVE  Inv'
<1> USE DEF Inv
<1>1. t \in Threads /\ stack[t] = <<>> /\ mutex' = mutex
  BY DEF Threads, Answer, Select, HostPuts, Listens, Idle
<1>2. PICK context \in Contexts : CallPut(t, context, "none")
  BY DEF Contexts, Answer, Select, HostPuts
<1>3. /\ Stacks' /\ CallsFollow /\ stack' \in [Threads -> Seq(Frames)]
      /\ puts' \in 0 .. MaxPuts /\ puts' >= puts
  BY <1>1, <1>2, CallPutEffect DEF Signals
<1>4. /\ UNCHANGED <<ctrls, object, conn, pipe, log, interrupt, alive>>
      /\ sel' \in [Admins -> {Nobody} \cup Hosts]
  BY DEF Answer, Select, HostPuts, TypeOK
<1>5. TypeOK'
  BY <1>1, <1>3, <1>4 DEF TypeOK, Frames
<1>6. ListWellFormed'
  BY <1>4 DEF ListWellFormed
<1>7. LogsWellFormed' /\ SameOrder'
  BY <1>3, <1>4, LogsFollow
<1> QED
  BY <1>3, <1>5, <1>6, <1>7

(* An admin writes to an engine, or is leaving.                            *)
LEMMA AdminKeeps ==
  ASSUME Inv, NEW a \in Admins, Text(a) \/ SeeEnd(a) \/ EndNotice(a)
  PROVE  Inv'
<1> USE DEF Inv
<1>1. a \in Threads /\ mutex' = mutex /\ puts' = puts /\ ctrls' = ctrls /\ log' = log
  BY DEF Threads, Text, SeeEnd, EndNotice
<1>2. Stacks' /\ CallsFollow /\ stack' \in [Threads -> Seq(Frames)]
  <2>1. CASE Text(a)
    <3>1. [call |-> "send", to |-> sel[a]] \in WriteFrame
      BY <2>1 DEF Text, TypeOK, WriteFrame
    <3> QED
      BY <1>1, <2>1, <3>1, WriteEffect DEF Text, Listens, Idle
  <2>2. CASE SeeEnd(a)
    <3>1. [call |-> "notice", to |-> a] \in WriteFrame
      BY DEF WriteFrame
    <3> QED
      BY <1>1, <2>2, <3>1, WriteEffect DEF SeeEnd, Idle
  <2>3. CASE EndNotice(a)
    BY <1>1, <2>3, ReturnEffect DEF EndNotice
  <2> QED
    BY <2>1, <2>2, <2>3
<1>3. /\ UNCHANGED <<sel, pipe, interrupt, alive>>
      /\ object' \in [Admins -> {"none", "live", "freed"}]
      /\ conn' \in [Admins -> {"none", "open", "stalled", "hungUp", "closed", "deleted"}]
      /\ \A b \in Admins : object[b] # "none" => object'[b] # "none"
  BY DEF Text, SeeEnd, EndNotice, TypeOK
<1>4. TypeOK'
  BY <1>1, <1>2, <1>3 DEF TypeOK, Frames
<1>5. ListWellFormed'
  <2>1. \A i \in DOMAIN ctrls : ctrls[i] \in Admins
    BY LenProperties, ElementOfSeq DEF TypeOK
  <2> QED
    BY <1>1, <1>3, <2>1 DEF ListWellFormed
<1>6. LogsWellFormed' /\ SameOrder'
  BY <1>1, <1>2, LogsFollow DEF TypeOK
<1> QED
  BY <1>2, <1>4, <1>5, <1>6

(* The other ends, and nothing.                                            *)
LEMMA OutsideKeeps ==
  ASSUME Inv, \/ \E a \in Admins : Peer(a)
              \/ \E h \in Hosts : Engine(h)
              \/ UNCHANGED vars
  PROVE  Inv'
<1> USE DEF Inv
<1>1. UNCHANGED <<ctrls, mutex, object, sel, stack, puts, log, interrupt, alive>>
  BY DEF Peer, Engine, vars
<1>2. TypeOK'
  <2>1. /\ conn' \in [Admins -> {"none", "open", "stalled", "hungUp", "closed", "deleted"}]
        /\ pipe' \in [Hosts -> {"open", "hungUp"}]
    BY DEF Peer, Engine, vars, TypeOK
  <2> QED
    BY <1>1, <2>1 DEF TypeOK
<1>3. ListWellFormed' /\ Stacks'
  BY <1>1 DEF ListWellFormed, Stacks, MutexInside, HandlersOnTop, IdsDiffer, IsPut, Inside
<1>4. LogsWellFormed' /\ SameOrder'
  BY <1>1 DEF LogsWellFormed, SameOrder, IsPut
<1> QED
  BY <1>2, <1>3, <1>4

(* In the beginning nobody is doing anything.                              *)
LEMMA InitInv == Init => Inv
<1> SUFFICES ASSUME Init PROVE Inv
  OBVIOUS
<1> USE DEF Init
<1>1. TypeOK
  <2>1. ctrls \in Seq(Admins) /\ <<>> \in Seq(PutFrame \cup WriteFrame) /\ <<>> \in Seq(1 .. MaxPuts)
    OBVIOUS
  <2>2. /\ stack \in [Threads -> Seq(PutFrame \cup WriteFrame)]
        /\ log \in [Admins -> Seq(1 .. MaxPuts)]
    BY <2>1
  <2>3. object \in [Admins -> {"none", "live", "freed"}]
    OBVIOUS
  <2>4. sel \in [Admins -> {Nobody} \cup Hosts]
    OBVIOUS
  <2>5. conn \in [Admins -> {"none", "open", "stalled", "hungUp", "closed", "deleted"}]
    OBVIOUS
  <2>6. pipe \in [Hosts -> {"open", "hungUp"}]
    OBVIOUS
  <2>7. mutex \in {Nobody} \cup Threads /\ interrupt \in BOOLEAN /\ alive \in BOOLEAN
    OBVIOUS
  <2>8. puts \in 0 .. MaxPuts
    <3>1. puts = 0
      OBVIOUS
    <3> HIDE DEF Init
    <3> QED
      BY <3>1
  <2> HIDE DEF Init
  <2> QED
    BY <2>1, <2>2, <2>3, <2>4, <2>5, <2>6, <2>7, <2>8 DEF TypeOK
<1>2. ListWellFormed
  BY DEF ListWellFormed
<1>3. Stacks
  BY DEF Stacks, MutexInside, HandlersOnTop, IdsDiffer, IsPut, Inside, Threads, Main, Nobody
<1>4. LogsWellFormed /\ SameOrder
  BY DEF LogsWellFormed, SameOrder
<1> QED
  BY <1>1, <1>2, <1>3, <1>4 DEF Inv

(* The invariant, for any number of admins, hosts and messages.            *)
THEOREM InvHolds == Spec => []Inv
<1>1. Inv /\ [Next]_vars => Inv'
  <2> SUFFICES ASSUME Inv, [Next]_vars PROVE Inv'
    OBVIOUS
  <2>1. CASE \E t \in Threads : PutStep(t)
    BY <2>1, PutKeeps
  <2>2. CASE \E t \in Threads : EndSend(t) \/ SigPipe(t) \/ SigInt(t)
    BY <2>2, WriterKeeps
  <2>3. CASE \E a \in Admins : Arrive(a)
    BY <2>3, ArriveKeeps
  <2>4. CASE \E a \in Admins : Answer(a) \/ Select(a)
    BY <2>4, CallerKeeps
  <2>5. CASE \E a \in Admins : Text(a) \/ SeeEnd(a) \/ EndNotice(a)
    BY <2>5, AdminKeeps
  <2>6. CASE \E h \in Hosts : HostPuts(h)
    BY <2>6, CallerKeeps
  <2>7. CASE \/ \E a \in Admins : Peer(a)
             \/ \E h \in Hosts : Engine(h)
             \/ UNCHANGED vars
    BY <2>7, OutsideKeeps
  <2> QED
    BY <2>1, <2>2, <2>3, <2>4, <2>5, <2>6, <2>7 DEF Next
<1> QED
  BY InitInv, <1>1, PTL DEF Spec

(* Types.                                                                  *)
THEOREM TypesHold == Spec => []TypeOK
<1>1. Inv => TypeOK
  BY DEF Inv
<1> QED
  BY <1>1, InvHolds, PTL

(* However calls of Put, its handlers and the admins' coming and going     *)
(* interleave, two admins read what they both read in the same order.      *)
THEOREM OrderIsTheSame == Spec => []SameOrder
<1>1. Inv => SameOrder
  BY DEF Inv
<1> QED
  BY <1>1, InvHolds, PTL

(* A thread that waits for the mutex that it has itself is in a handler: a *)
(* call that is none is the only one of its thread, and is not inside yet. *)
THEOREM OthersNeverSelfWait == Spec => []OnlyHandlersSelfWait
<1>1. Inv => OnlyHandlersSelfWait
  <2> SUFFICES ASSUME Inv, NEW t \in Threads, SelfWait(t)
               PROVE  Head(stack[t]).signal # "none"
    BY DEF OnlyHandlersSelfWait
  <2>1. /\ Len(stack[t]) \in Nat \ {0} /\ DOMAIN stack[t] = 1 .. Len(stack[t])
        /\ Head(stack[t]) = stack[t][1]
    BY LenProperties, EmptySeq DEF Inv, TypeOK, SelfWait, In
  <2>2. PICK k \in DOMAIN stack[t] : Inside(t, k)
    BY DEF Inv, Stacks, MutexInside, SelfWait
  <2>3. k # 1
    BY <2>1, <2>2 DEF SelfWait, Inside
  <2>4. 1 \in DOMAIN stack[t] /\ 1 < Len(stack[t])
    BY <2>1, <2>3
  <2> QED
    BY <2>1, <2>4 DEF Inv, Stacks, HandlersOnTop
<1> QED
  BY <1>1, InvHolds, PTL
=============================================================================
