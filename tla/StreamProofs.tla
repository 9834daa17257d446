---------------------------- MODULE StreamProofs ----------------------------
(***************************************************************************)
(* Proofs about what is read from file descriptors and what happens to     *)
(* their numbers (Stream.cpp): Stream, for a buffer of any size, any input *)
(* and any way in which read() cuts it, and Descriptors, for any hosts,    *)
(* admins, launches and numbers.                                           *)
(***************************************************************************)
EXTENDS Stream, Descriptors, FiniteSetTheorems, WellFoundedInduction,
        SequenceTheorems, TLAPS

USE BufferAssumption, LettersAssumption
USE NumbersAssumption, LaunchesAssumption, NamesAssumption

-----------------------------------------------------------------------------
(* Induction.                                                              *)

(* A set of natural numbers has a least element.                           *)
LEMMA LeastElement ==
  ASSUME NEW S, S \subseteq Nat, S # {}
  PROVE  \E k \in S : \A j \in S : k <= j
<1> DEFINE R == OpToRel(<, Nat)
<1>1. \A x, y \in Nat : <<x, y>> \in R <=> x < y
  BY DEF OpToRel
<1>2. IsWellFoundedOn(R, Nat)
  BY NatLessThanWellFounded
<1> HIDE DEF R
<1>3. PICK x \in S : \A y \in S : ~ (<<y, x>> \in R)
  BY <1>2, WFMin
<1>4. \A y \in S : x <= y
  <2> SUFFICES ASSUME NEW y \in S PROVE x <= y
    OBVIOUS
  <2>1. ~ (y < x)
    BY <1>1, <1>3, Zenon
  <2> QED
    BY <2>1
<1> QED
  BY <1>4

(* What holds for some number up to n holds for a first one.               *)
LEMMA FirstOf ==
  ASSUME NEW n \in Nat, NEW S \in SUBSET (0 .. n), S # {}
  PROVE  \E m \in S : \A j \in 0 .. m - 1 : j \notin S
<1>1. S \subseteq Nat
  OBVIOUS
<1>2. PICK m \in S : \A j \in S : m <= j
  BY <1>1, LeastElement
<1>3. m \in Nat
  BY <1>1
<1> QED
  BY <1>2, <1>3

-----------------------------------------------------------------------------
(* ReadLine: the invariant.                                                *)

(* What ReadLine leaves behind is closed by the NUL of line 56, and a line *)
(* that has been cut out ends before it.                                   *)
Closed == pc \in {"caller", "scan"} => buff <= rv /\ (LeftBehind => memory[rv] = NUL)

(* The scan starts with something to look at.                              *)
ScansSomething == pc = "scan" => LeftBehind

ReadInv == ReadTypeOK /\ ~outside /\ Closed /\ ScansSomething

(* A NUL ahead stops the scan at its place or before, and there is only    *)
(* text in between.                                                        *)
LEMMA ScanStops ==
  ASSUME ReadTypeOK, Closed, LeftBehind, pc = "scan"
  PROVE  /\ StopOffsets # {}
         /\ StopAt \in Offset
         /\ buff <= StopAt
         /\ StopAt <= rv
         /\ memory[StopAt] \in Stops
         /\ \A k \in buff .. StopAt - 1 : memory[k] \in Letters
<1>1. rv \in StopOffsets
  BY DEF ReadTypeOK, Closed, LeftBehind, StopOffsets, Stops, Offset
<1>2. StopOffsets \subseteq Nat /\ StopOffsets # {}
  BY <1>1 DEF StopOffsets, Offset
<1>3. \E k \in StopOffsets : \A j \in StopOffsets : k <= j
  BY <1>2, LeastElement
<1>4. StopAt \in StopOffsets /\ \A j \in StopOffsets : StopAt <= j
  BY <1>3 DEF StopAt
<1>5. \A k \in buff .. StopAt - 1 : k \in Offset /\ k \notin StopOffsets
  BY <1>4, <1>2 DEF StopOffsets, Offset, ReadTypeOK
<1>6. \A k \in buff .. StopAt - 1 : memory[k] \in Letters
  BY <1>5, <1>4 DEF StopOffsets, Offset, ReadTypeOK, Character
<1> QED
  BY <1>1, <1>2, <1>4, <1>6 DEF StopOffsets

(* The text between two offsets is a sequence of what is there.            *)
LEMMA TextType ==
  ASSUME NEW from \in Nat, NEW to \in Nat, from <= to,
         \A k \in from .. to - 1 : memory[k] \in Letters
  PROVE  Text(from, to) \in Seq(Letters)
<1>1. to - from \in Nat
  OBVIOUS
<1>2. Text(from, to) \in [1 .. to - from -> Letters]
  BY DEF Text
<1> QED
  BY <1>1, <1>2, SeqDef

(* It holds at the first call ...                                          *)
LEMMA ReadInitInv == ReadInit => ReadInv
<1> SUFFICES ASSUME ReadInit PROVE ReadInv
  OBVIOUS
<1>1. input \in Seq(Character)
  <2>1. PICK n \in 0 .. MaxInput : input \in [1 .. n -> Character]
    BY DEF ReadInit, Inputs
  <2> QED
    BY <2>1, SeqDef, MaxInputAssumption
<1>2. <<>> \in Seq(Letters) /\ <<>> \in Seq(Seq(Letters))
  BY EmptySeq
<1>3. ReadTypeOK
  BY <1>1, <1>2 DEF ReadInit, ReadTypeOK, Offset
<1> QED
  BY <1>3 DEF ReadInit, ReadInv, Closed, ScansSomething, LeftBehind

(* ... and after every step.                                               *)
LEMMA ReadStepInv == ReadInv /\ [ReadNext]_readVars => ReadInv'
<1> SUFFICES ASSUME ReadInv, [ReadNext]_readVars PROVE ReadInv'
  OBVIOUS
<1>a. ReadTypeOK /\ ~outside /\ Closed /\ ScansSomething
  BY DEF ReadInv
<1>1. CASE CallReadLine
  <2>1. ReadTypeOK'
    BY <1>a, <1>1, EmptySeq DEF CallReadLine, ReadTypeOK
  <2> QED
    BY <2>1, <1>a, <1>1 DEF CallReadLine, ReadInv, Closed, ScansSomething, LeftBehind, ReadTypeOK
<1>2. CASE EndLine
  <2>1. pc = "scan" /\ LeftBehind
    BY <1>a, <1>2 DEF EndLine, ScansSomething
  <2>2. /\ StopAt \in Offset /\ buff <= StopAt /\ StopAt <= rv
        /\ \A k \in buff .. StopAt - 1 : memory[k] \in Letters
    BY <1>a, <2>1, ScanStops
  <2>3. rv \in Offset /\ memory[rv] = NUL /\ StopAt # rv
    BY <1>a, <1>2, <2>1, <2>2
       DEF EndLine, Closed, ReadTypeOK, LeftBehind, Offset, NewLines, CR, LF, NUL
  <2>4. buff' \in Offset /\ buff' <= rv
    BY <1>a, <1>2, <2>2, <2>3
       DEF EndLine, SkipsSecond, ReadTypeOK, Offset, NewLines, CR, LF, NUL
  <2>5. lines' \in Seq(Seq(Letters))
    <3>1. Text(buff, StopAt) \in Seq(Letters)
      BY <2>2, <1>a, TextType DEF ReadTypeOK, Offset
    <3>2. sc \o Text(buff, StopAt) \in Seq(Letters)
      BY <3>1, <1>a, ConcatProperties DEF ReadTypeOK
    <3> QED
      BY <3>2, <1>2, <1>a, AppendProperties DEF EndLine, ReadTypeOK
  <2>6. memory' \in [Offset -> Character] /\ memory'[rv] = NUL
    BY <1>a, <1>2, <2>2, <2>3 DEF EndLine, ReadTypeOK, Character, Stops
  <2>7. ReadTypeOK'
    BY <1>a, <1>2, <2>4, <2>5, <2>6 DEF EndLine, ReadTypeOK
  <2> QED
    BY <2>7, <1>a, <1>2, <2>4, <2>6 DEF EndLine, ReadInv, Closed, ScansSomething, LeftBehind
<1>3. CASE KeepText
  <2>1. pc = "scan" /\ LeftBehind
    BY <1>a, <1>3 DEF KeepText, ScansSomething
  <2>2. /\ StopAt \in Offset /\ buff <= StopAt
        /\ \A k \in buff .. StopAt - 1 : memory[k] \in Letters
    BY <1>a, <2>1, ScanStops
  <2>3. Text(buff, StopAt) \in Seq(Letters)
    BY <2>2, <1>a, TextType DEF ReadTypeOK, Offset
  <2>4. sc' \in Seq(Letters)
    BY <2>3, <1>3, <1>a, ConcatProperties DEF ReadTypeOK, KeepText
  <2>5. ReadTypeOK'
    BY <2>4, <1>a, <1>3 DEF KeepText, ReadTypeOK, Offset
  <2> QED
    BY <2>5, <1>a, <1>3 DEF KeepText, ReadInv, Closed, ScansSomething
<1>4. CASE Fill
  <2>1. PICK n \in 1 .. ReadMax :
          /\ n <= Len(unread)
          /\ memory' = [k \in Offset |-> CASE k < n -> unread[k + 1]
                                           [] k = n -> NUL
                                           [] k > n -> memory[k]]
          /\ unread' = SubSeq(unread, n + 1, Len(unread))
          /\ rv' = n
          /\ outside' = (outside \/ n \notin Offset)
    BY <1>4 DEF Fill
  <2>2. n \in Offset /\ n \in Nat /\ n >= 1
    BY DEF ReadMax, Offset
  <2>3. unread \in Seq(Character) /\ Len(unread) \in Nat
        /\ \A k \in 1 .. Len(unread) : unread[k] \in Character
    BY <1>a, LenProperties, ElementOfSeq DEF ReadTypeOK
  <2>4. unread' \in Seq(Character)
    BY <2>1, <2>2, <2>3, SubSeqProperties
  <2>5. \A k \in Offset : memory'[k] \in Character
    <3> SUFFICES ASSUME NEW k \in Offset PROVE memory'[k] \in Character
      OBVIOUS
    <3>1. k \in Nat /\ memory[k] \in Character /\ NUL \in Character
      BY <1>a DEF Offset, ReadTypeOK, Character, Stops
    <3>2. memory'[k] = CASE k < n -> unread[k + 1] [] k = n -> NUL [] k > n -> memory[k]
      BY <2>1
    <3>3. CASE k < n
      BY <3>1, <3>2, <3>3, <2>1, <2>2, <2>3
    <3>4. CASE k = n
      BY <3>1, <3>2, <3>4, <2>2
    <3>5. CASE k > n
      BY <3>1, <3>2, <3>5, <2>2
    <3> QED
      BY <3>1, <2>2, <3>3, <3>4, <3>5
  <2>6. memory' \in [Offset -> Character]
    BY <2>1, <2>5
  <2>7. memory'[n] = NUL
    BY <2>1, <2>2
  <2>8. buff' = 0 /\ input' = input /\ sc' = sc /\ last' = last
        /\ pc' \in {"caller", "scan"} /\ lines' \in Seq(Seq(Letters))
    <3>1. Append(lines, sc) \in Seq(Seq(Letters)) /\ lines \in Seq(Seq(Letters))
      BY <1>a, AppendProperties DEF ReadTypeOK
    <3>2. (lines' = Append(lines, sc) /\ pc' = "caller") \/ (lines' = lines /\ pc' = "scan")
      BY <1>4, Zenon DEF Fill, Return
    <3>3. buff' = 0 /\ input' = input /\ sc' = sc /\ last' = last
      BY <1>4 DEF Fill
    <3> QED
      BY <3>1, <3>2, <3>3
  <2>9. outside' = FALSE
    BY <1>a, <2>1, <2>2
  <2>10. ReadTypeOK'
    BY <1>a, <2>1, <2>2, <2>4, <2>6, <2>8, <2>9 DEF ReadTypeOK, Offset
  <2> QED
    BY <2>1, <2>2, <2>7, <2>8, <2>9, <2>10 DEF ReadInv, Closed, ScansSomething, LeftBehind
<1>5. CASE ReadFinalFails
  <2>1. ReadTypeOK'
    BY <1>a, <1>5 DEF ReadFinalFails, ReadTypeOK, Offset
  <2> QED
    BY <2>1, <1>a, <1>5 DEF ReadFinalFails, ReadInv, Closed, ScansSomething
<1>6. CASE UNCHANGED readVars
  BY <1>a, <1>6 DEF readVars, ReadInv, ReadTypeOK, Closed, ScansSomething, LeftBehind
<1> QED
  BY <1>1, <1>2, <1>3, <1>4, <1>5, <1>6 DEF ReadNext

(* For every size of the buffer, every input and every cut of it the state *)
(* of ReadLine is well typed and the bounds of the buffer are kept.        *)
THEOREM ReadInvHolds == ReadSpec => []ReadInv
<1> QED
  BY ReadInitInv, ReadStepInv, PTL DEF ReadSpec

(* The types are those of the declaration (Stream.h:55 to 64).             *)
THEOREM ReadTypesHold == ReadSpec => []ReadTypeOK
<1>1. ReadInv => ReadTypeOK
  BY DEF ReadInv
<1> QED
  BY <1>1, ReadInvHolds, PTL

(* The scan of line 31 and the look ahead of line 35 never leave what the  *)
(* last read() has brought.                                                *)
THEOREM ScanStopsInTime == ReadSpec => []StopsInTime
<1>1. ReadInv => StopsInTime
  BY ScanStops DEF ReadInv, StopsInTime, Closed, ScansSomething
<1> QED
  BY <1>1, ReadInvHolds, PTL

-----------------------------------------------------------------------------
(* ReadLine: what the recursive definitions say.                           *)

(* There are functions that obey a recursion, for every length: one for    *)
(* m - 1 gives one for m.                                                  *)
Folded(n, T, base, step) ==
    {f \in [0 .. n -> T] :
        \A k \in 0 .. n : f[k] = IF k = 0 THEN base ELSE step[<<f[k - 1], k>>]}

LEMMA FoldExists ==
  ASSUME NEW n \in Nat, NEW T, NEW base \in T, NEW step \in [T \X (1 .. n) -> T]
  PROVE  Folded(n, T, base, step) # {}
<1> DEFINE Fold(m) == Folded(m, T, base, step)
           Bad == {m \in 0 .. n : Fold(m) = {}}
<1>1. SUFFICES ASSUME Bad # {} PROVE FALSE
  <2>1. n \in 0 .. n
    OBVIOUS
  <2> QED
    BY <2>1
<1>2. PICK m \in Bad : \A j \in 0 .. m - 1 : j \notin Bad
  <2>1. Bad \in SUBSET (0 .. n)
    OBVIOUS
  <2> HIDE DEF Bad
  <2> QED
    BY <1>1, <2>1, FirstOf
<1>3. m # 0
  <2>1. [k \in 0 .. 0 |-> base] \in Fold(0)
    BY DEF Folded
  <2> QED
    BY <2>1, <1>2
<1>4. m \in 1 .. n /\ m - 1 \in 0 .. n /\ Fold(m - 1) # {}
  <2>1. m \in 1 .. n /\ m - 1 \in 0 .. n /\ m - 1 \in 0 .. m - 1
    BY <1>2, <1>3
  <2> QED
    BY <2>1, <1>2
<1>5. PICK f \in [0 .. m - 1 -> T] :
         \A k \in 0 .. m - 1 : f[k] = IF k = 0 THEN base ELSE step[<<f[k - 1], k>>]
  BY <1>4 DEF Folded
<1> DEFINE g == [k \in 0 .. m |-> IF k = m THEN step[<<f[m - 1], m>>] ELSE f[k]]
<1>6. g \in [0 .. m -> T]
  <2>1. f[m - 1] \in T /\ <<f[m - 1], m>> \in T \X (1 .. n)
    BY <1>4
  <2>2. step[<<f[m - 1], m>>] \in T
    BY <2>1
  <2>3. \A k \in 0 .. m : k # m => f[k] \in T
    BY <1>4
  <2> QED
    BY <2>2, <2>3
<1>7. ASSUME NEW k \in 0 .. m
      PROVE  g[k] = IF k = 0 THEN base ELSE step[<<g[k - 1], k>>]
  <2>1. CASE k = m
    BY <2>1, <1>4
  <2>2. CASE k # m
    <3>1. k \in 0 .. m - 1 /\ g[k] = f[k]
      BY <2>2, <1>4
    <3>2. k # 0 => g[k - 1] = f[k - 1]
      BY <2>2, <1>4
    <3> QED
      BY <3>1, <3>2, <1>5
  <2> QED
    BY <2>1, <2>2
<1>8. g \in Fold(m)
  <2> HIDE DEF g
  <2> QED
    BY <1>6, <1>7 DEF Folded
<1> QED
  BY <1>2, <1>8

(* The function in NotBlank, and what it says.                             *)
KeptUpTo(ls) ==
    LET f[n \in 0 .. Len(ls)] ==
            IF n = 0 THEN <<>>
            ELSE IF ls[n] = <<>> THEN f[n - 1] ELSE Append(f[n - 1], ls[n])
    IN  f

LEMMA KeptEquation ==
  ASSUME NEW ls \in Seq(Seq(Letters))
  PROVE  /\ KeptUpTo(ls) \in [0 .. Len(ls) -> Seq(Seq(Letters))]
         /\ KeptUpTo(ls)[0] = <<>>
         /\ \A k \in 1 .. Len(ls) :
               KeptUpTo(ls)[k] = IF ls[k] = <<>> THEN KeptUpTo(ls)[k - 1]
                                 ELSE Append(KeptUpTo(ls)[k - 1], ls[k])
         /\ NotBlank(ls) = KeptUpTo(ls)[Len(ls)]
<1> DEFINE T == Seq(Seq(Letters))
           step == [x \in T \X (1 .. Len(ls)) |->
                      IF ls[x[2]] = <<>> THEN x[1] ELSE Append(x[1], ls[x[2]])]
<1>1. Len(ls) \in Nat /\ <<>> \in T /\ \A k \in 1 .. Len(ls) : ls[k] \in Seq(Letters)
  BY LenProperties, ElementOfSeq, EmptySeq
<1>2. step \in [T \X (1 .. Len(ls)) -> T]
  <2>1. \A t \in T, k \in 1 .. Len(ls) : Append(t, ls[k]) \in T
    BY <1>1, AppendProperties
  <2>2. \A x \in T \X (1 .. Len(ls)) :
           (IF ls[x[2]] = <<>> THEN x[1] ELSE Append(x[1], ls[x[2]])) \in T
    BY <2>1
  <2> QED
    BY <2>2
<1>3. PICK f \in [0 .. Len(ls) -> T] :
         \A k \in 0 .. Len(ls) : f[k] = IF k = 0 THEN <<>> ELSE step[<<f[k - 1], k>>]
  <2> HIDE DEF T, step
  <2>1. Folded(Len(ls), T, <<>>, step) # {}
    BY <1>1, <1>2, FoldExists
  <2> QED
    BY <2>1 DEF Folded
<1>4. ASSUME NEW k \in 0 .. Len(ls)
      PROVE  f[k] = IF k = 0 THEN <<>>
                    ELSE IF ls[k] = <<>> THEN f[k - 1] ELSE Append(f[k - 1], ls[k])
  <2>1. CASE k = 0
    BY <1>3, <2>1
  <2>2. CASE k # 0
    <3>1. k \in 1 .. Len(ls) /\ k - 1 \in 0 .. Len(ls)
      BY <1>1, <2>2
    <3>2. <<f[k - 1], k>> \in T \X (1 .. Len(ls))
      BY <1>3, <3>1
    <3>3. step[<<f[k - 1], k>>] = IF ls[k] = <<>> THEN f[k - 1] ELSE Append(f[k - 1], ls[k])
      BY <3>2
    <3> QED
      BY <1>3, <2>2, <3>3
  <2> QED
    BY <2>1, <2>2
<1>5. f = [k \in 0 .. Len(ls) |->
             IF k = 0 THEN <<>>
             ELSE IF ls[k] = <<>> THEN f[k - 1] ELSE Append(f[k - 1], ls[k])]
  <2>1. f = [k \in 0 .. Len(ls) |-> f[k]]
    BY <1>3
  <2> HIDE DEF T, step
  <2> QED
    BY <1>4, <2>1
<1> DEFINE K == KeptUpTo(ls)
<1>6. K = [k \in 0 .. Len(ls) |->
             IF k = 0 THEN <<>>
             ELSE IF ls[k] = <<>> THEN K[k - 1] ELSE Append(K[k - 1], ls[k])]
  BY <1>5, Zenon DEF KeptUpTo
<1>7. NotBlank(ls) = K[Len(ls)]
  BY DEF NotBlank, KeptUpTo
<1> HIDE DEF K
<1>8. /\ K[0] = <<>>
      /\ \A k \in 1 .. Len(ls) : K[k] = IF ls[k] = <<>> THEN K[k - 1]
                                        ELSE Append(K[k - 1], ls[k])
      /\ K = [k \in 0 .. Len(ls) |-> K[k]]
  <2> HIDE DEF T, step
  <2>1. \A k \in 0 .. Len(ls) :
           K[k] = IF k = 0 THEN <<>>
                  ELSE IF ls[k] = <<>> THEN K[k - 1] ELSE Append(K[k - 1], ls[k])
    BY <1>6, Zenon
  <2>2. K = [k \in 0 .. Len(ls) |-> K[k]]
    BY <1>6
  <2>3. 0 \in 0 .. Len(ls) /\ \A k \in 1 .. Len(ls) : k \in 0 .. Len(ls) /\ k # 0
    BY <1>1
  <2> QED
    BY <2>1, <2>2, <2>3
<1>9. \A k \in 0 .. Len(ls) : K[k] \in T
  <2> DEFINE Bad == {k \in 0 .. Len(ls) : K[k] \notin T}
  <2>1. SUFFICES ASSUME Bad # {} PROVE FALSE
    OBVIOUS
  <2>2. PICK k \in Bad : \A j \in 0 .. k - 1 : j \notin Bad
    <3>1. Bad \in SUBSET (0 .. Len(ls))
      OBVIOUS
    <3> HIDE DEF Bad
    <3> QED
      BY <1>1, <2>1, <3>1, FirstOf
  <2>3. k # 0
    BY <2>2, <1>1, <1>8
  <2>4. k \in 1 .. Len(ls) /\ K[k - 1] \in T
    BY <1>1, <2>2, <2>3
  <2>5. K[k] \in {K[k - 1], Append(K[k - 1], ls[k])} /\ ls[k] \in Seq(Letters)
    BY <1>1, <1>8, <2>4
  <2>6. Append(K[k - 1], ls[k]) \in T
    BY <2>4, <2>5, AppendProperties
  <2> QED
    BY <2>2, <2>4, <2>5, <2>6
<1> QED
  BY <1>7, <1>8, <1>9 DEF K

(* One line more.                                                          *)
LEMMA NotBlankAppend ==
  ASSUME NEW ls \in Seq(Seq(Letters)), NEW l \in Seq(Letters)
  PROVE  /\ NotBlank(Append(ls, l)) =
              IF l = <<>> THEN NotBlank(ls) ELSE Append(NotBlank(ls), l)
         /\ NotBlank(ls) \in Seq(Seq(Letters))
<1> DEFINE more == Append(ls, l)
           n    == Len(ls)
           K    == KeptUpTo(ls)
           M    == KeptUpTo(more)
<1>1. /\ n \in Nat /\ more \in Seq(Seq(Letters)) /\ Len(more) = n + 1
      /\ \A k \in 1 .. n : more[k] = ls[k]
      /\ more[n + 1] = l
  BY LenProperties, AppendProperties
<1>2. /\ K[0] = <<>> /\ NotBlank(ls) = K[n] /\ K \in [0 .. n -> Seq(Seq(Letters))]
      /\ \A k \in 1 .. n : K[k] = IF ls[k] = <<>> THEN K[k - 1] ELSE Append(K[k - 1], ls[k])
  BY KeptEquation
<1>3. /\ M[0] = <<>> /\ NotBlank(more) = M[n + 1]
      /\ \A k \in 1 .. n + 1 :
            M[k] = IF more[k] = <<>> THEN M[k - 1] ELSE Append(M[k - 1], more[k])
  <2> HIDE DEF more, n
  <2>1. /\ M[0] = <<>> /\ NotBlank(more) = M[Len(more)]
        /\ \A k \in 1 .. Len(more) :
              M[k] = IF more[k] = <<>> THEN M[k - 1] ELSE Append(M[k - 1], more[k])
    BY <1>1, KeptEquation
  <2> QED
    BY <1>1, <2>1
<1> HIDE DEF more, n, K, M
<1>4. M[n] = K[n]
  <2> DEFINE Bad == {k \in 0 .. n : M[k] # K[k]}
  <2>1. SUFFICES ASSUME Bad # {} PROVE FALSE
    <3>1. n \in 0 .. n
      BY <1>1
    <3> QED
      BY <3>1
  <2>2. PICK k \in Bad : \A j \in 0 .. k - 1 : j \notin Bad
    <3>1. Bad \in SUBSET (0 .. n)
      OBVIOUS
    <3> HIDE DEF Bad
    <3> QED
      BY <1>1, <2>1, <3>1, FirstOf
  <2>3. k # 0
    BY <2>2, <1>2, <1>3
  <2>4. k \in 1 .. n /\ k \in 1 .. n + 1 /\ k - 1 \in 0 .. k - 1 /\ k - 1 \in 0 .. n
    BY <1>1, <2>2, <2>3
  <2>5. M[k - 1] = K[k - 1]
    BY <2>2, <2>4
  <2> QED
    BY <1>1, <1>2, <1>3, <2>2, <2>4, <2>5
<1>5. n + 1 \in 1 .. n + 1 /\ (n + 1) - 1 = n /\ n \in 0 .. n
  BY <1>1
<1>6. NotBlank(more) = IF l = <<>> THEN K[n] ELSE Append(K[n], l)
  BY <1>1, <1>3, <1>4, <1>5
<1> QED
  BY <1>2, <1>5, <1>6 DEF more

WordsType == [done : Seq(Seq(Character)), open : Seq(Character)]

(* What the function Words says.                                           *)
LEMMA WordsEquation ==
  ASSUME NEW s \in Seq(Character)
  PROVE  /\ Words(s) \in [0 .. Len(s) -> WordsType]
         /\ Words(s)[0] = [done |-> <<>>, open |-> <<>>]
         /\ \A k \in 1 .. Len(s) : Words(s)[k] =
               IF s[k] \notin NewLines
               THEN [done |-> Words(s)[k - 1].done, open |-> Append(Words(s)[k - 1].open, s[k])]
               ELSE IF Words(s)[k - 1].open = <<>> THEN Words(s)[k - 1]
               ELSE [done |-> Append(Words(s)[k - 1].done, Words(s)[k - 1].open), open |-> <<>>]
<1> DEFINE After(w, c) == IF c \notin NewLines THEN [done |-> w.done, open |-> Append(w.open, c)]
                          ELSE IF w.open = <<>> THEN w
                          ELSE [done |-> Append(w.done, w.open), open |-> <<>>]
           base == [done |-> <<>>, open |-> <<>>]
           step == [x \in WordsType \X (1 .. Len(s)) |-> After(x[1], s[x[2]])]
<1>1. Len(s) \in Nat /\ base \in WordsType /\ \A k \in 1 .. Len(s) : s[k] \in Character
  BY LenProperties, ElementOfSeq, EmptySeq DEF WordsType
<1>2. \A w \in WordsType, c \in Character : After(w, c) \in WordsType
  <2> SUFFICES ASSUME NEW w \in WordsType, NEW c \in Character PROVE After(w, c) \in WordsType
    OBVIOUS
  <2>1. w.done \in Seq(Seq(Character)) /\ w.open \in Seq(Character)
    BY DEF WordsType
  <2>2. /\ Append(w.open, c) \in Seq(Character)
        /\ Append(w.done, w.open) \in Seq(Seq(Character))
        /\ <<>> \in Seq(Character)
    BY <2>1, AppendProperties, EmptySeq
  <2> QED
    BY <2>1, <2>2 DEF WordsType
<1>3. step \in [WordsType \X (1 .. Len(s)) -> WordsType]
  <2>1. \A x \in WordsType \X (1 .. Len(s)) : x[1] \in WordsType /\ s[x[2]] \in Character
    BY <1>1
  <2> HIDE DEF After
  <2> QED
    BY <1>2, <2>1
<1> HIDE DEF After
<1>4. PICK f \in [0 .. Len(s) -> WordsType] :
         \A k \in 0 .. Len(s) : f[k] = IF k = 0 THEN base ELSE step[<<f[k - 1], k>>]
  <2> HIDE DEF base, step
  <2>1. Folded(Len(s), WordsType, base, step) # {}
    BY <1>1, <1>3, FoldExists
  <2> QED
    BY <2>1 DEF Folded
<1>5. ASSUME NEW k \in 0 .. Len(s)
      PROVE  f[k] = IF k = 0 THEN base ELSE After(f[k - 1], s[k])
  <2> HIDE DEF base
  <2>1. CASE k = 0
    BY <1>4, <2>1
  <2>2. CASE k # 0
    <3>1. <<f[k - 1], k>> \in WordsType \X (1 .. Len(s))
      BY <1>1, <1>4, <2>2
    <3>2. step[<<f[k - 1], k>>] = After(f[k - 1], s[k])
      BY <3>1
    <3> QED
      BY <1>4, <2>2, <3>2
  <2> QED
    BY <2>1, <2>2
<1>6. f = [k \in 0 .. Len(s) |-> IF k = 0 THEN base ELSE After(f[k - 1], s[k])]
  <2>1. f = [k \in 0 .. Len(s) |-> f[k]]
    BY <1>4
  <2> HIDE DEF base, step
  <2> QED
    BY <1>5, <2>1
<1> DEFINE W == Words(s)
<1>7. W = [k \in 0 .. Len(s) |-> IF k = 0 THEN base ELSE After(W[k - 1], s[k])]
  BY <1>6, Zenon DEF Words, After
<1> HIDE DEF W
<1>8. /\ W[0] = base /\ W = [k \in 0 .. Len(s) |-> W[k]]
      /\ \A k \in 1 .. Len(s) : W[k] = After(W[k - 1], s[k])
  <2> HIDE DEF base, step
  <2>1. \A k \in 0 .. Len(s) : W[k] = IF k = 0 THEN base ELSE After(W[k - 1], s[k])
    BY <1>7, Zenon
  <2>2. W = [k \in 0 .. Len(s) |-> W[k]]
    BY <1>7
  <2>3. 0 \in 0 .. Len(s) /\ \A k \in 1 .. Len(s) : k \in 0 .. Len(s) /\ k # 0
    BY <1>1
  <2> QED
    BY <2>1, <2>2, <2>3
<1>9. \A k \in 0 .. Len(s) : W[k] \in WordsType
  <2> DEFINE Bad == {k \in 0 .. Len(s) : W[k] \notin WordsType}
  <2>1. SUFFICES ASSUME Bad # {} PROVE FALSE
    OBVIOUS
  <2>2. PICK k \in Bad : \A j \in 0 .. k - 1 : j \notin Bad
    <3>1. Bad \in SUBSET (0 .. Len(s))
      OBVIOUS
    <3> HIDE DEF Bad
    <3> QED
      BY <1>1, <2>1, <3>1, FirstOf
  <2>3. k # 0
    BY <2>2, <1>1, <1>8
  <2>4. k \in 1 .. Len(s) /\ W[k - 1] \in WordsType
    BY <1>1, <2>2, <2>3
  <2> QED
    BY <1>1, <1>2, <1>8, <2>2, <2>4
<1> QED
  BY <1>8, <1>9 DEF W, After

(* Text that follows a line end stays open ...                             *)
LEMMA TextOpens ==
  ASSUME NEW s \in Seq(Character), NEW n \in 0 .. Len(s), NEW L \in Seq(Letters),
         n + Len(L) <= Len(s), \A i \in 1 .. Len(L) : s[n + i] = L[i],
         NEW d, Words(s)[n] = [done |-> d, open |-> <<>>]
  PROVE  Words(s)[n + Len(L)] = [done |-> d, open |-> L]
<1> DEFINE m == Len(L)
           W == Words(s)
           Bad == {j \in 0 .. m : W[n + j] # [done |-> d, open |-> SubSeq(L, 1, j)]}
<1>1. m \in Nat /\ Len(s) \in Nat /\ \A i \in 1 .. m : L[i] \in Letters
  BY LenProperties, ElementOfSeq
<1>2. SubSeq(L, 1, m) = L /\ SubSeq(L, 1, 0) = <<>>
  BY SubSeqFull, SubSeqEmpty
<1>3. \A c \in Letters : c \notin NewLines
  BY DEF NewLines, Stops
<1>4. \A k \in 1 .. Len(s) : s[k] \notin NewLines =>
         W[k] = [done |-> W[k - 1].done, open |-> Append(W[k - 1].open, s[k])]
  BY WordsEquation
<1>5. ASSUME NEW j \in 1 .. m PROVE Append(SubSeq(L, 1, j - 1), L[j]) = SubSeq(L, 1, j)
  <2>1. \A i \in 1 .. j : L[i] \in Letters
    BY <1>1
  <2>2. /\ SubSeq(L, 1, j) \in Seq(Letters) /\ Len(SubSeq(L, 1, j)) = j
        /\ \A i \in 1 .. j : SubSeq(L, 1, j)[i] = L[i]
    BY <1>1, <2>1, SubSeqProperties
  <2>3. /\ SubSeq(L, 1, j - 1) \in Seq(Letters) /\ Len(SubSeq(L, 1, j - 1)) = j - 1
        /\ \A i \in 1 .. j - 1 : SubSeq(L, 1, j - 1)[i] = L[i]
    <3>1. \A i \in 1 .. j - 1 : L[i] \in Letters
      BY <1>1
    <3> QED
      BY <1>1, <3>1, SubSeqProperties
  <2> DEFINE a == Append(SubSeq(L, 1, j - 1), L[j])
  <2>4. /\ a \in Seq(Letters) /\ Len(a) = j /\ a[j] = L[j]
        /\ \A i \in 1 .. j - 1 : a[i] = L[i]
    <3>1. Len(SubSeq(L, 1, j - 1)) + 1 = j /\ L[j] \in Letters
      BY <1>1, <2>3
    <3> QED
      BY <2>3, <3>1, AppendProperties
  <2> HIDE DEF a
  <2>5. \A i \in 1 .. j : a[i] = SubSeq(L, 1, j)[i]
    BY <2>2, <2>4
  <2>6. a = SubSeq(L, 1, j)
    BY <2>2, <2>4, <2>5, SeqEqual
  <2> QED
    BY <2>6 DEF a
<1> HIDE DEF W, m
<1>6. SUFFICES ASSUME Bad # {} PROVE FALSE
  <2>1. m \in 0 .. m
    BY <1>1
  <2> QED
    BY <1>2, <2>1 DEF m, W
<1>7. PICK j \in Bad : \A i \in 0 .. j - 1 : i \notin Bad
  <2>1. Bad \in SUBSET (0 .. m)
    OBVIOUS
  <2> HIDE DEF Bad
  <2> QED
    BY <1>1, <1>6, <2>1, FirstOf
<1>8. j # 0
  <2>1. n + 0 = n
    BY <1>1
  <2> QED
    BY <1>2, <1>7, <2>1 DEF W
<1>9. j \in 1 .. m /\ j - 1 \in 0 .. m /\ j - 1 \in 0 .. j - 1
      /\ n + j \in 1 .. Len(s) /\ (n + j) - 1 = n + (j - 1)
  BY <1>1, <1>7, <1>8 DEF m
<1>10. W[n + (j - 1)] = [done |-> d, open |-> SubSeq(L, 1, j - 1)]
  BY <1>7, <1>9
<1>11. s[n + j] = L[j] /\ s[n + j] \notin NewLines
  BY <1>1, <1>3, <1>9 DEF m
<1>12. W[n + j] = [done |-> d, open |-> Append(SubSeq(L, 1, j - 1), L[j])]
  <2>1. W[n + j] = [done |-> W[(n + j) - 1].done, open |-> Append(W[(n + j) - 1].open, s[n + j])]
    BY <1>4, <1>9, <1>11
  <2>2. W[(n + j) - 1].done = d /\ W[(n + j) - 1].open = SubSeq(L, 1, j - 1)
    BY <1>9, <1>10
  <2> QED
    BY <1>11, <2>1, <2>2
<1> QED
  BY <1>5, <1>7, <1>9, <1>12

(* ... until a line end makes it a line, and a second one nothing more.    *)
LEMMA LineEnds ==
  ASSUME NEW s \in Seq(Character), NEW k \in 1 .. Len(s), s[k] \in NewLines
  PROVE  Words(s)[k] =
            [done |-> IF Words(s)[k - 1].open = <<>> THEN Words(s)[k - 1].done
                      ELSE Append(Words(s)[k - 1].done, Words(s)[k - 1].open),
             open |-> <<>>]
<1> DEFINE w == Words(s)[k - 1]
<1>1. Words(s)[k] = IF w.open = <<>> THEN w
                    ELSE [done |-> Append(w.done, w.open), open |-> <<>>]
  BY WordsEquation
<1>2. w = [done |-> w.done, open |-> w.open]
  <2>1. k - 1 \in 0 .. Len(s)
    BY LenProperties
  <2>2. w \in WordsType
    BY <2>1, WordsEquation
  <2> QED
    BY <2>2 DEF WordsType
<1> HIDE DEF w
<1>3. Words(s)[k] = [done |-> IF w.open = <<>> THEN w.done ELSE Append(w.done, w.open),
                     open |-> <<>>]
  BY <1>1, <1>2
<1> QED
  BY <1>3 DEF w

-----------------------------------------------------------------------------
(* ReadLine: what is ahead.                                                *)

(* Where the elements of three sequences in a row are.                     *)
LEMMA ThreeParts ==
  ASSUME NEW S, NEW a \in Seq(S), NEW b \in Seq(S), NEW c \in Seq(S)
  PROVE  /\ a \o b \o c \in Seq(S)
         /\ Len(a \o b \o c) = Len(a) + Len(b) + Len(c)
         /\ \A i \in 1 .. Len(a) : (a \o b \o c)[i] = a[i]
         /\ \A i \in 1 .. Len(b) : (a \o b \o c)[Len(a) + i] = b[i]
         /\ \A i \in 1 .. Len(c) : (a \o b \o c)[Len(a) + Len(b) + i] = c[i]
<1> DEFINE ab == a \o b
<1>1. Len(a) \in Nat /\ Len(b) \in Nat /\ Len(c) \in Nat
  BY LenProperties
<1>2. /\ ab \in Seq(S) /\ Len(ab) = Len(a) + Len(b)
      /\ \A i \in 1 .. Len(a) + Len(b) : ab[i] = IF i <= Len(a) THEN a[i] ELSE b[i - Len(a)]
  BY ConcatProperties
<1> HIDE DEF ab
<1>3. /\ ab \o c \in Seq(S) /\ Len(ab \o c) = Len(ab) + Len(c)
      /\ \A i \in 1 .. Len(ab) + Len(c) :
            (ab \o c)[i] = IF i <= Len(ab) THEN ab[i] ELSE c[i - Len(ab)]
  BY <1>2, ConcatProperties
<1>4. ASSUME NEW i \in 1 .. Len(a) PROVE (ab \o c)[i] = a[i]
  BY <1>1, <1>2, <1>3
<1>5. ASSUME NEW i \in 1 .. Len(b) PROVE (ab \o c)[Len(a) + i] = b[i]
  <2>1. /\ Len(a) + i \in 1 .. Len(ab) + Len(c) /\ Len(a) + i <= Len(ab)
        /\ Len(a) + i \in 1 .. Len(a) + Len(b) /\ ~(Len(a) + i <= Len(a))
        /\ (Len(a) + i) - Len(a) = i
    BY <1>1, <1>2
  <2> QED
    BY <1>2, <1>3, <2>1
<1>6. ASSUME NEW i \in 1 .. Len(c) PROVE (ab \o c)[Len(a) + Len(b) + i] = c[i]
  <2>1. /\ Len(a) + Len(b) + i \in 1 .. Len(ab) + Len(c)
        /\ ~(Len(a) + Len(b) + i <= Len(ab)) /\ (Len(a) + Len(b) + i) - Len(ab) = i
    BY <1>1, <1>2
  <2> QED
    BY <1>3, <2>1
<1> QED
  BY <1>2, <1>3, <1>4, <1>5, <1>6 DEF ab

(* A part of the memory as a sequence.                                     *)
LEMMA CutOut ==
  ASSUME NEW S, NEW m, NEW from \in Nat, NEW to \in Nat, from <= to,
         \A k \in from .. to - 1 : m[k] \in S,
         NEW t, t = [i \in 1 .. to - from |-> m[from + i - 1]]
  PROVE  /\ t \in Seq(S) /\ Len(t) = to - from
         /\ \A i \in 1 .. to - from : t[i] = m[from + i - 1]
<1>1. to - from \in Nat
  OBVIOUS
<1>2. \A i \in 1 .. to - from : from + i - 1 \in from .. to - 1
  OBVIOUS
<1>3. t \in [1 .. to - from -> S]
  BY <1>2
<1>4. t \in Seq(S)
  BY <1>1, <1>3, SeqDef
<1>5. Len(t) = to - from
  BY <1>1, <1>3, <1>4, LenProperties
<1> QED
  BY <1>4, <1>5

(* What has been read and not looked at lies between buff and rv.          *)
LEMMA RestIs ==
  ASSUME ReadInv
  PROVE  /\ Rest \in Seq(Character)
         /\ pc = "read" => Rest = <<>>
         /\ pc \in {"caller", "scan"} =>
               /\ buff \in Offset /\ rv \in Offset /\ buff <= rv
               /\ Len(Rest) = rv - buff
               /\ \A i \in 1 .. rv - buff : Rest[i] = memory[buff + i - 1]
         /\ pc = "scan" => Rest = Text(buff, rv) /\ LeftBehind
<1>0. ReadTypeOK /\ Closed /\ ScansSomething
  BY DEF ReadInv
<1>1. /\ <<>> \in Seq(Character) /\ Len(<<>>) = 0
      /\ buff \in Nat /\ buff \in Offset /\ rv \in Int
      /\ rv > buff => rv \in Offset /\ \A k \in buff .. rv - 1 : memory[k] \in Character
  BY <1>0, EmptySeq DEF ReadTypeOK, Offset
<1>2. CASE LeftBehind /\ pc # "read"
  <2>1. rv > buff /\ rv \in Nat
    BY <1>1, <1>2 DEF LeftBehind, Offset
  <2>2. Text(buff, rv) = [i \in 1 .. rv - buff |-> memory[buff + i - 1]]
    BY DEF Text
  <2>3. /\ Text(buff, rv) \in Seq(Character) /\ Len(Text(buff, rv)) = rv - buff
        /\ \A i \in 1 .. rv - buff : Text(buff, rv)[i] = memory[buff + i - 1]
    BY <1>1, <2>1, <2>2, CutOut
  <2>4. Rest = Text(buff, rv)
    BY <1>2 DEF Rest
  <2> QED
    BY <1>1, <1>2, <2>1, <2>3, <2>4
<1>3. CASE ~(LeftBehind /\ pc # "read")
  <2>1. Rest = <<>> /\ pc # "scan"
    BY <1>0, <1>3 DEF Rest, ScansSomething
  <2>2. pc = "caller" => rv = buff
    BY <1>0, <1>1, <1>3 DEF Closed, LeftBehind
  <2> QED
    BY <1>1, <2>1, <2>2
<1> QED
  BY <1>2, <1>3

(* The text of this call, and what is ahead with it.                       *)
Collected == IF pc = "caller" THEN <<>> ELSE sc

LEMMA AheadIs ==
  ASSUME ReadInv
  PROVE  /\ Ahead = Collected \o Rest \o unread
         /\ Collected \in Seq(Character) /\ Collected \in Seq(Letters)
         /\ Rest \in Seq(Character) /\ unread \in Seq(Character) /\ input \in Seq(Character)
         /\ Ahead \in Seq(Character)
         /\ Len(Ahead) = Len(Collected) + Len(Rest) + Len(unread)
         /\ \A i \in 1 .. Len(Collected) : Ahead[i] = Collected[i]
         /\ \A i \in 1 .. Len(Rest) : Ahead[Len(Collected) + i] = Rest[i]
         /\ \A i \in 1 .. Len(unread) : Ahead[Len(Collected) + Len(Rest) + i] = unread[i]
<1>1. Ahead = Collected \o Rest \o unread
  BY DEF Ahead, Collected
<1>2. Collected \in Seq(Letters) /\ unread \in Seq(Character) /\ input \in Seq(Character)
  BY EmptySeq DEF Collected, ReadInv, ReadTypeOK
<1>3. Collected \in Seq(Character)
  BY <1>2, SeqMonotonic DEF Character
<1>4. Rest \in Seq(Character)
  BY RestIs
<1> QED
  BY <1>1, <1>2, <1>3, <1>4, ThreeParts

(* The rest of a sequence.                                                 *)
LEMMA FromThere ==
  ASSUME NEW S, NEW s \in Seq(S), NEW n \in 0 .. Len(s)
  PROVE  /\ SubSeq(s, n + 1, Len(s)) \in Seq(S)
         /\ Len(SubSeq(s, n + 1, Len(s))) = Len(s) - n
         /\ \A i \in 1 .. Len(s) - n : SubSeq(s, n + 1, Len(s))[i] = s[n + i]
<1> DEFINE t == SubSeq(s, n + 1, Len(s))
<1>1. Len(s) \in Nat /\ \A i \in 1 .. Len(s) : s[i] \in S
  BY LenProperties, ElementOfSeq
<1>2. \A i \in n + 1 .. Len(s) : s[i] \in S
  BY <1>1
<1> HIDE DEF t
<1>3. /\ t \in Seq(S) /\ Len(t) = IF n + 1 <= Len(s) THEN Len(s) - (n + 1) + 1 ELSE 0
      /\ \A i \in 1 .. Len(s) - (n + 1) + 1 : t[i] = s[(n + 1) + i - 1]
  BY <1>1, <1>2, SubSeqProperties DEF t
<1>4. t \in Seq(S) /\ Len(t) = Len(s) - n /\ \A i \in 1 .. Len(s) - n : t[i] = s[n + i]
  BY <1>1, <1>3
<1> QED
  BY <1>4 DEF t

(* What is ahead is a part of the input, and has no NUL if that has none.  *)
LEMMA AheadOfInput ==
  ASSUME ReadInv, Without(NUL, input), NEW n \in 0 .. Len(input),
         Ahead = SubSeq(input, n + 1, Len(input))
  PROVE  /\ Len(input) \in Nat /\ Len(Ahead) = Len(input) - n
         /\ \A i \in 1 .. Len(Ahead) : /\ n + i \in 1 .. Len(input)
                                       /\ Ahead[i] = input[n + i] /\ Ahead[i] # NUL
<1> DEFINE A == Ahead
<1>1. Len(input) \in Nat /\ DOMAIN input = 1 .. Len(input)
  BY AheadIs, LenProperties
<1>2. Len(A) = Len(input) - n /\ \A i \in 1 .. Len(input) - n : A[i] = input[n + i]
  <2>1. input \in Seq(Character)
    BY AheadIs
  <2>2. /\ Len(SubSeq(input, n + 1, Len(input))) = Len(input) - n
        /\ \A i \in 1 .. Len(input) - n : SubSeq(input, n + 1, Len(input))[i] = input[n + i]
    BY <2>1, FromThere, Zenon
  <2> QED
    BY <2>2, Zenon
<1> HIDE DEF A
<1>3. ASSUME NEW i \in 1 .. Len(A)
      PROVE  n + i \in 1 .. Len(input) /\ A[i] = input[n + i] /\ A[i] # NUL
  <2>1. n + i \in DOMAIN input /\ n + i \in 1 .. Len(input) /\ i \in 1 .. Len(input) - n
    BY <1>1, <1>2
  <2>2. A[i] = input[n + i]
    BY <1>2, <2>1
  <2>3. input[n + i] # NUL
    BY <2>1 DEF Without
  <2> QED
    BY <2>1, <2>2, <2>3
<1> QED
  BY <1>1, <1>2, <1>3 DEF A

(* What is ahead and what was returned decide WordsKept.                   *)
LEMMA AheadStays ==
  ASSUME WordsKept, Without(NUL, input) => Ahead' = Ahead, UNCHANGED <<input, lines>>
  PROVE  WordsKept'
  BY DEF WordsKept, Without

-----------------------------------------------------------------------------
(* ReadLine: no line is cut, joined, doubled or lost.                      *)

(* The text moves from the buffer to what is collected.                    *)
LEMMA KeepTextKeeps ==
  ASSUME ReadInv, WordsKept, KeepText
  PROVE  WordsKept'
<1> SUFFICES ASSUME Without(NUL, input) PROVE Ahead' = Ahead
  BY AheadStays DEF KeepText
<1>1. PICK n \in 0 .. Len(input) : Ahead = SubSeq(input, n + 1, Len(input))
  BY DEF WordsKept
<1>2. /\ pc = "scan" /\ pc' = "read" /\ memory[StopAt] = NUL /\ unread' = unread
      /\ sc' = sc \o Text(buff, StopAt) /\ LeftBehind /\ Rest = Text(buff, rv)
  BY RestIs DEF KeepText
<1>3. StopAt \in Offset /\ buff <= StopAt /\ StopAt <= rv
  BY <1>2, ScanStops DEF ReadInv
<1>4. /\ buff \in Nat /\ rv \in Nat /\ StopAt \in Nat /\ Len(Rest) = rv - buff
      /\ \A i \in 1 .. rv - buff : Rest[i] = memory[buff + i - 1]
      /\ Len(Collected) \in Nat /\ Len(unread) \in Nat
  BY <1>2, <1>3, RestIs, AheadIs, LenProperties DEF Offset
<1>5. StopAt = rv
  <2> SUFFICES ASSUME StopAt < rv PROVE FALSE
    BY <1>3, <1>4
  <2> DEFINE i == StopAt - buff + 1
  <2>1. /\ i \in 1 .. Len(Rest) /\ buff + i - 1 = StopAt
        /\ Len(Collected) + i \in 1 .. Len(Ahead)
    BY <1>3, <1>4, AheadIs
  <2> HIDE DEF i
  <2>2. Ahead[Len(Collected) + i] = NUL
    BY <1>2, <1>4, <2>1, AheadIs
  <2> QED
    BY <1>1, <2>1, <2>2, AheadOfInput
<1>6. Ahead = sc \o Rest \o unread
  BY <1>2, AheadIs DEF Collected
<1>7. Ahead' = (sc \o Rest) \o <<>> \o unread
  BY <1>2, <1>5 DEF Ahead, Rest
<1>8. sc \o Rest \in Seq(Character)
  BY <1>2, AheadIs, ConcatProperties DEF Collected
<1> QED
  BY <1>6, <1>7, <1>8, ConcatEmptySeq

(* read() moves it from what is to come into the buffer.                   *)
LEMMA FillKeeps ==
  ASSUME ReadInv, WordsKept, Fill
  PROVE  WordsKept'
<1>0. pc = "read" /\ input' = input /\ sc' = sc /\ buff' = 0
  BY DEF Fill
<1>1. PICK m \in 1 .. ReadMax :
        /\ m <= Len(unread)
        /\ memory' = [k \in Offset |-> CASE k < m -> unread[k + 1]
                                         [] k = m -> NUL
                                         [] k > m -> memory[k]]
        /\ unread' = SubSeq(unread, m + 1, Len(unread))
        /\ rv' = m
  BY DEF Fill
<1>2. /\ m \in Nat /\ m >= 1 /\ unread \in Seq(Character) /\ Len(unread) \in Nat
      /\ \A k \in 1 .. Len(unread) : unread[k] \in Character
      /\ \A k \in 0 .. m - 1 : k \in Offset /\ memory'[k] = unread[k + 1]
  <2>1. m \in Nat /\ m >= 1 /\ \A k \in 0 .. m - 1 : k \in Offset /\ k < m
    BY DEF ReadMax, Offset
  <2>2. ASSUME NEW k \in Offset, k < m PROVE memory'[k] = unread[k + 1]
    <3>1. memory'[k] = CASE k < m -> unread[k + 1] [] k = m -> NUL [] k > m -> memory[k]
      BY <1>1
    <3>2. k \in Nat /\ ~(k = m) /\ ~(k > m)
      BY <2>1, <2>2 DEF Offset
    <3> QED
      BY <2>2, <3>1, <3>2
  <2> QED
    BY <2>1, <2>2, AheadIs, LenProperties, ElementOfSeq
<1> SUFFICES ASSUME Without(NUL, input) PROVE WordsKept'
  BY <1>0 DEF WordsKept, Without
<1>3. PICK n \in 0 .. Len(input) : Ahead = SubSeq(input, n + 1, Len(input))
  BY DEF WordsKept
<1>4. Collected = sc /\ Rest = <<>> /\ Len(Rest) = 0
  BY <1>0, RestIs, EmptySeq DEF Collected
<1>5. unread[1] # NUL
  <2>1. Len(sc) \in Nat /\ 1 \in 1 .. Len(unread) /\ Len(sc) + 0 + 1 \in 1 .. Len(Ahead)
    BY <1>1, <1>2, <1>4, AheadIs, LenProperties
  <2>2. Ahead[Len(sc) + 0 + 1] = unread[1]
    BY <1>4, <2>1, AheadIs
  <2> QED
    BY <1>3, <2>1, <2>2, AheadOfInput
<1>6. memory'[0] # NUL
  BY <1>2, <1>5
<1>7. lines' = lines /\ pc' = "scan"
  BY <1>6 DEF Fill
<1>8. Rest' = [i \in 1 .. m |-> memory'[i - 1]]
  <2>1. Rest' = Text(0, m)'
    BY <1>0, <1>1, <1>2, <1>7 DEF Rest, LeftBehind
  <2>2. m - 0 = m /\ \A i \in 1 .. m : 0 + i - 1 = i - 1
    BY <1>2
  <2> QED
    BY <2>1, <2>2 DEF Text
<1>9. Rest' = SubSeq(unread, 1, m)
  <2>1. /\ SubSeq(unread, 1, m) \in Seq(Character) /\ Len(SubSeq(unread, 1, m)) = m
        /\ \A i \in 1 .. m : SubSeq(unread, 1, m)[i] = unread[i]
    <3>1. \A i \in 1 .. m : unread[i] \in Character
      BY <1>1, <1>2
    <3> QED
      BY <1>2, <3>1, SubSeqProperties
  <2>2. \A i \in 1 .. m : memory'[i - 1] = unread[i]
    BY <1>2
  <2>3. SubSeq(unread, 1, m) \in [1 .. m -> Character]
    BY <2>1, LenProperties
  <2>4. SubSeq(unread, 1, m) = [i \in 1 .. m |-> unread[i]]
    BY <2>1, <2>3
  <2> QED
    BY <1>8, <2>2, <2>4
<1>10. Rest' \o unread' = unread
  <2>1. SubSeq(unread, 1, m) \o SubSeq(unread, m + 1, Len(unread)) = SubSeq(unread, 1, Len(unread))
    BY <1>1, <1>2, ConcatAdjacentSubSeq
  <2> QED
    BY <1>1, <1>2, <1>9, <2>1, SubSeqFull
<1>11. Ahead' = sc \o Rest' \o unread'
  BY <1>0, <1>7 DEF Ahead
<1>12. Ahead = sc \o unread
  <2>1. Ahead = sc \o <<>> \o unread
    BY <1>4, AheadIs
  <2> QED
    BY <1>4, <2>1, AheadIs, ConcatEmptySeq
<1>13. (sc \o Rest') \o unread' = sc \o (Rest' \o unread')
  <2>1. Rest' \in Seq(Character) /\ unread' \in Seq(Character) /\ sc \in Seq(Character)
    <3>1. \A i \in m + 1 .. Len(unread) : unread[i] \in Character
      BY <1>2
    <3>2. \A i \in 1 .. m : unread[i] \in Character
      BY <1>1, <1>2
    <3> QED
      BY <1>1, <1>2, <1>4, <1>9, <3>1, <3>2, AheadIs, SubSeqProperties
  <2> QED
    BY <2>1, ConcatAssociative
<1> QED
  BY <1>0, <1>7, <1>10, <1>11, <1>12, <1>13, AheadStays

(* The rest of the buffer after a line has been cut out of it.             *)
LEMMA AheadAfterLine ==
  ASSUME ReadInv, EndLine, NEW d \in Nat, d = Len(sc) + (buff' - buff)
  PROVE  /\ d <= Len(Ahead)
         /\ Ahead' \in Seq(Character)
         /\ Len(Ahead') = Len(Ahead) - d
         /\ \A i \in 1 .. Len(Ahead) - d : Ahead'[i] = Ahead[d + i]
<1>0. ReadTypeOK /\ Closed /\ ScansSomething
  BY DEF ReadInv
<1>1. /\ pc = "scan" /\ pc' = "caller" /\ unread' = unread /\ rv' = rv
      /\ memory' = [memory EXCEPT ![StopAt] = NUL]
      /\ memory[StopAt] \in NewLines
      /\ buff' = IF SkipsSecond(StopAt + 1) THEN StopAt + 2 ELSE StopAt + 1
  BY DEF EndLine
<1> DEFINE b == buff'
           k == StopAt
           m == memory'
           R == Rest'
           A == Ahead
           B == Ahead'
<1>2. /\ k \in Nat /\ buff \in Nat /\ b \in Nat /\ rv \in Nat /\ rv <= BufferSize - 1
      /\ buff <= k /\ k < rv /\ k < b /\ b <= rv
  <2>1. LeftBehind /\ memory[rv] = NUL /\ rv \in Offset
    BY <1>0, <1>1 DEF ScansSomething, Closed, ReadTypeOK, LeftBehind, Offset
  <2>2. k \in Offset /\ buff <= k /\ k <= rv /\ k # rv
    BY <1>0, <1>1, <2>1, ScanStops DEF NewLines, CR, LF, NUL
  <2>3. b \in {k + 1, k + 2} /\ (b = k + 2 => k + 1 # rv)
    <3>1. b = IF SkipsSecond(k + 1) THEN k + 2 ELSE k + 1
      BY <1>1
    <3>2. SkipsSecond(k + 1) => k + 1 # rv
      BY <2>1 DEF SkipsSecond, NewLines, CR, LF, NUL
    <3> HIDE DEF b, k
    <3>3. k \in Nat
      BY <2>2 DEF Offset
    <3> QED
      BY <3>1, <3>2, <3>3
  <2>4. buff \in Nat
    BY <1>0 DEF ReadTypeOK, Offset
  <2> HIDE DEF b, k
  <2> QED
    BY <2>1, <2>2, <2>3, <2>4 DEF Offset
<1>3. /\ m = [memory EXCEPT ![k] = NUL]
      /\ R = IF rv > b THEN [i \in 1 .. rv - b |-> m[b + i - 1]] ELSE <<>>
      /\ d = Len(sc) + (b - buff)
  BY <1>1 DEF Rest, LeftBehind, Text
<1> HIDE DEF b, k, m, R, A, B
<1>4. /\ Len(Rest) = rv - buff /\ Len(sc) \in Nat /\ Len(unread) \in Nat
      /\ unread \in Seq(Character)
      /\ \A i \in 1 .. rv - buff : Rest[i] = memory[buff + i - 1]
      /\ Len(A) = Len(sc) + (rv - buff) + Len(unread)
      /\ \A i \in 1 .. rv - buff : A[Len(sc) + i] = Rest[i]
      /\ \A i \in 1 .. Len(unread) : A[Len(sc) + (rv - buff) + i] = unread[i]
  <2>1. Collected = sc
    BY <1>1 DEF Collected
  <2>2. Len(Collected) \in Nat /\ Len(unread) \in Nat
    BY AheadIs, LenProperties
  <2>3. /\ Len(Rest) = rv - buff
        /\ \A i \in 1 .. rv - buff : Rest[i] = memory[buff + i - 1]
    BY <1>1, RestIs
  <2> QED
    BY <2>1, <2>2, <2>3, AheadIs DEF A
<1>5. /\ R \in Seq(Character) /\ Len(R) = rv - b
      /\ \A i \in 1 .. rv - b : R[i] = m[b + i - 1]
  <2>1. CASE rv > b
    <3>1. R = [i \in 1 .. rv - b |-> m[b + i - 1]]
      BY <1>3, <2>1
    <3>2. \A j \in b .. rv - 1 : m[j] \in Character
      BY <1>0, <1>2, <1>3 DEF ReadTypeOK, Offset, Character, Stops
    <3> QED
      BY <1>2, <3>1, <3>2, CutOut
  <2>2. CASE ~(rv > b)
    <3>1. R = <<>> /\ rv - b = 0
      BY <1>2, <1>3, <2>2
    <3>2. <<>> \in Seq(Character) /\ Len(<<>>) = 0
      BY EmptySeq
    <3> QED
      BY <3>1, <3>2
  <2> QED
    BY <2>1, <2>2
<1>6. ASSUME NEW i \in 1 .. rv - b
      PROVE  b - buff + i \in 1 .. rv - buff /\ R[i] = Rest[b - buff + i]
  <2>1. /\ b - buff + i \in 1 .. rv - buff /\ buff + (b - buff + i) - 1 = b + i - 1
        /\ b + i - 1 \in Offset /\ b + i - 1 # k
    BY <1>2 DEF Offset
  <2>2. m[b + i - 1] = memory[b + i - 1]
    BY <1>0, <1>3, <2>1 DEF ReadTypeOK
  <2> QED
    BY <1>4, <1>5, <2>1, <2>2
<1>7. B = R \o unread
  <2>1. B = <<>> \o R \o unread
    BY <1>1 DEF Ahead, B, R
  <2> QED
    BY <1>5, <2>1, ConcatEmptySeq
<1>8. /\ B \in Seq(Character) /\ Len(B) = (rv - b) + Len(unread)
      /\ \A i \in 1 .. (rv - b) + Len(unread) :
            B[i] = IF i <= rv - b THEN R[i] ELSE unread[i - (rv - b)]
  <2>1. /\ R \o unread \in Seq(Character) /\ Len(R \o unread) = Len(R) + Len(unread)
        /\ \A i \in 1 .. Len(R) + Len(unread) :
              (R \o unread)[i] = IF i <= Len(R) THEN R[i] ELSE unread[i - Len(R)]
    BY <1>4, <1>5, ConcatProperties
  <2>2. Len(R) = rv - b
    BY <1>5
  <2> QED
    BY <1>7, <2>1, <2>2
<1>9. /\ d <= Len(A) /\ Len(B) = Len(A) - d /\ Len(A) - d = (rv - b) + Len(unread)
      /\ d = Len(sc) + (b - buff) /\ Len(sc) \in Nat /\ Len(unread) \in Nat
  <2>1. /\ Len(A) = Len(sc) + (rv - buff) + Len(unread)
        /\ Len(sc) \in Nat /\ Len(unread) \in Nat
    BY <1>4
  <2>2. Len(B) = (rv - b) + Len(unread) /\ d = Len(sc) + (b - buff)
    BY <1>3, <1>8
  <2> QED
    BY <1>2, <2>1, <2>2
<1>10. ASSUME NEW i \in 1 .. Len(A) - d PROVE B[i] = A[d + i]
  <2>1. i \in 1 .. (rv - b) + Len(unread)
    BY <1>9
  <2>2. CASE i <= rv - b
    <3>1. /\ i \in 1 .. rv - b /\ b - buff + i \in 1 .. rv - buff
          /\ Len(sc) + (b - buff + i) = d + i
      BY <1>2, <1>9, <2>1, <2>2
    <3>2. B[i] = R[i] /\ R[i] = Rest[b - buff + i]
      BY <1>6, <1>8, <2>1, <2>2, <3>1
    <3> QED
      BY <1>4, <3>1, <3>2
  <2>3. CASE ~(i <= rv - b)
    <3>1. /\ i - (rv - b) \in 1 .. Len(unread)
          /\ Len(sc) + (rv - buff) + (i - (rv - b)) = d + i
      BY <1>2, <1>9, <2>1, <2>3
    <3> QED
      BY <1>4, <1>8, <2>1, <2>3, <3>1
  <2> QED
    BY <2>2, <2>3
<1> QED
  BY <1>8, <1>9, <1>10 DEF A, B

(* The line that is returned is what stands ahead up to the line end.      *)
LEMMA LineAhead ==
  ASSUME ReadInv, EndLine
  PROVE  \E L \in Seq(Letters) :
            /\ lines' = Append(lines, L)
            /\ \A i \in 1 .. Len(L) : L[i] = Ahead[i]
            /\ Len(L) + 1 <= Len(Ahead)
            /\ Ahead[Len(L) + 1] \in NewLines
            /\ \/ Len(sc) + (buff' - buff) = Len(L) + 1
               \/ /\ Len(sc) + (buff' - buff) = Len(L) + 2
                  /\ Len(L) + 2 <= Len(Ahead)
                  /\ Ahead[Len(L) + 2] \in NewLines
<1>0. ReadTypeOK /\ Closed /\ ScansSomething
  BY DEF ReadInv
<1> DEFINE k == StopAt
           T == Text(buff, k)
           L == sc \o T
           A == Ahead
<1>1. /\ pc = "scan" /\ memory[k] \in NewLines /\ lines' = Append(lines, L)
      /\ buff' = IF SkipsSecond(k + 1) THEN k + 2 ELSE k + 1
  BY DEF EndLine
<1>2. /\ k \in Nat /\ buff \in Nat /\ rv \in Nat /\ memory[rv] = NUL
      /\ buff <= k /\ k < rv
      /\ \A j \in buff .. k - 1 : memory[j] \in Letters
  <2>1. LeftBehind /\ memory[rv] = NUL /\ rv \in Offset
    BY <1>0, <1>1 DEF ScansSomething, Closed, ReadTypeOK, LeftBehind, Offset
  <2>2. /\ StopAt \in Offset /\ buff <= StopAt /\ StopAt <= rv
        /\ \A j \in buff .. StopAt - 1 : memory[j] \in Letters
    BY <1>0, <1>1, <2>1, ScanStops
  <2>3. StopAt # rv
    BY <1>1, <2>1 DEF NewLines, CR, LF, NUL
  <2> QED
    BY <1>0, <2>1, <2>2, <2>3 DEF ReadTypeOK, Offset
<1>3. SkipsSecond(k + 1) => memory[k + 1] \in NewLines /\ k + 1 < rv
  <2>1. SkipsSecond(k + 1) => memory[k + 1] \in NewLines /\ k + 1 # rv
    BY <1>2 DEF SkipsSecond, NewLines, CR, LF, NUL
  <2> HIDE DEF k
  <2> QED
    BY <1>2, <2>1
<1> HIDE DEF k
<1>4. /\ T \in Seq(Letters) /\ Len(T) = k - buff
      /\ \A i \in 1 .. k - buff : T[i] = memory[buff + i - 1]
  <2>1. T = [i \in 1 .. k - buff |-> memory[buff + i - 1]]
    BY DEF Text
  <2> HIDE DEF T
  <2> QED
    BY <1>2, <2>1, CutOut
<1> HIDE DEF T
<1>5. /\ Collected = sc /\ sc \in Seq(Letters) /\ Len(sc) \in Nat /\ Len(unread) \in Nat
      /\ Len(Rest) = rv - buff
      /\ \A i \in 1 .. rv - buff : Rest[i] = memory[buff + i - 1]
  <2>1. Collected = sc
    BY <1>1 DEF Collected
  <2>2. Collected \in Seq(Letters) /\ Len(Collected) \in Nat /\ Len(unread) \in Nat
    BY AheadIs, LenProperties
  <2> QED
    BY <1>1, <2>1, <2>2, RestIs
<1>6. /\ L \in Seq(Letters) /\ Len(L) = Len(sc) + (k - buff)
      /\ \A i \in 1 .. Len(sc) + (k - buff) :
            L[i] = IF i <= Len(sc) THEN sc[i] ELSE T[i - Len(sc)]
  BY <1>4, <1>5, ConcatProperties
<1>7. /\ Len(A) = Len(sc) + (rv - buff) + Len(unread)
      /\ \A i \in 1 .. Len(sc) : A[i] = sc[i]
      /\ \A i \in 1 .. rv - buff : A[Len(sc) + i] = memory[buff + i - 1]
  BY <1>5, AheadIs
<1> HIDE DEF A, L
<1>8. ASSUME NEW i \in 1 .. Len(L) PROVE L[i] = A[i]
  <2>1. CASE i <= Len(sc)
    <3>1. i \in 1 .. Len(sc) /\ i \in 1 .. Len(sc) + (k - buff)
      BY <1>2, <1>5, <1>6, <2>1
    <3> QED
      BY <1>6, <1>7, <2>1, <3>1
  <2>2. CASE ~(i <= Len(sc))
    <3>1. /\ i - Len(sc) \in 1 .. k - buff /\ i - Len(sc) \in 1 .. rv - buff
          /\ Len(sc) + (i - Len(sc)) = i /\ i \in 1 .. Len(sc) + (k - buff)
      BY <1>2, <1>5, <1>6, <2>2
    <3> QED
      BY <1>4, <1>6, <1>7, <2>2, <3>1
  <2> QED
    BY <2>1, <2>2
<1>9. ASSUME NEW j \in k .. rv - 1
      PROVE  /\ Len(L) + (j - k) + 1 <= Len(A)
             /\ A[Len(L) + (j - k) + 1] = memory[j]
  <2>1. /\ j - buff + 1 \in 1 .. rv - buff /\ buff + (j - buff + 1) - 1 = j
        /\ Len(sc) + (j - buff + 1) = Len(L) + (j - k) + 1
    BY <1>2, <1>5, <1>6
  <2>2. Len(L) + (j - k) + 1 <= Len(A)
    BY <1>2, <1>5, <1>6, <1>7
  <2> QED
    BY <1>7, <2>1, <2>2
<1>10. Len(L) + 1 <= Len(A) /\ A[Len(L) + 1] \in NewLines
  <2>1. k \in k .. rv - 1 /\ Len(L) + (k - k) + 1 = Len(L) + 1
    BY <1>2, <1>5, <1>6
  <2> QED
    BY <1>1, <1>9, <2>1
<1>11. \/ Len(sc) + (buff' - buff) = Len(L) + 1
       \/ /\ Len(sc) + (buff' - buff) = Len(L) + 2
          /\ Len(L) + 2 <= Len(A) /\ A[Len(L) + 2] \in NewLines
  <2>1. CASE SkipsSecond(k + 1)
    <3>1. /\ k + 1 \in k .. rv - 1 /\ Len(L) + ((k + 1) - k) + 1 = Len(L) + 2
          /\ Len(sc) + (buff' - buff) = Len(L) + 2
      BY <1>1, <1>2, <1>3, <1>5, <1>6, <2>1
    <3> QED
      BY <1>3, <1>9, <2>1, <3>1
  <2>2. CASE ~SkipsSecond(k + 1)
    BY <1>1, <1>2, <1>5, <1>6, <2>2
  <2> QED
    BY <2>1, <2>2
<1> QED
  BY <1>1, <1>6, <1>8, <1>10, <1>11 DEF A

(* A line more, and its end is no longer ahead.                            *)
LEMMA EndLineKeeps ==
  ASSUME ReadInv, WordsKept, EndLine
  PROVE  WordsKept'
<1>1. input' = input
  BY DEF EndLine
<1> SUFFICES ASSUME Without(NUL, input) PROVE WordsKept'
  BY <1>1 DEF WordsKept, Without
<1>2. PICK n \in 0 .. Len(input) :
         /\ Ahead = SubSeq(input, n + 1, Len(input))
         /\ Words(input)[n] = [done |-> NotBlank(lines), open |-> <<>>]
  BY DEF WordsKept
<1>3. PICK L \in Seq(Letters) :
         /\ lines' = Append(lines, L)
         /\ \A i \in 1 .. Len(L) : L[i] = Ahead[i]
         /\ Len(L) + 1 <= Len(Ahead)
         /\ Ahead[Len(L) + 1] \in NewLines
         /\ \/ Len(sc) + (buff' - buff) = Len(L) + 1
            \/ /\ Len(sc) + (buff' - buff) = Len(L) + 2
               /\ Len(L) + 2 <= Len(Ahead)
               /\ Ahead[Len(L) + 2] \in NewLines
  BY LineAhead
<1> DEFINE A == Ahead
           B == Ahead'
           d == Len(sc) + (buff' - buff)
           done == NotBlank(lines')
<1>4. /\ Len(input) \in Nat /\ Len(A) = Len(input) - n
      /\ \A i \in 1 .. Len(A) : n + i \in 1 .. Len(input) /\ A[i] = input[n + i]
  BY <1>2, AheadOfInput
<1>5. Len(L) \in Nat /\ input \in Seq(Character) /\ lines \in Seq(Seq(Letters))
  BY AheadIs, LenProperties DEF ReadInv, ReadTypeOK
<1>6. done = IF L = <<>> THEN NotBlank(lines) ELSE Append(NotBlank(lines), L)
  BY <1>3, <1>5, NotBlankAppend
<1>7. Words(input)[n + Len(L)] = [done |-> NotBlank(lines), open |-> L]
  <2>1. n + Len(L) <= Len(input)
    <3> HIDE DEF A
    <3>1. Len(L) + 1 <= Len(A)
      BY <1>3 DEF A
    <3> QED
      BY <1>4, <1>5, <3>1
  <2>2. \A i \in 1 .. Len(L) : input[n + i] = L[i]
    <3>1. \A i \in 1 .. Len(L) : i \in 1 .. Len(A)
      <4> HIDE DEF A
      <4>1. Len(L) + 1 <= Len(A)
        BY <1>3 DEF A
      <4> QED
        BY <1>4, <1>5, <4>1
    <3> QED
      BY <1>3, <1>4, <3>1
  <2> QED
    BY <1>2, <1>5, <2>1, <2>2, TextOpens
<1>8. /\ d \in {Len(L) + 1, Len(L) + 2} /\ d \in Nat
      /\ Len(L) + 1 <= Len(A) /\ A[Len(L) + 1] \in NewLines
      /\ d = Len(L) + 2 => Len(L) + 2 <= Len(A) /\ A[Len(L) + 2] \in NewLines
  <2> HIDE DEF d
  <2>1. \/ d = Len(L) + 1
        \/ d = Len(L) + 2 /\ Len(L) + 2 <= Len(A) /\ A[Len(L) + 2] \in NewLines
    BY <1>3 DEF d
  <2> HIDE DEF A
  <2>2. Len(L) + 1 <= Len(A) /\ A[Len(L) + 1] \in NewLines
    BY <1>3 DEF A
  <2> QED
    BY <1>5, <2>1, <2>2
<1>9. /\ d <= Len(A) /\ B \in Seq(Character) /\ Len(B) = Len(A) - d
      /\ \A i \in 1 .. Len(A) - d : B[i] = A[d + i]
  BY <1>8, AheadAfterLine
<1> HIDE DEF A, B, d, done
<1>10. Words(input)[n + Len(L) + 1] = [done |-> done, open |-> <<>>]
  <2> DEFINE k == n + Len(L) + 1
  <2>1. /\ k \in 1 .. Len(input) /\ k - 1 = n + Len(L)
        /\ n + (Len(L) + 1) = k /\ Len(L) + 1 \in 1 .. Len(A)
    BY <1>4, <1>5, <1>8
  <2>2. input[k] \in NewLines
    BY <1>4, <1>8, <2>1
  <2> HIDE DEF k
  <2>3. /\ Words(input)[k - 1].done = NotBlank(lines)
        /\ Words(input)[k - 1].open = L
    BY <1>7, <2>1
  <2>4. k \in 1 .. Len(input)
    BY <2>1
  <2>5. Words(input)[k] =
           [done |-> IF Words(input)[k - 1].open = <<>> THEN Words(input)[k - 1].done
                     ELSE Append(Words(input)[k - 1].done, Words(input)[k - 1].open),
            open |-> <<>>]
    BY <1>5, <2>2, <2>4, LineEnds
  <2> QED
    BY <1>6, <2>3, <2>5 DEF k
<1>11. Words(input)[n + d] = [done |-> done, open |-> <<>>]
  <2>1. CASE d = Len(L) + 1
    <3>1. n + d = n + Len(L) + 1
      BY <1>5, <2>1
    <3> QED
      BY <1>10, <3>1
  <2>2. CASE d = Len(L) + 2
    <3>1. /\ n + d \in 1 .. Len(input) /\ (n + d) - 1 = n + Len(L) + 1
          /\ d \in 1 .. Len(A)
      BY <1>4, <1>5, <1>8, <2>2
    <3>2. input[n + d] \in NewLines
      BY <1>4, <1>8, <2>2, <3>1
    <3>3. Words(input)[(n + d) - 1] = [done |-> done, open |-> <<>>]
      BY <1>10, <3>1
    <3> QED
      BY <1>5, <3>1, <3>2, <3>3, LineEnds
  <2> QED
    BY <1>8, <2>1, <2>2
<1>12. n + d \in 0 .. Len(input)
  BY <1>4, <1>8, <1>9
<1>13. B = SubSeq(input, (n + d) + 1, Len(input))
  <2> DEFINE S == SubSeq(input, (n + d) + 1, Len(input))
  <2>1. /\ S \in Seq(Character) /\ Len(S) = Len(input) - (n + d)
        /\ \A i \in 1 .. Len(input) - (n + d) : S[i] = input[(n + d) + i]
    BY <1>5, <1>12, FromThere, Zenon
  <2> HIDE DEF S
  <2>2. Len(B) = Len(S) /\ Len(B) = Len(input) - (n + d)
    BY <1>4, <1>8, <1>9, <2>1
  <2>3. ASSUME NEW i \in 1 .. Len(B) PROVE B[i] = S[i]
    <3>1. /\ i \in 1 .. Len(A) - d /\ d + i \in 1 .. Len(A)
          /\ n + (d + i) = (n + d) + i /\ i \in 1 .. Len(input) - (n + d)
      BY <1>4, <1>8, <1>9, <2>2
    <3> QED
      BY <1>4, <1>9, <2>1, <3>1
  <2>4. B = S
    BY <1>9, <2>1, <2>2, <2>3, SeqEqual
  <2> QED
    BY <2>4 DEF S
<1> QED
  BY <1>1, <1>11, <1>12, <1>13 DEF WordsKept, B, done

(* However read() cuts what is sent, for every size of the buffer and text *)
(* of any length: the lines returned are those of the text, whole, once    *)
(* and in order, and the rest of it is still ahead (lines 28 to 57).       *)
THEOREM WordsAreKept == ReadSpec => []WordsKept
<1>1. ReadInit => WordsKept
  <2> SUFFICES ASSUME ReadInit PROVE WordsKept
    OBVIOUS
  <2>1. ReadInv /\ input \in Seq(Character) /\ Len(input) \in Nat
    BY ReadInitInv, LenProperties DEF ReadInv, ReadTypeOK
  <2>2. /\ unread = input /\ pc = "caller" /\ rv = 0 /\ buff = 0 /\ lines = <<>>
    BY DEF ReadInit
  <2>3. Collected = <<>> /\ Rest = <<>>
    BY <2>2 DEF Collected, Rest, LeftBehind
  <2>4. Ahead = <<>> \o <<>> \o input
    BY <2>1, <2>2, <2>3, AheadIs
  <2>5. Ahead = SubSeq(input, 0 + 1, Len(input))
    <3>1. <<>> \o <<>> = <<>> /\ <<>> \o input = input
      BY <2>1, EmptySeq, ConcatEmptySeq
    <3> QED
      BY <2>1, <2>4, <3>1, SubSeqFull
  <2>6. Words(input)[0] = [done |-> <<>>, open |-> <<>>]
    BY <2>1, WordsEquation
  <2>7. NotBlank(lines) = <<>>
    <3>1. <<>> \in Seq(Seq(Letters)) /\ Len(<<>>) = 0
      BY EmptySeq
    <3> QED
      BY <2>2, <3>1, KeptEquation
  <2> QED
    BY <2>1, <2>5, <2>6, <2>7 DEF WordsKept
<1>2. ReadInv /\ WordsKept /\ [ReadNext]_readVars => WordsKept'
  <2> SUFFICES ASSUME ReadInv, WordsKept, [ReadNext]_readVars PROVE WordsKept'
    OBVIOUS
  <2>1. CASE CallReadLine
    <3>1. /\ input' = input /\ lines' = lines /\ unread' = unread
          /\ pc = "caller" /\ sc' = <<>> /\ rv' = rv /\ buff' = buff /\ memory' = memory
          /\ pc' = IF LeftBehind THEN "scan" ELSE "read"
      BY <2>1 DEF CallReadLine
    <3>2. Rest' = Rest
      BY <3>1 DEF Rest, LeftBehind, Text
    <3>3. Ahead' = Ahead
      BY <3>1, <3>2 DEF Ahead
    <3> QED
      BY <3>1, <3>3, AheadStays
  <2>2. CASE EndLine
    BY <2>2, EndLineKeeps
  <2>3. CASE KeepText
    BY <2>3, KeepTextKeeps
  <2>4. CASE Fill
    BY <2>4, FillKeeps
  <2>5. CASE ReadFinalFails
    <3>1. /\ input' = input /\ lines' = lines /\ unread' = unread /\ sc' = sc
          /\ pc = "read" /\ pc' = "over" /\ buff' = 0 /\ rv' \in {0, -1}
      BY <2>5 DEF ReadFinalFails
    <3>2. Rest = <<>> /\ Rest' = <<>>
      BY <3>1 DEF Rest, LeftBehind
    <3>3. Ahead' = Ahead
      BY <3>1, <3>2 DEF Ahead
    <3> QED
      BY <3>1, <3>3, AheadStays
  <2>6. CASE UNCHANGED readVars
    <3>1. input' = input /\ lines' = lines
      BY <2>6 DEF readVars
    <3>2. Rest' = Rest
      BY <2>6 DEF readVars, Rest, LeftBehind, Text
    <3>3. Ahead' = Ahead
      BY <2>6, <3>2 DEF readVars, Ahead
    <3> QED
      BY <3>1, <3>3, AheadStays
  <2> QED
    BY <2>1, <2>2, <2>3, <2>4, <2>5, <2>6 DEF ReadNext
<1> QED
  BY <1>1, <1>2, ReadInvHolds, PTL DEF ReadSpec

-----------------------------------------------------------------------------
(* Descriptors: who has which end open.                                    *)

(* Which of the six ends of its pipes a host still has open, by where it   *)
(* is, whether ReadPid has met the end of the third, and whether another   *)
(* thread is deleting its game.                                            *)
BeforeClose(h) == host[h].pc \in {"fork", "closePid", "readPid", "close"}

HasPidW(h) == host[h].pc \in {"fork", "closePid"}
HasPidR(h) == \/ host[h].pc \in {"fork", "closePid", "readPid"}
              \/ host[h].pc = "close" /\ host[h].known
HasToW(h)  == \/ BeforeClose(h) \/ host[h].pc = "return"
              \/ host[h].pc \in {"run", "ended"} /\ stopper[h] = "none"
HasFromR(h) == \/ BeforeClose(h) \/ host[h].pc = "return"
               \/ host[h].pc = "run" /\ stopper[h] # "deleted"

Keeps(h, k, e) ==
    \/ BeforeClose(h) /\ k = host[h].to.r   /\ e = Own(h, "to", "r")
    \/ HasToW(h)      /\ k = host[h].to.w   /\ e = Own(h, "to", "w")
    \/ HasFromR(h)    /\ k = host[h].from.r /\ e = Own(h, "from", "r")
    \/ BeforeClose(h) /\ k = host[h].from.w /\ e = Own(h, "from", "w")
    \/ HasPidR(h)     /\ k = host[h].pid.r  /\ e = Own(h, "pid", "r")
    \/ HasPidW(h)     /\ k = host[h].pid.w  /\ e = Own(h, "pid", "w")

(* What a host or an admin has open is what its numbers stand for ...      *)
HoldTheirs ==
    /\ \A h \in Hosts : \A k \in {None} \cup Numbers, e \in PipeEnd :
          Keeps(h, k, e) => k \in Numbers /\ table[k] = e
    /\ \A a \in Admins : admin[a].pc = "open" =>
          admin[a].number \in Numbers /\ table[admin[a].number] = SocketOf(a)

(* ... and there are no other ends of pipes.                               *)
NoOthers ==
    \A k \in Numbers : table[k] \in PipeEnd => \E h \in Hosts : Keeps(h, k, table[k])

(* This is so until a number is closed in somebody else's hands; the last  *)
(* part, until a pipe() fails.                                             *)
Holdings == foreign = {} => HoldTheirs /\ (~leaked => NoOthers)

(* Whoever has begun has counted his launch, and only a game that runs or  *)
(* has just ended is deleted.                                              *)
Launched == \A h \in Hosts :
               /\ host[h].pc # "idle" => host[h].n # 0
               /\ stopper[h] # "none" => host[h].pc \in {"run", "ended", "gone"}

Inv == TypeOK /\ Launched /\ Holdings

-----------------------------------------------------------------------------
(* Descriptors: the lowest free numbers.                                   *)

FreeUpTo(k) == {j \in FreeNumbers : j <= k}

(* A number's rank counts the free ones up to it ...                       *)
LEMMA RankNat ==
  ASSUME NEW k
  PROVE  /\ IsFiniteSet(FreeUpTo(k)) /\ Rank(k) = Cardinality(FreeUpTo(k))
         /\ Rank(k) \in Nat
         /\ IsFiniteSet(FreeNumbers) /\ Cardinality(FreeNumbers) \in Nat
         /\ Rank(k) <= Cardinality(FreeNumbers)
         /\ FreeNumbers \subseteq Numbers /\ Numbers \subseteq Nat
<1>1. IsFiniteSet(Numbers) /\ Numbers \subseteq Nat
  BY FS_Interval DEF Numbers
<1>2. FreeNumbers \subseteq Numbers /\ FreeUpTo(k) \subseteq FreeNumbers
  BY DEF FreeNumbers, FreeUpTo
<1>3. IsFiniteSet(FreeNumbers)
  BY <1>1, <1>2, FS_Subset
<1>4. /\ IsFiniteSet(FreeUpTo(k))
      /\ Cardinality(FreeUpTo(k)) <= Cardinality(FreeNumbers)
  BY <1>2, <1>3, FS_Subset
<1>5. Rank(k) = Cardinality(FreeUpTo(k))
  BY DEF Rank, FreeUpTo
<1> QED
  BY <1>1, <1>2, <1>3, <1>4, <1>5, FS_CardinalityType

(* ... and grows by one with each of them ...                              *)
LEMMA RankStep ==
  ASSUME NEW k \in Numbers
  PROVE  Rank(k) = IF k \in FreeNumbers THEN Rank(k - 1) + 1 ELSE Rank(k - 1)
<1>1. /\ IsFiniteSet(FreeUpTo(k - 1)) /\ Rank(k) = Cardinality(FreeUpTo(k))
      /\ Rank(k - 1) = Cardinality(FreeUpTo(k - 1)) /\ FreeNumbers \subseteq Nat
      /\ k \in Nat
  BY RankNat
<1>2. k \notin FreeUpTo(k - 1)
  BY <1>1 DEF FreeUpTo
<1>3. \A j \in FreeNumbers : j <= k <=> j <= k - 1 \/ j = k
  BY <1>1
<1>4. CASE k \in FreeNumbers
  <2>1. FreeUpTo(k) = FreeUpTo(k - 1) \cup {k}
    BY <1>1, <1>3, <1>4 DEF FreeUpTo
  <2> QED
    BY <1>1, <1>2, <1>4, <2>1, FS_AddElement
<1>5. CASE k \notin FreeNumbers
  <2>1. FreeUpTo(k) = FreeUpTo(k - 1)
    BY <1>1, <1>3, <1>5 DEF FreeUpTo
  <2> QED
    BY <1>1, <1>5, <2>1
<1> QED
  BY <1>4, <1>5

(* Of two free numbers the lower one has the lower rank.                   *)
LEMMA RankGrows ==
  ASSUME NEW j \in FreeNumbers, NEW k \in FreeNumbers, j < k
  PROVE  Rank(j) < Rank(k)
<1>0. j \in Nat /\ k \in Numbers /\ k \in Nat /\ FreeNumbers \subseteq Nat
  BY RankNat
<1>1. j <= k - 1
  BY <1>0
<1>2. FreeUpTo(j) \subseteq FreeUpTo(k - 1)
  <2>1. \A i \in FreeNumbers : i <= j => i <= k - 1
    BY <1>0, <1>1
  <2> QED
    BY <2>1 DEF FreeUpTo
<1>3. Rank(j) <= Rank(k - 1)
  BY <1>2, RankNat, FS_Subset
<1>4. Rank(k) = Rank(k - 1) + 1
  BY <1>0, RankStep
<1>5. Rank(j) \in Nat /\ Rank(k - 1) \in Nat
  BY RankNat
<1> QED
  BY <1>3, <1>4, <1>5

(* ... so each free number has a place among them, and each place a number.*)
LEMMA NthFreeProperties ==
  /\ \A i \in 1 .. Cardinality(FreeNumbers) :
        NthFree(i) \in FreeNumbers /\ Rank(NthFree(i)) = i
  /\ \A k \in FreeNumbers : /\ Rank(k) \in 1 .. Cardinality(FreeNumbers)
                            /\ k = NthFree(Rank(k))
<1>1. ASSUME NEW i \in 1 .. Cardinality(FreeNumbers)
      PROVE  \E k \in FreeNumbers : Rank(k) = i
  <2> DEFINE S == {k \in 0 .. MaxNumber : Rank(k) >= i}
  <2>1. FreeUpTo(MaxNumber) = FreeNumbers
    BY DEF FreeUpTo, FreeNumbers, Numbers
  <2>2. MaxNumber \in S
    BY <2>1, RankNat
  <2>3. PICK k \in S : \A j \in 0 .. k - 1 : j \notin S
    <3>1. S \in SUBSET (0 .. MaxNumber) /\ S # {}
      BY <2>2
    <3> HIDE DEF S
    <3> QED
      BY <3>1, FirstOf
  <2>4. Rank(0) = 0
    <3>1. FreeUpTo(0) = {}
      BY DEF FreeUpTo, FreeNumbers, Numbers
    <3> QED
      BY <3>1, RankNat, FS_EmptySet
  <2>5. k \in Numbers /\ k - 1 \in 0 .. k - 1 /\ k - 1 \in 0 .. MaxNumber
    <3>1. k # 0
      BY <2>3, <2>4
    <3> QED
      BY <2>3, <3>1 DEF Numbers
  <2>6. ~(Rank(k - 1) >= i) /\ Rank(k) >= i
    BY <2>3, <2>5
  <2>7. Rank(k) = IF k \in FreeNumbers THEN Rank(k - 1) + 1 ELSE Rank(k - 1)
    BY <2>5, RankStep
  <2>8. Rank(k - 1) \in Nat /\ Rank(k) \in Nat
    BY RankNat
  <2> QED
    BY <2>6, <2>7, <2>8
<1>2. ASSUME NEW i \in 1 .. Cardinality(FreeNumbers)
      PROVE  NthFree(i) \in FreeNumbers /\ Rank(NthFree(i)) = i
  BY <1>1 DEF NthFree
<1>3. ASSUME NEW k \in FreeNumbers
      PROVE  Rank(k) \in 1 .. Cardinality(FreeNumbers)
  <2>1. k \in Numbers /\ Rank(k) = Rank(k - 1) + 1
    BY RankStep, RankNat
  <2>2. Rank(k - 1) \in Nat /\ Rank(k) <= Cardinality(FreeNumbers)
        /\ Cardinality(FreeNumbers) \in Nat
    BY RankNat
  <2> QED
    BY <2>1, <2>2
<1>4. ASSUME NEW k \in FreeNumbers
      PROVE  k = NthFree(Rank(k))
  <2>1. NthFree(Rank(k)) \in FreeNumbers /\ Rank(NthFree(Rank(k))) = Rank(k)
    BY <1>2, <1>3
  <2>2. k \in Nat /\ NthFree(Rank(k)) \in Nat /\ Rank(k) \in Nat
    BY <2>1, RankNat
  <2>3. ~(k < NthFree(Rank(k))) /\ ~(NthFree(Rank(k)) < k)
    BY <2>1, <2>2, RankGrows
  <2> QED
    BY <2>2, <2>3
<1> QED
  BY <1>2, <1>3, <1>4

(* What the pipes of a launch are.                                         *)
LEMMA SixPipes ==
  ASSUME NEW l, Cardinality(FreeNumbers) >= 6, table' = WithPipes(l, 3)
  PROVE  /\ \A i \in 1 .. 6 : NthFree(i) \in Numbers /\ table[NthFree(i)] = Free
         /\ table'[NthFree(1)] = PipeOf(l, "to", "r")
         /\ table'[NthFree(2)] = PipeOf(l, "to", "w")
         /\ table'[NthFree(3)] = PipeOf(l, "from", "r")
         /\ table'[NthFree(4)] = PipeOf(l, "from", "w")
         /\ table'[NthFree(5)] = PipeOf(l, "pid", "r")
         /\ table'[NthFree(6)] = PipeOf(l, "pid", "w")
         /\ \A k \in Numbers : \/ table'[k] = table[k]
                               \/ \E i \in 1 .. 6 : k = NthFree(i)
<1>1. \A i \in 1 .. 6 : i \in 1 .. Cardinality(FreeNumbers)
  <2>1. Cardinality(FreeNumbers) \in Nat
    BY RankNat
  <2> QED
    BY <2>1
<1>2. \A i \in 1 .. 6 : /\ NthFree(i) \in Numbers /\ table[NthFree(i)] = Free
                        /\ Rank(NthFree(i)) = i
  BY <1>1, NthFreeProperties DEF FreeNumbers
<1>3. \A i \in 1 .. 6 :
         table'[NthFree(i)] = PipeOf(l, PipeNames[(i + 1) \div 2], IF i % 2 = 1 THEN "r" ELSE "w")
  BY <1>2 DEF WithPipes
<1>4. /\ (1 + 1) \div 2 = 1 /\ (2 + 1) \div 2 = 1 /\ (3 + 1) \div 2 = 2
      /\ (4 + 1) \div 2 = 2 /\ (5 + 1) \div 2 = 3 /\ (6 + 1) \div 2 = 3
      /\ 1 % 2 = 1 /\ 2 % 2 = 0 /\ 3 % 2 = 1 /\ 4 % 2 = 0 /\ 5 % 2 = 1 /\ 6 % 2 = 0
  OBVIOUS
<1>5. PipeNames[1] = "to" /\ PipeNames[2] = "from" /\ PipeNames[3] = "pid"
  BY DEF PipeNames
<1>6. ASSUME NEW k \in Numbers, table'[k] # table[k]
      PROVE  \E i \in 1 .. 6 : k = NthFree(i)
  <2>1. k \in FreeNumbers /\ Rank(k) <= 6
    BY <1>6 DEF WithPipes, FreeNumbers
  <2>2. Rank(k) \in 1 .. 6 /\ k = NthFree(Rank(k))
    BY <2>1, NthFreeProperties, RankNat
  <2> QED
    BY <2>2
<1>7. /\ table'[NthFree(1)] = PipeOf(l, "to", "r")
      /\ table'[NthFree(2)] = PipeOf(l, "to", "w")
  BY <1>3, <1>4, <1>5
<1>8. /\ table'[NthFree(3)] = PipeOf(l, "from", "r")
      /\ table'[NthFree(4)] = PipeOf(l, "from", "w")
  BY <1>3, <1>4, <1>5
<1>9. /\ table'[NthFree(5)] = PipeOf(l, "pid", "r")
      /\ table'[NthFree(6)] = PipeOf(l, "pid", "w")
  BY <1>3, <1>4, <1>5
<1> QED
  BY <1>2, <1>6, <1>7, <1>8, <1>9

-----------------------------------------------------------------------------
(* What the parts of the module say.                                       *)

(* The types of the records.                                               *)
HostType  == [pc : {"idle", "fork", "closePid", "readPid", "close", "return", "run",
                    "ended", "gone"},
              n : 0 .. MaxLaunches, known : BOOLEAN,
              to : NumberPair, from : NumberPair, pid : NumberPair]
AdminType == [pc : {"away", "open", "notice", "close", "closeAgain", "gone"},
              number : {None} \cup Numbers]

LEMMA HostTypes ==
  ASSUME TypeOK, NEW h \in Hosts
  PROVE  /\ host \in [Hosts -> HostType] /\ host[h] \in HostType
         /\ host[h].to.r \in {None} \cup Numbers /\ host[h].to.w \in {None} \cup Numbers
         /\ host[h].from.r \in {None} \cup Numbers /\ host[h].from.w \in {None} \cup Numbers
         /\ host[h].pid.r \in {None} \cup Numbers /\ host[h].pid.w \in {None} \cup Numbers
         /\ host[h].known \in BOOLEAN /\ host[h].n \in 0 .. MaxLaunches
<1>1. host \in [Hosts -> HostType]
  BY DEF TypeOK, HostType
<1>2. host[h] \in HostType
  BY <1>1
<1>3. host[h].to \in NumberPair /\ host[h].from \in NumberPair /\ host[h].pid \in NumberPair
      /\ host[h].known \in BOOLEAN /\ host[h].n \in 0 .. MaxLaunches
  BY <1>2 DEF HostType
<1> QED
  BY <1>1, <1>2, <1>3 DEF NumberPair

(* The ends of pipes, the connections and what is free are different.      *)
LEMMA EndsDiffer ==
  /\ \A l \in Launch, of \in {"to", "from", "pid"}, e \in {"r", "w"} :
        PipeOf(l, of, e) \in PipeEnd
  /\ \A l, m, of, up, e, f : PipeOf(l, of, e) = PipeOf(m, up, f) =>
                                l = m /\ of = up /\ e = f
  /\ \A a \in Admins : SocketOf(a) \in Socket
  /\ \A a, b : SocketOf(a) = SocketOf(b) => a = b
  /\ \A e \in PipeEnd : e \notin Socket /\ e # Free /\ e.owner \in Launch
  /\ \A e \in Socket : e # Free /\ e.owner \in Admins \X {1}
<1>1. \A l \in Launch, of \in {"to", "from", "pid"}, e \in {"r", "w"} :
         PipeOf(l, of, e) \in PipeEnd
  BY DEF PipeOf, PipeEnd
<1>2. ASSUME NEW l, NEW m, NEW of, NEW up, NEW e, NEW f,
             PipeOf(l, of, e) = PipeOf(m, up, f)
      PROVE  l = m /\ of = up /\ e = f
  <2>1. /\ PipeOf(l, of, e).owner = l /\ PipeOf(m, up, f).owner = m
        /\ PipeOf(l, of, e).of = of /\ PipeOf(m, up, f).of = up
        /\ PipeOf(l, of, e).end = e /\ PipeOf(m, up, f).end = f
    BY DEF PipeOf
  <2> QED
    BY <1>2, <2>1
<1>3. \A a \in Admins : SocketOf(a) \in Socket
  BY DEF SocketOf, Socket
<1>4. ASSUME NEW a, NEW b, SocketOf(a) = SocketOf(b)
      PROVE  a = b
  <2>1. SocketOf(a).owner = <<a, 1>> /\ SocketOf(b).owner = <<b, 1>>
    BY DEF SocketOf
  <2> QED
    BY <1>4, <2>1
<1>5. Free.of = "none"
  BY DEF Free
<1>6. \A e \in PipeEnd : e.of \in {"to", "from", "pid"} /\ e.owner \in Launch
  BY DEF PipeEnd
<1>7. \A e \in Socket : e.of = "socket" /\ e.owner \in Admins \X {1}
  BY DEF Socket
<1>8. /\ \A e \in PipeEnd : e \notin Socket /\ e # Free /\ e.owner \in Launch
      /\ \A e \in Socket : e # Free /\ e.owner \in Admins \X {1}
  BY <1>5, <1>6, <1>7
<1> QED
  BY <1>1, <1>2, <1>3, <1>4, <1>8

(* Whoever keeps an end is its owner.                                      *)
LEMMA KeepsOwn ==
  ASSUME TypeOK, Launched, NEW h \in Hosts
  PROVE  /\ host[h].pc # "idle" =>
              /\ Current(h) \in Launch
              /\ \A of \in {"to", "from", "pid"}, e \in {"r", "w"} : Own(h, of, e) \in PipeEnd
         /\ \A k, e : Keeps(h, k, e) => /\ e \in PipeEnd /\ e.owner = Current(h)
                                        /\ host[h].pc \notin {"idle", "gone"}
<1>1. ASSUME host[h].pc # "idle"
      PROVE  /\ Current(h) \in Launch
             /\ \A of \in {"to", "from", "pid"}, e \in {"r", "w"} : Own(h, of, e) \in PipeEnd
  <2>1. host[h].n \in 1 .. MaxLaunches
    BY <1>1, HostTypes DEF Launched
  <2>2. Current(h) \in Launch
    BY <2>1 DEF Current, Launch
  <2> QED
    BY <2>2, EndsDiffer DEF Own
<1>2. ASSUME NEW k, NEW e, Keeps(h, k, e)
      PROVE  e \in PipeEnd /\ e.owner = Current(h) /\ host[h].pc \notin {"idle", "gone"}
  <2>1. host[h].pc \notin {"idle", "gone"}
    BY <1>2 DEF Keeps, BeforeClose, HasPidW, HasPidR, HasToW, HasFromR
  <2>2. \E of \in {"to", "from", "pid"}, f \in {"r", "w"} : e = Own(h, of, f)
    BY <1>2 DEF Keeps
  <2>3. \A of, f : Own(h, of, f).owner = Current(h)
    BY DEF Own, PipeOf
  <2> QED
    BY <1>1, <2>1, <2>2, <2>3
<1> QED
  BY <1>1, <1>2

(* What a host keeps depends on its own state only.                        *)
LEMMA KeepsFrame ==
  ASSUME NEW h \in Hosts, host'[h] = host[h], stopper'[h] = stopper[h]
  PROVE  \A k, e : Keeps(h, k, e)' <=> Keeps(h, k, e)
  BY DEF Keeps, BeforeClose, HasPidW, HasPidR, HasToW, HasFromR, Own, Current

(* The ends that a host has, one by one.                                   *)
LEMMA KeepsEach ==
  ASSUME TypeOK, Launched, HoldTheirs, NEW h \in Hosts
  PROVE  /\ BeforeClose(h) => /\ host[h].to.r \in Numbers
                              /\ table[host[h].to.r] = Own(h, "to", "r")
                              /\ host[h].from.w \in Numbers
                              /\ table[host[h].from.w] = Own(h, "from", "w")
         /\ HasToW(h) => /\ host[h].to.w \in Numbers
                         /\ table[host[h].to.w] = Own(h, "to", "w")
         /\ HasFromR(h) => /\ host[h].from.r \in Numbers
                           /\ table[host[h].from.r] = Own(h, "from", "r")
         /\ HasPidR(h) => /\ host[h].pid.r \in Numbers
                          /\ table[host[h].pid.r] = Own(h, "pid", "r")
         /\ HasPidW(h) => /\ host[h].pid.w \in Numbers
                          /\ table[host[h].pid.w] = Own(h, "pid", "w")
<1>1. \A k \in {None} \cup Numbers, e \in PipeEnd : Keeps(h, k, e) => k \in Numbers /\ table[k] = e
  BY DEF HoldTheirs
<1>2. \A k, e : Keeps(h, k, e) => e \in PipeEnd
  BY KeepsOwn
<1>3. \A k \in {None} \cup Numbers : \A e : Keeps(h, k, e) => k \in Numbers /\ table[k] = e
  BY <1>1, <1>2
<1>4. BeforeClose(h) => Keeps(h, host[h].to.r, Own(h, "to", "r"))
                        /\ Keeps(h, host[h].from.w, Own(h, "from", "w"))
  BY DEF Keeps
<1>5. HasToW(h) => Keeps(h, host[h].to.w, Own(h, "to", "w"))
  BY DEF Keeps
<1>6. HasFromR(h) => Keeps(h, host[h].from.r, Own(h, "from", "r"))
  BY DEF Keeps
<1>7. HasPidR(h) => Keeps(h, host[h].pid.r, Own(h, "pid", "r"))
  BY DEF Keeps
<1>8. HasPidW(h) => Keeps(h, host[h].pid.w, Own(h, "pid", "w"))
  BY DEF Keeps
<1> QED
  BY <1>3, <1>4, <1>5, <1>6, <1>7, <1>8, HostTypes

-----------------------------------------------------------------------------
(* Closing.                                                                *)

(* close() of what is one's own is nothing to the others.                  *)
LEMMA CloseOfOwn ==
  ASSUME NEW pairs, NEW site, Close(pairs, site),
         \A p \in pairs : table[p[1]] = p[2]
  PROVE  foreign' = foreign
  BY DEF Close

(* What close() does to the table.                                         *)
LEMMA CloseEffect ==
  ASSUME NEW pairs, NEW site, Close(pairs, site)
  PROVE  /\ \A k \in Numbers : table'[k] = IF \E p \in pairs : p[1] = k THEN Free ELSE table[k]
         /\ foreign' = {} => foreign = {}
         /\ foreign' = {} => \A p \in pairs : p[1] # None => table[p[1]] \in {Free, p[2]}
         /\ foreign' \in {foreign, foreign \cup {site}}
  BY DEF Close

LEMMA CloseType ==
  ASSUME TypeOK, NEW pairs, NEW site \in Sites, Close(pairs, site)
  PROVE  table' \in [Numbers -> End \cup {Free}] /\ foreign' \subseteq Sites
<1>1. table' = [k \in Numbers |-> IF \E p \in pairs : p[1] = k THEN Free ELSE table[k]]
  BY DEF Close
<1>2. \A k \in Numbers : (IF \E p \in pairs : p[1] = k THEN Free ELSE table[k]) \in End \cup {Free}
  BY DEF TypeOK
<1>3. foreign' \in {foreign, foreign \cup {site}}
  BY CloseEffect
<1> QED
  BY <1>1, <1>2, <1>3 DEF TypeOK

(* A host that closes ends of its own, and keeps the others, disturbs      *)
(* nobody.                                                                 *)
LEMMA HostCloses ==
  ASSUME Inv, NEW h \in Hosts, NEW pairs, NEW site, Close(pairs, site),
         UNCHANGED <<admin, leaked>>,
         \A g \in Hosts \ {h} : host'[g] = host[g] /\ stopper'[g] = stopper[g],
         \A p \in pairs : \E of, f : p[2] = Own(h, of, f),
         \A k, e : Keeps(h, k, e)' => Keeps(h, k, e) /\ \A p \in pairs : e # p[2],
         \A k, e : Keeps(h, k, e) => Keeps(h, k, e)' \/ \E p \in pairs : p[1] = k
  PROVE  Holdings'
<1>0. TypeOK /\ Launched /\ Holdings
  BY DEF Inv
<1> SUFFICES ASSUME foreign' = {} PROVE (HoldTheirs /\ (~leaked => NoOthers))'
  BY DEF Holdings
<1>1. /\ foreign = {}
      /\ \A k \in Numbers : table'[k] = IF \E p \in pairs : p[1] = k THEN Free ELSE table[k]
      /\ \A p \in pairs : p[1] # None => table[p[1]] \in {Free, p[2]}
  BY CloseEffect
<1>2. HoldTheirs /\ (~leaked => NoOthers)
  BY <1>0, <1>1 DEF Holdings
<1>3. \A k \in Numbers : k # None
  BY DEF Numbers, None
<1>4. \A p \in pairs : p[2].owner = Current(h) /\ \A a \in Admins : p[2] # SocketOf(a)
  <2>1. \A of, f : Own(h, of, f).owner = Current(h)
    BY DEF Own, PipeOf
  <2>2. \A a \in Admins : SocketOf(a).owner = <<a, 1>> /\ a # h
    BY DEF SocketOf
  <2>3. \A a \in Admins : <<a, 1>> # Current(h)
    BY <2>2 DEF Current
  <2> QED
    BY <2>1, <2>2, <2>3
<1>5. ASSUME NEW g \in Hosts, NEW k \in {None} \cup Numbers, NEW e \in PipeEnd, Keeps(g, k, e)'
      PROVE  k \in Numbers /\ table'[k] = e
  <2>1. Keeps(g, k, e)
    BY <1>5, KeepsFrame
  <2>2. k \in Numbers /\ table[k] = e
    BY <1>2, <2>1 DEF HoldTheirs
  <2>3. e # Free /\ e.owner = Current(g)
    BY <1>0, <2>1, KeepsOwn, EndsDiffer
  <2>4. ASSUME NEW p \in pairs, p[1] = k PROVE FALSE
    <3>1. e = p[2]
      BY <1>1, <1>3, <2>2, <2>3, <2>4
    <3>2. g = h
      BY <1>4, <2>3, <3>1 DEF Current
    <3> QED
      BY <1>5, <3>1, <3>2
  <2> QED
    BY <1>1, <2>2, <2>4
<1>6. ASSUME NEW a \in Admins, admin'[a].pc = "open"
      PROVE  admin'[a].number \in Numbers /\ table'[admin'[a].number] = SocketOf(a)
  <2>1. admin[a].number \in Numbers /\ table[admin[a].number] = SocketOf(a)
    BY <1>2, <1>6 DEF HoldTheirs
  <2>2. SocketOf(a) # Free
    BY EndsDiffer
  <2> QED
    BY <1>1, <1>3, <1>4, <2>1, <2>2
<1>7. ASSUME ~leaked', NEW k \in Numbers, table'[k] \in PipeEnd
      PROVE  \E g \in Hosts : Keeps(g, k, table[k])'
  <2>1. ~(\E p \in pairs : p[1] = k) /\ table'[k] = table[k]
    BY <1>1, <1>7, EndsDiffer
  <2>2. PICK g \in Hosts : Keeps(g, k, table[k])
    BY <1>2, <1>7, <2>1 DEF NoOthers
  <2>3. Keeps(g, k, table[k])'
    <3>1. CASE g # h
      BY <3>1, <2>1, <2>2, KeepsFrame
    <3>2. CASE g = h
      BY <3>2, <2>1, <2>2
    <3> QED
      BY <3>1, <3>2
  <2> QED
    BY <2>3
<1> QED
  BY <1>5, <1>6, <1>7 DEF HoldTheirs, NoOthers

-----------------------------------------------------------------------------
(* Descriptors: the steps of a host.                                       *)

(* Where a host is.                                                        *)
Places == {"idle", "fork", "closePid", "readPid", "close", "return", "run", "ended", "gone"}

(* What Goto moves.                                                        *)
LEMMA Goes ==
  ASSUME TypeOK, NEW h \in Hosts, NEW to \in Places, Goto(h, to)
  PROVE  /\ host' \in [Hosts -> HostType]
         /\ \A g \in Hosts \ {h} : host'[g] = host[g]
         /\ host'[h].pc = to /\ host'[h].n = host[h].n /\ host'[h].known = host[h].known
         /\ host'[h].to = host[h].to /\ host'[h].from = host[h].from
         /\ host'[h].pid = host[h].pid
         /\ Current(h)' = Current(h) /\ \A of, f : Own(h, of, f)' = Own(h, of, f)
<1>1. host \in [Hosts -> HostType] /\ host' = [host EXCEPT ![h].pc = to]
  BY HostTypes DEF Goto
<1>2. /\ host' \in [Hosts -> HostType]
      /\ \A g \in Hosts \ {h} : host'[g] = host[g]
      /\ host'[h].pc = to /\ host'[h].n = host[h].n /\ host'[h].known = host[h].known
      /\ host'[h].to = host[h].to /\ host'[h].from = host[h].from
      /\ host'[h].pid = host[h].pid
  BY <1>1 DEF HostType, Places
<1>3. Current(h)' = Current(h)
  BY <1>2 DEF Current
<1> QED
  BY <1>2, <1>3 DEF Own

(* The ends of one launch are different ...                                *)
LEMMA OwnDiffer ==
  ASSUME NEW h
  PROVE  \A of, up, e, f : Own(h, of, e) = Own(h, up, f) => of = up /\ e = f
  BY EndsDiffer DEF Own

(* The six, each with its number.                                          *)
ToR(h)   == <<host[h].to.r, Own(h, "to", "r")>>
ToW(h)   == <<host[h].to.w, Own(h, "to", "w")>>
FromR(h) == <<host[h].from.r, Own(h, "from", "r")>>
FromW(h) == <<host[h].from.w, Own(h, "from", "w")>>
PidR(h)  == <<host[h].pid.r, Own(h, "pid", "r")>>
PidW(h)  == <<host[h].pid.w, Own(h, "pid", "w")>>

(* ... and so are the six.                                                 *)
LEMMA SixDiffer ==
  ASSUME NEW h
  PROVE  /\ ToR(h) \notin {ToW(h), FromR(h), FromW(h), PidR(h), PidW(h)}
         /\ ToW(h) \notin {FromR(h), FromW(h), PidR(h), PidW(h)}
         /\ FromR(h) \notin {FromW(h), PidR(h), PidW(h)}
         /\ FromW(h) \notin {PidR(h), PidW(h)}
         /\ PidR(h) # PidW(h)
  BY OwnDiffer DEF ToR, ToW, FromR, FromW, PidR, PidW

(* A step of a host closes exactly the ends that it has before and has not *)
(* afterwards, and perhaps some that it has not had.                       *)
LEMMA StepCloses ==
  ASSUME Inv, NEW h \in Hosts, NEW pairs, NEW site, Close(pairs, site),
         UNCHANGED <<admin, leaked>>,
         \A g \in Hosts \ {h} : host'[g] = host[g] /\ stopper'[g] = stopper[g],
         host'[h].to = host[h].to, host'[h].from = host[h].from,
         host'[h].pid = host[h].pid, host'[h].n = host[h].n,
         pairs \subseteq {ToR(h), ToW(h), FromR(h), FromW(h), PidR(h), PidW(h)},
         BeforeClose(h)' => BeforeClose(h) /\ ToR(h) \notin pairs /\ FromW(h) \notin pairs,
         BeforeClose(h) => BeforeClose(h)' \/ (ToR(h) \in pairs /\ FromW(h) \in pairs),
         HasToW(h)' => HasToW(h) /\ ToW(h) \notin pairs,
         HasToW(h) => HasToW(h)' \/ ToW(h) \in pairs,
         HasFromR(h)' => HasFromR(h) /\ FromR(h) \notin pairs,
         HasFromR(h) => HasFromR(h)' \/ FromR(h) \in pairs,
         HasPidR(h)' => HasPidR(h) /\ PidR(h) \notin pairs,
         HasPidR(h) => HasPidR(h)' \/ PidR(h) \in pairs,
         HasPidW(h)' => HasPidW(h) /\ PidW(h) \notin pairs,
         HasPidW(h) => HasPidW(h)' \/ PidW(h) \in pairs
  PROVE  Holdings'
<1> DEFINE six == {ToR(h), ToW(h), FromR(h), FromW(h), PidR(h), PidW(h)}
<1>1. \A of, f : Own(h, of, f)' = Own(h, of, f)
  BY DEF Own, Current
<1>2. \A k, e : Keeps(h, k, e)' <=>
         \/ BeforeClose(h)' /\ <<k, e>> = ToR(h)
         \/ HasToW(h)'      /\ <<k, e>> = ToW(h)
         \/ HasFromR(h)'    /\ <<k, e>> = FromR(h)
         \/ BeforeClose(h)' /\ <<k, e>> = FromW(h)
         \/ HasPidR(h)'     /\ <<k, e>> = PidR(h)
         \/ HasPidW(h)'     /\ <<k, e>> = PidW(h)
  BY <1>1 DEF Keeps, ToR, ToW, FromR, FromW, PidR, PidW
<1>3. \A k, e : Keeps(h, k, e) <=>
         \/ BeforeClose(h) /\ <<k, e>> = ToR(h)
         \/ HasToW(h)      /\ <<k, e>> = ToW(h)
         \/ HasFromR(h)    /\ <<k, e>> = FromR(h)
         \/ BeforeClose(h) /\ <<k, e>> = FromW(h)
         \/ HasPidR(h)     /\ <<k, e>> = PidR(h)
         \/ HasPidW(h)     /\ <<k, e>> = PidW(h)
  BY DEF Keeps, ToR, ToW, FromR, FromW, PidR, PidW
<1>4. \A p \in pairs : \E of, f : p[2] = Own(h, of, f)
  BY DEF ToR, ToW, FromR, FromW, PidR, PidW
<1>5. \A k, e : \A p \in six : <<k, e>> \in six /\ e = p[2] => <<k, e>> = p
  BY OwnDiffer DEF ToR, ToW, FromR, FromW, PidR, PidW
<1>6. ASSUME NEW k, NEW e, Keeps(h, k, e)'
      PROVE  Keeps(h, k, e) /\ \A p \in pairs : e # p[2]
  <2>1. Keeps(h, k, e) /\ <<k, e>> \in six /\ <<k, e>> \notin pairs
    BY <1>2, <1>3, <1>6
  <2> QED
    BY <2>1, <1>5
<1>7. ASSUME NEW k, NEW e, Keeps(h, k, e)
      PROVE  Keeps(h, k, e)' \/ \E p \in pairs : p[1] = k
  <2>1. Keeps(h, k, e)' \/ <<k, e>> \in pairs
    BY <1>2, <1>3, <1>7
  <2> QED
    BY <2>1
<1> QED
  BY <1>4, <1>6, <1>7, HostCloses

(* Start closes its end for the pid.                                       *)
LEMMA ClosePidWriteKeeps ==
  ASSUME Inv, NEW h \in Hosts, ClosePidWrite(h)
  PROVE  Holdings'
<1> DEFINE pairs == {PidW(h)}
<1>1. TypeOK /\ host[h].pc = "closePid" /\ Goto(h, "readPid") /\ stopper' = stopper
      /\ UNCHANGED <<admin, leaked>> /\ Close(pairs, "start")
  BY DEF Inv, ClosePidWrite, At, PidW
<1>2. /\ host'[h].pc = "readPid" /\ \A g \in Hosts \ {h} : host'[g] = host[g]
      /\ host'[h].to = host[h].to /\ host'[h].from = host[h].from
      /\ host'[h].pid = host[h].pid /\ host'[h].n = host[h].n
  BY <1>1, Goes DEF Places
<1>3. /\ BeforeClose(h) /\ HasToW(h) /\ HasFromR(h) /\ HasPidR(h) /\ HasPidW(h)
      /\ BeforeClose(h)' /\ HasToW(h)' /\ HasFromR(h)' /\ HasPidR(h)' /\ ~HasPidW(h)'
  BY <1>1, <1>2 DEF BeforeClose, HasPidW, HasPidR, HasToW, HasFromR
<1>4. /\ pairs \subseteq {ToR(h), ToW(h), FromR(h), FromW(h), PidR(h), PidW(h)}
      /\ PidW(h) \in pairs
      /\ ToR(h) \notin pairs /\ ToW(h) \notin pairs /\ FromR(h) \notin pairs
      /\ FromW(h) \notin pairs /\ PidR(h) \notin pairs
  BY SixDiffer
<1> HIDE DEF pairs
<1> QED
  BY <1>1, <1>2, <1>3, <1>4, StepCloses

(* Start closes what the engine has got.                                   *)
LEMMA CloseEndsKeeps ==
  ASSUME Inv, NEW h \in Hosts, CloseEnds(h)
  PROVE  Holdings'
<1> DEFINE pairs == {PidR(h), ToR(h), FromW(h)}
<1>1. /\ TypeOK /\ host[h].pc = "close" /\ Goto(h, "return") /\ stopper' = stopper
      /\ UNCHANGED <<admin, leaked>>
      /\ Close(pairs, IF host[h].known THEN "start" ELSE "pidread")
  BY DEF Inv, CloseEnds, EnginesEnds, At, PidR, ToR, FromW
<1>2. /\ host'[h].pc = "return" /\ \A g \in Hosts \ {h} : host'[g] = host[g]
      /\ host'[h].to = host[h].to /\ host'[h].from = host[h].from
      /\ host'[h].pid = host[h].pid /\ host'[h].n = host[h].n
  BY <1>1, Goes DEF Places
<1>3. /\ BeforeClose(h) /\ HasToW(h) /\ HasFromR(h) /\ ~HasPidW(h)
      /\ ~BeforeClose(h)' /\ HasToW(h)' /\ HasFromR(h)' /\ ~HasPidR(h)' /\ ~HasPidW(h)'
  BY <1>1, <1>2 DEF BeforeClose, HasPidW, HasPidR, HasToW, HasFromR
<1>4. /\ pairs \subseteq {ToR(h), ToW(h), FromR(h), FromW(h), PidR(h), PidW(h)}
      /\ PidR(h) \in pairs /\ ToR(h) \in pairs /\ FromW(h) \in pairs
      /\ ToW(h) \notin pairs /\ FromR(h) \notin pairs
  BY SixDiffer
<1> HIDE DEF pairs
<1> QED
  BY <1>1, <1>2, <1>3, <1>4, StepCloses

(* The destructor of pidread closes what has been closed before.           *)
LEMMA ReturnFromStartKeeps ==
  ASSUME Inv, NEW h \in Hosts, ReturnFromStart(h)
  PROVE  Holdings'
<1> DEFINE pairs == {PidR(h)}
<1>1. /\ TypeOK /\ host[h].pc = "return" /\ Goto(h, "run") /\ stopper' = stopper
      /\ UNCHANGED <<admin, leaked>> /\ Close(pairs, "pidread")
  BY DEF Inv, ReturnFromStart, At, PidR
<1>2. /\ host'[h].pc = "run" /\ \A g \in Hosts \ {h} : host'[g] = host[g]
      /\ host'[h].to = host[h].to /\ host'[h].from = host[h].from
      /\ host'[h].pid = host[h].pid /\ host'[h].n = host[h].n
  BY <1>1, Goes DEF Places
<1>3. stopper'[h] = "none"
  BY <1>1 DEF Inv, Launched
<1>4. /\ ~BeforeClose(h) /\ HasToW(h) /\ HasFromR(h) /\ ~HasPidR(h) /\ ~HasPidW(h)
      /\ ~BeforeClose(h)' /\ HasToW(h)' /\ HasFromR(h)' /\ ~HasPidR(h)' /\ ~HasPidW(h)'
  BY <1>1, <1>2, <1>3 DEF BeforeClose, HasPidW, HasPidR, HasToW, HasFromR
<1>5. /\ pairs \subseteq {ToR(h), ToW(h), FromR(h), FromW(h), PidR(h), PidW(h)}
      /\ ToW(h) \notin pairs /\ FromR(h) \notin pairs
  BY SixDiffer
<1> HIDE DEF pairs
<1> QED
  BY <1>1, <1>2, <1>4, <1>5, StepCloses

(* ReadLine meets the end.                                                 *)
LEMMA ReadEndKeeps ==
  ASSUME Inv, NEW h \in Hosts, ReadEnd(h)
  PROVE  Holdings'
<1> DEFINE pairs == {FromR(h)}
           to    == IF stopper[h] = "deleted" THEN "gone" ELSE "ended"
<1>1. /\ TypeOK /\ host[h].pc = "run" /\ Goto(h, to) /\ stopper' = stopper
      /\ UNCHANGED <<admin, leaked>>
      /\ Close(pairs, IF stopper[h] = "deleted" THEN "freedProcess" ELSE "readLine")
  BY DEF Inv, ReadEnd, At, FromR
<1>2. /\ host'[h].pc = to /\ \A g \in Hosts \ {h} : host'[g] = host[g]
      /\ host'[h].to = host[h].to /\ host'[h].from = host[h].from
      /\ host'[h].pid = host[h].pid /\ host'[h].n = host[h].n
  BY <1>1, Goes DEF Places
<1>3. /\ ~BeforeClose(h) /\ ~HasPidR(h) /\ ~HasPidW(h)
      /\ ~BeforeClose(h)' /\ ~HasPidR(h)' /\ ~HasPidW(h)' /\ ~HasFromR(h)'
      /\ HasToW(h)' <=> HasToW(h)
  BY <1>1, <1>2 DEF BeforeClose, HasPidW, HasPidR, HasToW, HasFromR
<1>4. /\ pairs \subseteq {ToR(h), ToW(h), FromR(h), FromW(h), PidR(h), PidW(h)}
      /\ ToW(h) \notin pairs /\ FromR(h) \in pairs
  BY SixDiffer
<1> HIDE DEF pairs, to
<1> QED
  BY <1>1, <1>2, <1>3, <1>4, StepCloses

(* Exit closes the end to the engine, and delete clonk both.               *)
LEMMA StopKeeps ==
  ASSUME Inv, NEW h \in Hosts, StopGame(h) \/ StopProcess(h)
  PROVE  Holdings'
<1>0. /\ TypeOK /\ Launched /\ stopper \in [Hosts -> {"none", "closed", "deleted"}]
      /\ UNCHANGED <<host, admin, leaked>>
  BY DEF Inv, TypeOK, StopGame, StopProcess
<1>1. CASE StopGame(h)
  <2> DEFINE pairs == {ToW(h)}
  <2>1. /\ host[h].pc \in {"run", "ended"} /\ stopper[h] = "none" /\ stopper'[h] = "closed"
        /\ \A g \in Hosts \ {h} : stopper'[g] = stopper[g]
        /\ Close(pairs, "exit")
    BY <1>0, <1>1 DEF StopGame, At, ToW
  <2>2. /\ ~BeforeClose(h) /\ ~HasPidR(h) /\ ~HasPidW(h)
        /\ ~BeforeClose(h)' /\ ~HasPidR(h)' /\ ~HasPidW(h)' /\ ~HasToW(h)'
        /\ HasFromR(h)' <=> HasFromR(h)
    BY <1>0, <2>1 DEF BeforeClose, HasPidW, HasPidR, HasToW, HasFromR
  <2>3. /\ pairs \subseteq {ToR(h), ToW(h), FromR(h), FromW(h), PidR(h), PidW(h)}
        /\ ToW(h) \in pairs /\ FromR(h) \notin pairs
    BY SixDiffer
  <2> HIDE DEF pairs
  <2> QED
    BY <1>0, <2>1, <2>2, <2>3, StepCloses
<1>2. CASE StopProcess(h)
  <2> DEFINE pairs == {ToW(h), FromR(h)}
  <2>1. /\ stopper[h] = "closed" /\ stopper'[h] = "deleted"
        /\ \A g \in Hosts \ {h} : stopper'[g] = stopper[g]
        /\ Close(pairs, "process") /\ host[h].pc \in {"run", "ended", "gone"}
    BY <1>0, <1>2 DEF StopProcess, ProcessEnds, ToW, FromR, Launched
  <2>2. /\ ~BeforeClose(h) /\ ~HasPidR(h) /\ ~HasPidW(h) /\ ~HasToW(h)
        /\ ~BeforeClose(h)' /\ ~HasPidR(h)' /\ ~HasPidW(h)' /\ ~HasToW(h)' /\ ~HasFromR(h)'
    BY <1>0, <2>1 DEF BeforeClose, HasPidW, HasPidR, HasToW, HasFromR
  <2>3. /\ pairs \subseteq {ToR(h), ToW(h), FromR(h), FromW(h), PidR(h), PidW(h)}
        /\ FromR(h) \in pairs
    OBVIOUS
  <2> HIDE DEF pairs
  <2> QED
    BY <1>0, <2>1, <2>2, <2>3, StepCloses
<1> QED
  BY <1>1, <1>2

(* Nothing is opened or closed.                                            *)
LEMMA SameEnds ==
  ASSUME Inv, UNCHANGED <<table, foreign, leaked>>,
         \A a \in Admins : admin'[a].pc = "open" => admin'[a] = admin[a],
         \A h \in Hosts : \A k, e : Keeps(h, k, e)' <=> Keeps(h, k, e)
  PROVE  Holdings'
<1>1. Holdings
  BY DEF Inv
<1>2. HoldTheirs => HoldTheirs'
  BY DEF HoldTheirs
<1>3. NoOthers => NoOthers'
  BY DEF NoOthers
<1> QED
  BY <1>1, <1>2, <1>3 DEF Holdings

(* A step that closes nothing.                                             *)
LEMMA StepKeeps ==
  ASSUME Inv, NEW h \in Hosts, UNCHANGED <<table, foreign, leaked, admin>>,
         \A g \in Hosts \ {h} : host'[g] = host[g] /\ stopper'[g] = stopper[g],
         host'[h].to = host[h].to, host'[h].from = host[h].from,
         host'[h].pid = host[h].pid, host'[h].n = host[h].n,
         BeforeClose(h)' <=> BeforeClose(h), HasToW(h)' <=> HasToW(h),
         HasFromR(h)' <=> HasFromR(h), HasPidR(h)' <=> HasPidR(h),
         HasPidW(h)' <=> HasPidW(h)
  PROVE  Holdings'
<1>1. \A of, f : Own(h, of, f)' = Own(h, of, f)
  BY DEF Own, Current
<1>2. \A k, e : Keeps(h, k, e)' <=> Keeps(h, k, e)
  BY <1>1 DEF Keeps
<1>3. \A g \in Hosts : \A k, e : Keeps(g, k, e)' <=> Keeps(g, k, e)
  BY <1>2, KeepsFrame
<1> QED
  BY <1>3, SameEnds

(* ReadPid, and the end of the pipe it may meet.                           *)
LEMMA ReadPidKeeps ==
  ASSUME Inv, NEW h \in Hosts, ReadPid(h)
  PROVE  Holdings'
<1>1. /\ TypeOK /\ host[h].pc = "readPid" /\ Goto(h, "close") /\ stopper' = stopper
      /\ UNCHANGED <<admin, leaked>>
  BY DEF Inv, ReadPid, At
<1>2. /\ host'[h].pc = "close" /\ \A g \in Hosts \ {h} : host'[g] = host[g]
      /\ host'[h].to = host[h].to /\ host'[h].from = host[h].from
      /\ host'[h].pid = host[h].pid /\ host'[h].n = host[h].n
      /\ host'[h].known = host[h].known
  BY <1>1, Goes DEF Places
<1>3. /\ BeforeClose(h) /\ HasToW(h) /\ HasFromR(h) /\ HasPidR(h) /\ ~HasPidW(h)
      /\ BeforeClose(h)' /\ HasToW(h)' /\ HasFromR(h)' /\ ~HasPidW(h)'
      /\ HasPidR(h)' <=> host[h].known
  BY <1>1, <1>2 DEF BeforeClose, HasPidW, HasPidR, HasToW, HasFromR
<1>4. CASE host[h].known
  <2>1. UNCHANGED <<table, foreign>>
    BY <1>4 DEF ReadPid
  <2> QED
    BY <1>1, <1>2, <1>3, <1>4, <2>1, StepKeeps
<1>5. CASE ~host[h].known
  <2> DEFINE pairs == {PidR(h)}
  <2>1. Close(pairs, "readLine")
    BY <1>5 DEF ReadPid, PidR
  <2>2. /\ pairs \subseteq {ToR(h), ToW(h), FromR(h), FromW(h), PidR(h), PidW(h)}
        /\ PidR(h) \in pairs /\ ToR(h) \notin pairs /\ ToW(h) \notin pairs
        /\ FromR(h) \notin pairs /\ FromW(h) \notin pairs
    BY SixDiffer
  <2> HIDE DEF pairs
  <2> QED
    BY <1>1, <1>2, <1>3, <1>5, <2>1, <2>2, StepCloses
<1> QED
  BY <1>4, <1>5

(* The end of a game.                                                      *)
LEMMA DeleteProcessKeeps ==
  ASSUME Inv, NEW h \in Hosts, DeleteProcess(h)
  PROVE  Holdings'
<1> DEFINE to == IF stopper[h] = "deleted" THEN "gone" ELSE "idle"
<1>1. /\ TypeOK /\ host[h].pc = "ended" /\ Goto(h, to) /\ stopper' = stopper
      /\ UNCHANGED <<admin, leaked>> /\ stopper[h] \in {"none", "deleted"}
  BY DEF Inv, DeleteProcess, At, TypeOK
<1>2. /\ host'[h].pc = to /\ \A g \in Hosts \ {h} : host'[g] = host[g]
      /\ host'[h].to = host[h].to /\ host'[h].from = host[h].from
      /\ host'[h].pid = host[h].pid /\ host'[h].n = host[h].n
  BY <1>1, Goes DEF Places
<1>3. /\ ~BeforeClose(h) /\ ~HasPidR(h) /\ ~HasPidW(h) /\ ~HasFromR(h)
      /\ ~BeforeClose(h)' /\ ~HasPidR(h)' /\ ~HasPidW(h)' /\ ~HasFromR(h)' /\ ~HasToW(h)'
      /\ HasToW(h) <=> stopper[h] = "none"
  BY <1>1, <1>2 DEF BeforeClose, HasPidW, HasPidR, HasToW, HasFromR
<1>4. CASE stopper[h] = "deleted"
  <2>1. UNCHANGED <<table, foreign>>
    BY <1>4 DEF DeleteProcess
  <2> QED
    BY <1>1, <1>2, <1>3, <1>4, <2>1, StepKeeps
<1>5. CASE stopper[h] = "none"
  <2> DEFINE pairs == {ToW(h), FromR(h)}
  <2>1. Close(pairs, "process")
    BY <1>5 DEF DeleteProcess, ProcessEnds, ToW, FromR
  <2>2. /\ pairs \subseteq {ToR(h), ToW(h), FromR(h), FromW(h), PidR(h), PidW(h)}
        /\ ToW(h) \in pairs
    OBVIOUS
  <2> HIDE DEF pairs, to
  <2> QED
    BY <1>1, <1>2, <1>3, <1>5, <2>1, <2>2, StepCloses
<1> QED
  BY <1>1, <1>4, <1>5

(* fork() gives the numbers to the engine.                                 *)
LEMMA ForkKeeps ==
  ASSUME Inv, NEW h \in Hosts, Fork(h) \/ SecondForkFails(h)
  PROVE  Holdings'
<1>1. /\ TypeOK /\ host[h].pc = "fork" /\ stopper' = stopper
      /\ UNCHANGED <<table, foreign, admin, leaked>>
  BY DEF Inv, Fork, SecondForkFails, At
<1>2. /\ host'[h].pc = "closePid" /\ \A g \in Hosts \ {h} : host'[g] = host[g]
      /\ host'[h].to = host[h].to /\ host'[h].from = host[h].from
      /\ host'[h].pid = host[h].pid /\ host'[h].n = host[h].n
  <2>1. CASE Fork(h)
    <3>1. host \in [Hosts -> HostType] /\ host[h] \in HostType
      BY <1>1, HostTypes
    <3> QED
      BY <2>1, <3>1 DEF Fork, HostType
  <2>2. CASE SecondForkFails(h)
    BY <1>1, <2>2, Goes DEF SecondForkFails, Places
  <2> QED
    BY <2>1, <2>2
<1>3. /\ BeforeClose(h)' <=> BeforeClose(h)
      /\ HasToW(h)' <=> HasToW(h)
      /\ HasFromR(h)' <=> HasFromR(h)
      /\ HasPidR(h)' <=> HasPidR(h)
      /\ HasPidW(h)' <=> HasPidW(h)
  BY <1>1, <1>2 DEF BeforeClose, HasPidW, HasPidR, HasToW, HasFromR
<1> QED
  BY <1>1, <1>2, <1>3, StepKeeps

(* Three new pipes take numbers that nobody has.                           *)
LEMMA MakePipesKeeps ==
  ASSUME Inv, NEW h \in Hosts, MakePipes(h)
  PROVE  Holdings'
<1> DEFINE l == <<h, host[h].n + 1>>
<1>0. /\ TypeOK /\ Launched /\ Holdings /\ host[h].pc = "idle"
      /\ UNCHANGED <<stopper, admin, foreign, leaked>>
  BY DEF Inv, MakePipes, CanPipe, At
<1>1. /\ \A i \in 1 .. 6 : NthFree(i) \in Numbers /\ table[NthFree(i)] = Free
      /\ table'[NthFree(1)] = PipeOf(l, "to", "r")
      /\ table'[NthFree(2)] = PipeOf(l, "to", "w")
      /\ table'[NthFree(3)] = PipeOf(l, "from", "r")
      /\ table'[NthFree(4)] = PipeOf(l, "from", "w")
      /\ table'[NthFree(5)] = PipeOf(l, "pid", "r")
      /\ table'[NthFree(6)] = PipeOf(l, "pid", "w")
      /\ \A k \in Numbers : table'[k] = table[k] \/ \E i \in 1 .. 6 : k = NthFree(i)
  BY SixPipes DEF MakePipes
<1>2. /\ \A g \in Hosts \ {h} : host'[g] = host[g]
      /\ host'[h] = [pc |-> "fork", n |-> host[h].n + 1, known |-> FALSE,
                     to |-> PipeNumbers(1), from |-> PipeNumbers(2), pid |-> PipeNumbers(3)]
  BY <1>0, HostTypes DEF MakePipes
<1>3. /\ host'[h].to.r = NthFree(1) /\ host'[h].to.w = NthFree(2)
      /\ host'[h].from.r = NthFree(3) /\ host'[h].from.w = NthFree(4)
      /\ host'[h].pid.r = NthFree(5) /\ host'[h].pid.w = NthFree(6)
      /\ host'[h].pc = "fork" /\ host'[h].n = host[h].n + 1
  <2>1. /\ PipeNumbers(1) = [r |-> NthFree(1), w |-> NthFree(2)]
        /\ PipeNumbers(2) = [r |-> NthFree(3), w |-> NthFree(4)]
        /\ PipeNumbers(3) = [r |-> NthFree(5), w |-> NthFree(6)]
    BY DEF PipeNumbers
  <2> QED
    BY <1>2, <2>1
<1>4. \A of, e : Own(h, of, e)' = PipeOf(l, of, e)
  BY <1>3 DEF Own, Current
<1>5. \A k, e : Keeps(h, k, e)' <=>
         \/ k = NthFree(1) /\ e = PipeOf(l, "to", "r")
         \/ k = NthFree(2) /\ e = PipeOf(l, "to", "w")
         \/ k = NthFree(3) /\ e = PipeOf(l, "from", "r")
         \/ k = NthFree(4) /\ e = PipeOf(l, "from", "w")
         \/ k = NthFree(5) /\ e = PipeOf(l, "pid", "r")
         \/ k = NthFree(6) /\ e = PipeOf(l, "pid", "w")
  <2>1. BeforeClose(h)' /\ HasToW(h)' /\ HasFromR(h)' /\ HasPidR(h)' /\ HasPidW(h)'
    BY <1>3 DEF BeforeClose, HasPidW, HasPidR, HasToW, HasFromR
  <2> HIDE DEF l
  <2> QED
    BY <1>3, <1>4, <2>1 DEF Keeps
<1> SUFFICES ASSUME foreign' = {} PROVE (HoldTheirs /\ (~leaked => NoOthers))'
  BY DEF Holdings
<1>6. HoldTheirs /\ (~leaked => NoOthers)
  BY <1>0 DEF Holdings
<1> HIDE DEF l
<1>7. ASSUME NEW k \in Numbers, table[k] # Free
      PROVE  table'[k] = table[k]
  BY <1>1, <1>7
<1>8. ASSUME NEW g \in Hosts, NEW k \in {None} \cup Numbers, NEW e \in PipeEnd, Keeps(g, k, e)'
      PROVE  k \in Numbers /\ table'[k] = e
  <2>1. CASE g = h
    BY <1>1, <1>5, <1>8, <2>1
  <2>2. CASE g # h
    <3>1. Keeps(g, k, e)
      BY <1>0, <1>2, <1>8, <2>2, KeepsFrame
    <3>2. k \in Numbers /\ table[k] = e
      BY <1>6, <3>1 DEF HoldTheirs
    <3> QED
      BY <1>7, <3>2, EndsDiffer
  <2> QED
    BY <2>1, <2>2
<1>9. ASSUME NEW a \in Admins, admin'[a].pc = "open"
      PROVE  admin'[a].number \in Numbers /\ table'[admin'[a].number] = SocketOf(a)
  <2>1. admin[a].number \in Numbers /\ table[admin[a].number] = SocketOf(a)
    BY <1>0, <1>6, <1>9 DEF HoldTheirs
  <2>2. SocketOf(a) # Free
    BY EndsDiffer
  <2> QED
    BY <1>0, <1>7, <2>1, <2>2
<1>10. ASSUME ~leaked', NEW k \in Numbers, table'[k] \in PipeEnd
       PROVE  \E g \in Hosts : Keeps(g, k, table[k])'
  <2>1. CASE table'[k] = table[k]
    <3>1. PICK g \in Hosts : Keeps(g, k, table[k])
      BY <1>0, <1>6, <1>10, <2>1 DEF NoOthers
    <3>2. g # h
      BY <1>0, <3>1, KeepsOwn
    <3>3. Keeps(g, k, table[k])'
      BY <1>0, <1>2, <2>1, <3>1, <3>2, KeepsFrame
    <3> QED
      BY <3>3
  <2>2. CASE \E i \in 1 .. 6 : k = NthFree(i)
    <3>1. k \in {NthFree(1), NthFree(2), NthFree(3), NthFree(4), NthFree(5), NthFree(6)}
      BY <2>2
    <3>2. Keeps(h, k, table[k])'
      BY <1>1, <1>5, <3>1
    <3> QED
      BY <3>2
  <2> QED
    BY <1>1, <2>1, <2>2
<1> QED
  BY <1>8, <1>9, <1>10 DEF HoldTheirs, NoOthers

(* A launch that fails leaves its first pipes, if there were any.          *)
LEMMA PipesFailKeeps ==
  ASSUME Inv, NEW h \in Hosts, PipesFail(h)
  PROVE  Holdings'
<1>0. /\ TypeOK /\ Launched /\ Holdings /\ host[h].pc = "idle"
      /\ UNCHANGED <<stopper, admin, foreign>>
      /\ leaked' = (leaked \/ Cardinality(FreeNumbers) >= 2)
  BY DEF Inv, PipesFail, CanPipe, At
<1>1. /\ \A g \in Hosts \ {h} : host'[g] = host[g]
      /\ host'[h].pc = "idle"
  BY <1>0, HostTypes DEF PipesFail, HostType
<1>2. \A k, e : ~Keeps(h, k, e)' /\ ~Keeps(h, k, e)
  BY <1>0, <1>1 DEF Keeps, BeforeClose, HasPidW, HasPidR, HasToW, HasFromR
<1>3. \A g \in Hosts : \A k, e : Keeps(g, k, e)' <=> Keeps(g, k, e)
  BY <1>0, <1>1, <1>2, KeepsFrame
<1>4. \A k \in Numbers : table[k] # Free => table'[k] = table[k]
  BY DEF PipesFail, WithPipes
<1>5. ASSUME ~(Cardinality(FreeNumbers) >= 2)
      PROVE  \A k \in Numbers : table'[k] = table[k]
  <2>1. Cardinality(FreeNumbers) \in Nat
    BY RankNat
  <2>2. Cardinality(FreeNumbers) \div 2 = 0
    BY <1>5, <2>1
  <2>3. table' = WithPipes(<<h, host[h].n + 1>>, 0)
    BY <2>2 DEF PipesFail
  <2>4. ASSUME NEW k \in Numbers, table[k] = Free PROVE ~(Rank(k) <= 2 * 0)
    <3>1. Rank(k) \in 1 .. Cardinality(FreeNumbers)
      BY <2>4, NthFreeProperties DEF FreeNumbers
    <3> QED
      BY <2>1, <3>1
  <2> QED
    BY <2>3, <2>4 DEF WithPipes
<1>6. HoldTheirs => HoldTheirs'
  <2> SUFFICES ASSUME HoldTheirs PROVE HoldTheirs'
    OBVIOUS
  <2>1. ASSUME NEW g \in Hosts, NEW k \in {None} \cup Numbers, NEW e \in PipeEnd, Keeps(g, k, e)'
        PROVE  k \in Numbers /\ table'[k] = e
    <3>1. k \in Numbers /\ table[k] = e
      BY <1>3, <2>1 DEF HoldTheirs
    <3> QED
      BY <1>4, <3>1, EndsDiffer
  <2>2. ASSUME NEW a \in Admins, admin'[a].pc = "open"
        PROVE  admin'[a].number \in Numbers /\ table'[admin'[a].number] = SocketOf(a)
    <3>1. admin[a].number \in Numbers /\ table[admin[a].number] = SocketOf(a)
      BY <1>0, <2>2 DEF HoldTheirs
    <3>2. SocketOf(a) # Free
      BY EndsDiffer
    <3> QED
      BY <1>0, <1>4, <3>1, <3>2
  <2> QED
    BY <2>1, <2>2 DEF HoldTheirs
<1>7. NoOthers /\ ~leaked' => NoOthers'
  BY <1>0, <1>3, <1>5 DEF NoOthers
<1> QED
  BY <1>0, <1>6, <1>7 DEF Holdings

-----------------------------------------------------------------------------
(* Descriptors: the steps of an admin.                                     *)

(* What AdminGoes moves.                                                   *)
LEMMA AdminMoves ==
  ASSUME TypeOK, NEW a \in Admins,
         NEW to \in {"away", "open", "notice", "close", "closeAgain", "gone"}, AdminGoes(a, to)
  PROVE  /\ admin' \in [Admins -> AdminType]
         /\ admin'[a].pc = to /\ admin'[a].number = admin[a].number
         /\ \A b \in Admins \ {a} : admin'[b] = admin[b]
<1>1. admin \in [Admins -> AdminType]
  BY DEF TypeOK, AdminType
<1> QED
  BY <1>1 DEF AdminGoes, AdminType

(* An admin's step leaves the hosts theirs.                                *)
LEMMA SameHosts ==
  ASSUME UNCHANGED <<host, stopper>>
  PROVE  \A h \in Hosts : \A k, e : Keeps(h, k, e)' <=> Keeps(h, k, e)
  BY KeepsFrame

(* A close of a connection's number hits the connection, or it is noticed. *)
LEMMA ConnectionCloses ==
  ASSUME Inv, NEW a \in Admins, NEW site, Close(Connection(a), site),
         UNCHANGED <<host, stopper, leaked>>, admin'[a].pc # "open",
         \A b \in Admins \ {a} : admin'[b] = admin[b]
  PROVE  Holdings'
<1> SUFFICES ASSUME foreign' = {} PROVE (HoldTheirs /\ (~leaked => NoOthers))'
  BY DEF Holdings
<1> DEFINE n == admin[a].number
<1>1. /\ foreign = {}
      /\ \A k \in Numbers : table'[k] = IF k = n THEN Free ELSE table[k]
      /\ n # None => table[n] \in {Free, SocketOf(a)}
  <2> DEFINE pairs == Connection(a)
  <2>1. pairs = {<<n, SocketOf(a)>>}
    BY DEF Connection
  <2> HIDE DEF pairs
  <2>2. /\ \A k \in Numbers : table'[k] = IF \E p \in pairs : p[1] = k THEN Free ELSE table[k]
        /\ foreign = {} /\ \A p \in pairs : p[1] # None => table[p[1]] \in {Free, p[2]}
    BY CloseEffect DEF pairs
  <2> HIDE DEF n
  <2> QED
    BY <2>1, <2>2
<1> HIDE DEF n
<1>2. HoldTheirs /\ (~leaked => NoOthers)
  BY <1>1 DEF Inv, Holdings
<1>3. \A k \in Numbers : k # None
  BY DEF Numbers, None
<1>4. ASSUME NEW k \in Numbers, table[k] # Free, table[k] # SocketOf(a)
      PROVE  table'[k] = table[k]
  BY <1>1, <1>3, <1>4
<1>5. ASSUME NEW h \in Hosts, NEW k \in {None} \cup Numbers, NEW e \in PipeEnd, Keeps(h, k, e)'
      PROVE  k \in Numbers /\ table'[k] = e
  <2>1. k \in Numbers /\ table[k] = e
    BY <1>2, <1>5, SameHosts DEF HoldTheirs
  <2> QED
    BY <1>4, <2>1, EndsDiffer
<1>6. ASSUME NEW b \in Admins, admin'[b].pc = "open"
      PROVE  admin'[b].number \in Numbers /\ table'[admin'[b].number] = SocketOf(b)
  <2>1. b # a /\ admin'[b] = admin[b]
    BY <1>6
  <2>2. admin[b].number \in Numbers /\ table[admin[b].number] = SocketOf(b)
    BY <1>2, <1>6, <2>1 DEF HoldTheirs
  <2>3. SocketOf(b) # Free /\ SocketOf(b) # SocketOf(a)
    BY <2>1, EndsDiffer
  <2> QED
    BY <1>4, <2>1, <2>2, <2>3
<1>7. ASSUME ~leaked', NEW k \in Numbers, table'[k] \in PipeEnd
      PROVE  \E h \in Hosts : Keeps(h, k, table[k])'
  <2>1. table'[k] = table[k]
    BY <1>1, <1>7, EndsDiffer
  <2>2. PICK h \in Hosts : Keeps(h, k, table[k])
    BY <1>2, <1>7, <2>1 DEF NoOthers
  <2>3. Keeps(h, k, table[k])'
    BY <2>1, <2>2, SameHosts
  <2> QED
    BY <2>3
<1> QED
  BY <1>5, <1>6, <1>7 DEF HoldTheirs, NoOthers

(* accept() takes a number that was free.                                  *)
LEMMA ConnectKeeps ==
  ASSUME Inv, NEW a \in Admins, Connect(a)
  PROVE  Holdings'
<1> SUFFICES ASSUME foreign' = {} PROVE (HoldTheirs /\ (~leaked => NoOthers))'
  BY DEF Holdings
<1> DEFINE n == NthFree(1)
<1>1. /\ UNCHANGED <<host, stopper, leaked, foreign>>
      /\ admin' = [admin EXCEPT ![a] = [pc |-> "open", number |-> n]]
      /\ table' = [table EXCEPT ![n] = SocketOf(a)]
  BY DEF Connect
<1>2. n \in Numbers /\ table[n] = Free
  <2>1. Cardinality(FreeNumbers) # 0 /\ Cardinality(FreeNumbers) \in Nat
    BY RankNat, FS_EmptySet DEF Connect
  <2>2. 1 \in 1 .. Cardinality(FreeNumbers)
    BY <2>1
  <2> QED
    BY <2>2, NthFreeProperties DEF FreeNumbers
<1>3. /\ HoldTheirs /\ (~leaked => NoOthers)
      /\ table \in [Numbers -> End \cup {Free}] /\ admin \in [Admins -> AdminType]
  BY <1>1 DEF Inv, Holdings, TypeOK, AdminType
<1> HIDE DEF n
<1>4. /\ \A k \in Numbers : table'[k] = IF k = n THEN SocketOf(a) ELSE table[k]
      /\ admin'[a].pc = "open" /\ admin'[a].number = n
      /\ \A b \in Admins \ {a} : admin'[b] = admin[b]
  BY <1>1, <1>3
<1>5. ASSUME NEW h \in Hosts, NEW k \in {None} \cup Numbers, NEW e \in PipeEnd, Keeps(h, k, e)'
      PROVE  k \in Numbers /\ table'[k] = e
  <2>1. k \in Numbers /\ table[k] = e
    BY <1>1, <1>3, <1>5, SameHosts DEF HoldTheirs
  <2> QED
    BY <1>2, <1>4, <2>1, EndsDiffer
<1>6. ASSUME NEW b \in Admins, admin'[b].pc = "open"
      PROVE  admin'[b].number \in Numbers /\ table'[admin'[b].number] = SocketOf(b)
  <2>1. CASE b = a
    BY <1>2, <1>4, <2>1
  <2>2. CASE b # a
    <3>1. admin[b].number \in Numbers /\ table[admin[b].number] = SocketOf(b)
      BY <1>3, <1>4, <1>6, <2>2 DEF HoldTheirs
    <3>2. SocketOf(b) # Free
      BY EndsDiffer
    <3> QED
      BY <1>2, <1>4, <2>2, <3>1, <3>2
  <2> QED
    BY <2>1, <2>2
<1>7. ASSUME ~leaked', NEW k \in Numbers, table'[k] \in PipeEnd
      PROVE  \E h \in Hosts : Keeps(h, k, table[k])'
  <2>1. table'[k] = table[k]
    BY <1>4, <1>7, EndsDiffer
  <2>2. PICK h \in Hosts : Keeps(h, k, table[k])
    BY <1>1, <1>3, <1>7, <2>1 DEF NoOthers
  <2>3. Keeps(h, k, table[k])'
    BY <1>1, <2>1, <2>2, SameHosts
  <2> QED
    BY <2>3
<1> QED
  BY <1>5, <1>6, <1>7 DEF HoldTheirs, NoOthers

(* Any step of an admin.                                                   *)
LEMMA AdminKeeps ==
  ASSUME Inv, NEW a \in Admins,
         \/ Connect(a) \/ AcceptFails(a) \/ HangUp(a) \/ AdminStep(a)
  PROVE  Holdings'
<1>0. TypeOK
  BY DEF Inv
<1>1. CASE Connect(a)
  BY <1>1, ConnectKeeps
<1>2. CASE AcceptFails(a)
  BY <1>2, SameEnds, SameHosts DEF AcceptFails
<1>3. CASE HangUp(a)
  BY <1>0, <1>3, AdminMoves, ConnectionCloses DEF HangUp
<1>4. CASE Notice(a)
  BY <1>0, <1>4, AdminMoves, SameEnds, SameHosts DEF Notice
<1>5. CASE CloseOut(a)
  BY <1>0, <1>5, AdminMoves, ConnectionCloses DEF CloseOut
<1>6. CASE CloseIn(a)
  BY <1>0, <1>6, AdminMoves, ConnectionCloses DEF CloseIn
<1> QED
  BY <1>1, <1>2, <1>3, <1>4, <1>5, <1>6 DEF AdminStep

-----------------------------------------------------------------------------
(* Descriptors: the invariant holds.                                       *)

(* Any step.                                                               *)
LEMMA HoldingsKeep ==
  ASSUME Inv, [Next]_vars
  PROVE  Holdings'
<1>1. ASSUME NEW h \in Hosts, MakePipes(h) \/ PipesFail(h) PROVE Holdings'
  BY <1>1, MakePipesKeeps, PipesFailKeeps
<1>2. ASSUME NEW h \in Hosts, Fork(h) \/ SecondForkFails(h) PROVE Holdings'
  BY <1>2, ForkKeeps
<1>3. ASSUME NEW h \in Hosts, ForkFails(h) PROVE Holdings'
  BY <1>3, SameEnds, SameHosts DEF ForkFails
<1>4. ASSUME NEW h \in Hosts,
             ClosePidWrite(h) \/ ReadPid(h) \/ CloseEnds(h) \/ ReturnFromStart(h)
      PROVE  Holdings'
  BY <1>4, ClosePidWriteKeeps, ReadPidKeeps, CloseEndsKeeps, ReturnFromStartKeeps
<1>5. ASSUME NEW h \in Hosts,
             ReadEnd(h) \/ DeleteProcess(h) \/ StopGame(h) \/ StopProcess(h)
      PROVE  Holdings'
  BY <1>5, ReadEndKeeps, DeleteProcessKeeps, StopKeeps
<1>6. ASSUME NEW l \in Launch, EngineExit(l) PROVE Holdings'
  BY <1>6, SameEnds, SameHosts DEF EngineExit
<1>7. ASSUME NEW a \in Admins,
             \/ Connect(a) \/ AcceptFails(a) \/ HangUp(a) \/ AdminStep(a)
      PROVE  Holdings'
  BY <1>7, AdminKeeps
<1>8. CASE UNCHANGED vars
  BY <1>8, SameEnds, SameHosts DEF vars
<1> QED
  BY <1>1, <1>2, <1>3, <1>4, <1>5, <1>6, <1>7, <1>8 DEF Next, HostStep, StartStep

(* How the place of a host changes.                                        *)
LEMMA LaunchedKeeps ==
  ASSUME Inv, [Next]_vars
  PROVE  Launched'
<1>0. TypeOK /\ Launched
  BY DEF Inv
<1>1. ASSUME NEW h \in Hosts,
             \A g \in Hosts \ {h} : host'[g] = host[g] /\ stopper'[g] = stopper[g],
             host'[h].pc # "idle" => host'[h].n # 0,
             stopper'[h] # "none" => host'[h].pc \in {"run", "ended", "gone"}
      PROVE  Launched'
  BY <1>0, <1>1 DEF Launched
<1>2. ASSUME NEW h \in Hosts, MakePipes(h) \/ PipesFail(h) PROVE Launched'
  <2>1. /\ host[h].pc = "idle" /\ stopper' = stopper /\ stopper[h] = "none"
        /\ \A g \in Hosts \ {h} : host'[g] = host[g]
        /\ host'[h].pc = "idle" \/ host'[h].n = host[h].n + 1
    BY <1>0, <1>2, HostTypes DEF MakePipes, PipesFail, CanPipe, At, Launched, HostType
  <2>2. host[h].n \in Nat
    BY <1>0, HostTypes
  <2> QED
    BY <1>1, <2>1, <2>2
<1>3. ASSUME NEW h \in Hosts, Fork(h) PROVE Launched'
  <2>1. /\ host[h].pc = "fork" /\ stopper' = stopper
        /\ \A g \in Hosts \ {h} : host'[g] = host[g]
        /\ host'[h].n = host[h].n
    BY <1>0, <1>3, HostTypes DEF Fork, At, HostType
  <2> QED
    BY <1>0, <1>1, <2>1 DEF Launched
<1>4. ASSUME NEW h \in Hosts, NEW to \in Places \ {"idle"}, Goto(h, to), stopper' = stopper,
             host[h].pc # "idle",
             host[h].pc \in {"run", "ended", "gone"} => to \in {"run", "ended", "gone"}
      PROVE  Launched'
  <2>1. /\ \A g \in Hosts \ {h} : host'[g] = host[g]
        /\ host'[h].n = host[h].n /\ host'[h].pc = to
    BY <1>0, <1>4, Goes
  <2> QED
    BY <1>0, <1>1, <1>4, <2>1 DEF Launched
<1>5. ASSUME NEW h \in Hosts, StartStep(h), ~Fork(h), ~ForkFails(h) PROVE Launched'
  BY <1>4, <1>5 DEF StartStep, SecondForkFails, ClosePidWrite, ReadPid, CloseEnds,
                    ReturnFromStart, At, Places
<1>6. ASSUME NEW h \in Hosts, ReadEnd(h) PROVE Launched'
  BY <1>4, <1>6 DEF ReadEnd, At, Places
<1>7. ASSUME NEW h \in Hosts, DeleteProcess(h) PROVE Launched'
  <2>1. /\ host[h].pc = "ended" /\ stopper[h] # "closed" /\ stopper' = stopper
        /\ Goto(h, IF stopper[h] = "deleted" THEN "gone" ELSE "idle")
    BY <1>7 DEF DeleteProcess, At
  <2>2. CASE stopper[h] = "deleted"
    BY <1>4, <2>1, <2>2 DEF Places
  <2>3. CASE stopper[h] # "deleted"
    <3>1. stopper[h] = "none"
      BY <1>0, <2>1, <2>3 DEF TypeOK
    <3>2. host'[h].pc = "idle" /\ \A g \in Hosts \ {h} : host'[g] = host[g]
      BY <1>0, <2>1, <2>3, Goes DEF Places
    <3> QED
      BY <1>1, <2>1, <3>1, <3>2
  <2> QED
    BY <2>2, <2>3
<1>8. ASSUME NEW h \in Hosts, StopGame(h) \/ StopProcess(h) PROVE Launched'
  <2>1. /\ host' = host /\ host[h].pc \in {"run", "ended", "gone"}
        /\ \A g \in Hosts \ {h} : stopper'[g] = stopper[g]
    BY <1>0, <1>8 DEF StopGame, StopProcess, At, Launched, TypeOK
  <2> QED
    BY <1>0, <1>1, <2>1 DEF Launched
<1>9. CASE UNCHANGED <<host, stopper>>
  BY <1>0, <1>9 DEF Launched
<1>10. CASE \E h \in Hosts : ForkFails(h)
  BY <1>9, <1>10 DEF ForkFails
<1>11. CASE \/ \E l \in Launch : EngineExit(l)
            \/ \E a \in Admins : Connect(a) \/ AcceptFails(a) \/ HangUp(a) \/ AdminStep(a)
            \/ UNCHANGED vars
  BY <1>9, <1>11 DEF EngineExit, Connect, AcceptFails, HangUp, AdminStep, Notice, CloseOut,
                     CloseIn, vars
<1> QED
  BY <1>2, <1>3, <1>5, <1>6, <1>7, <1>8, <1>10, <1>11 DEF Next, HostStep

(* Only launches that are left can begin.                                  *)
LEMMA LaunchesLeft ==
  ASSUME TypeOK, NEW h \in Hosts, CanPipe(h)
  PROVE  host[h].n + 1 \in 1 .. MaxLaunches
<1> DEFINE begun == {l \in Launch : l[2] <= host[l[1]].n}
           mine  == {h} \X (1 .. MaxLaunches)
<1>1. host[h].n \in 0 .. MaxLaunches
  BY HostTypes
<1>2. SUFFICES ASSUME host[h].n = MaxLaunches PROVE FALSE
  BY <1>1
<1>3. IsFiniteSet(1 .. MaxLaunches) /\ Cardinality(1 .. MaxLaunches) = MaxLaunches
  BY FS_Interval
<1>4. IsFiniteSet(Launch)
  BY <1>3, FS_Product, HostsAssumption DEF Launch
<1>5. IsFiniteSet(begun)
  BY <1>4, FS_Subset
<1>6. mine \subseteq begun
  <2>1. \A l \in mine : l \in Launch /\ l[1] = h /\ l[2] \in 1 .. MaxLaunches
    BY DEF Launch
  <2>2. \A l \in mine : l[2] <= host[l[1]].n
    BY <1>2, <2>1
  <2> QED
    BY <2>1, <2>2
<1>7. Cardinality(mine) = 1 * MaxLaunches
  <2> DEFINE one  == {h}
             upTo == 1 .. MaxLaunches
  <2>1. IsFiniteSet(one) /\ Cardinality(one) = 1
    BY FS_Singleton
  <2>2. IsFiniteSet(upTo) /\ Cardinality(upTo) = MaxLaunches
    BY <1>3
  <2>3. mine = one \X upTo
    OBVIOUS
  <2> HIDE DEF one, upTo, mine
  <2>4. Cardinality(one \X upTo) = Cardinality(one) * Cardinality(upTo)
    BY <2>1, <2>2, FS_Product
  <2> QED
    BY <2>1, <2>2, <2>3, <2>4
<1>8. Cardinality(mine) <= Cardinality(begun) /\ Cardinality(begun) \in Nat
  BY <1>5, <1>6, FS_Subset, FS_CardinalityType
<1>9. Cardinality(begun) < MaxLaunches
  BY DEF CanPipe
<1> QED
  BY <1>7, <1>8, <1>9

(* The type invariant, variable by variable ...                            *)
LEMMA TypeParts ==
  ASSUME TypeOK
  PROVE  /\ table \in [Numbers -> End \cup {Free}]
         /\ host \in [Hosts -> HostType]
         /\ stopper \in [Hosts -> {"none", "closed", "deleted"}]
         /\ engine \in [Launch -> {"none", "runs", "gone"}]
         /\ held \in [Launch -> SUBSET End] /\ stuck \in [Launch -> SUBSET End]
         /\ admin \in [Admins -> AdminType]
         /\ listening \in BOOLEAN /\ alive \in BOOLEAN /\ foreign \subseteq Sites
         /\ told \subseteq Admins \X (Launch \cup (Admins \X {1}))
         /\ leaked \in BOOLEAN /\ overlaps \subseteq Launch \X Launch
  BY DEF TypeOK, HostType, AdminType

(* ... and for the next state.                                             *)
LEMMA NextType ==
  ASSUME table' \in [Numbers -> End \cup {Free}], host' \in [Hosts -> HostType],
         stopper' \in [Hosts -> {"none", "closed", "deleted"}],
         engine' \in [Launch -> {"none", "runs", "gone"}],
         held' \in [Launch -> SUBSET End], stuck' \in [Launch -> SUBSET End],
         admin' \in [Admins -> AdminType], listening' \in BOOLEAN, alive' \in BOOLEAN,
         foreign' \subseteq Sites, told' \subseteq Admins \X (Launch \cup (Admins \X {1})),
         leaked' \in BOOLEAN, overlaps' \subseteq Launch \X Launch
  PROVE  TypeOK'
  BY DEF TypeOK, HostType, AdminType

(* What a forked process gets is ends, whatever it closes.                 *)
LEMMA InheritedEnds ==
  ASSUME TypeOK, NEW numbers
  PROVE  Inherited(numbers) \subseteq End
  BY DEF TypeOK, Inherited

(* The pairs noted are pairs of launches.                                  *)
LEMMA OverlapsType ==
  ASSUME Inv, NEW h \in Hosts, host[h].pc # "idle", NoteOverlaps(h)
  PROVE  overlaps' \subseteq Launch \X Launch
<1>1. Current(h) \in Launch
  BY KeepsOwn DEF Inv
<1>2. \A g \in Hosts : Starting(g) => Current(g) \in Launch
  BY KeepsOwn DEF Inv, Starting
<1>3. {<<Current(g), Current(h)>> : g \in {g \in Hosts \ {h} : Starting(g)}}
         \subseteq Launch \X Launch
  BY <1>1, <1>2
<1>4. overlaps \subseteq Launch \X Launch
  BY TypeParts DEF Inv
<1> QED
  BY <1>3, <1>4 DEF NoteOverlaps

(* A killed engine.                                                        *)
LEMMA KillType ==
  ASSUME TypeOK, NEW h \in Hosts, Kill(h)
  PROVE  engine' \in [Launch -> {"none", "runs", "gone"}] /\ held' \in [Launch -> SUBSET End]
<1>1. engine \in [Launch -> {"none", "runs", "gone"}] /\ held \in [Launch -> SUBSET End]
  BY TypeParts
<1> QED
  BY <1>1 DEF Kill

(* The table with new pipes in it.                                         *)
LEMMA PipesType ==
  ASSUME TypeOK, NEW l \in Launch, NEW count \in 0 .. 3, table' = WithPipes(l, count)
  PROVE  table' \in [Numbers -> End \cup {Free}]
<1>1. ASSUME NEW k \in Numbers, table[k] = Free, Rank(k) <= 2 * count
      PROVE  PipeNames[(Rank(k) + 1) \div 2] \in {"to", "from", "pid"}
  <2>1. Rank(k) \in 1 .. 6
    <3>1. Rank(k) \in 1 .. Cardinality(FreeNumbers) /\ Cardinality(FreeNumbers) \in Nat
      BY <1>1, NthFreeProperties, RankNat DEF FreeNumbers
    <3> QED
      BY <1>1, <3>1
  <2>2. (Rank(k) + 1) \div 2 \in 1 .. 3
    BY <2>1
  <2> QED
    BY <2>2 DEF PipeNames
<1>2. ASSUME NEW k \in Numbers PROVE table'[k] \in End \cup {Free}
  <2>1. table[k] \in End \cup {Free}
    BY TypeParts
  <2>2. \/ table'[k] = table[k]
        \/ /\ table[k] = Free /\ Rank(k) <= 2 * count
           /\ \E f \in {"r", "w"} : table'[k] = PipeOf(l, PipeNames[(Rank(k) + 1) \div 2], f)
    BY DEF WithPipes
  <2>3. CASE /\ table[k] = Free /\ Rank(k) <= 2 * count
             /\ \E f \in {"r", "w"} : table'[k] = PipeOf(l, PipeNames[(Rank(k) + 1) \div 2], f)
    <3>1. table'[k] \in PipeEnd
      BY <1>1, <2>3, EndsDiffer
    <3> QED
      BY <3>1 DEF End
  <2> QED
    BY <2>1, <2>2, <2>3
<1>3. table' = [k \in Numbers |-> table'[k]]
  BY DEF WithPipes
<1> QED
  BY <1>2, <1>3

(* Any step keeps the types.                                               *)
LEMMA TypeKeeps ==
  ASSUME Inv, [Next]_vars
  PROVE  TypeOK'
<1>0. TypeOK /\ Launched
  BY DEF Inv
<1>1. ASSUME NEW h \in Hosts, MakePipes(h) PROVE TypeOK'
  <2>1. host[h].n + 1 \in 1 .. MaxLaunches
    BY <1>0, <1>1, LaunchesLeft DEF MakePipes
  <2>2. <<h, host[h].n + 1>> \in Launch
    BY <2>1 DEF Launch
  <2>3. table' \in [Numbers -> End \cup {Free}]
    BY <1>0, <1>1, <2>2, PipesType DEF MakePipes
  <2>4. \A i \in 1 .. 6 : NthFree(i) \in Numbers
    BY <1>1, SixPipes DEF MakePipes
  <2>5. PipeNumbers(1) \in NumberPair /\ PipeNumbers(2) \in NumberPair
        /\ PipeNumbers(3) \in NumberPair
    BY <2>4 DEF PipeNumbers, NumberPair
  <2>6. host' \in [Hosts -> HostType]
    <3>1. host \in [Hosts -> HostType] /\ host[h].n + 1 \in 0 .. MaxLaunches
      BY <1>0, <2>1, TypeParts
    <3>2. [pc |-> "fork", n |-> host[h].n + 1, known |-> FALSE, to |-> PipeNumbers(1),
           from |-> PipeNumbers(2), pid |-> PipeNumbers(3)] \in HostType
      BY <2>5, <3>1 DEF HostType
    <3> QED
      BY <1>1, <3>1, <3>2 DEF MakePipes
  <2> QED
    BY <1>0, <1>1, <2>3, <2>6, TypeParts, NextType DEF MakePipes
<1>2. ASSUME NEW h \in Hosts, PipesFail(h) PROVE TypeOK'
  <2>1. host[h].n + 1 \in 1 .. MaxLaunches
    BY <1>0, <1>2, LaunchesLeft DEF PipesFail
  <2>2. <<h, host[h].n + 1>> \in Launch
    BY <2>1 DEF Launch
  <2>3. Cardinality(FreeNumbers) \div 2 \in 0 .. 3
    <3>1. Cardinality(FreeNumbers) \in Nat /\ Cardinality(FreeNumbers) < 6
      BY <1>2, RankNat DEF PipesFail
    <3> QED
      BY <3>1
  <2>4. table' \in [Numbers -> End \cup {Free}]
    BY <1>0, <1>2, <2>2, <2>3, PipesType DEF PipesFail
  <2>5. host' \in [Hosts -> HostType]
    <3>1. host \in [Hosts -> HostType] /\ host[h].n + 1 \in 0 .. MaxLaunches
      BY <1>0, <2>1, TypeParts
    <3> QED
      BY <1>2, <3>1 DEF PipesFail, HostType
  <2>6. leaked' \in BOOLEAN
    BY <1>2 DEF PipesFail
  <2> QED
    BY <1>0, <1>2, <2>4, <2>5, <2>6, TypeParts, NextType DEF PipesFail
<1>3. ASSUME NEW h \in Hosts, Fork(h) PROVE TypeOK'
  <2>1. host[h].pc = "fork" /\ Current(h) \in Launch
    BY <1>0, <1>3, KeepsOwn DEF Fork, At
  <2>2. overlaps' \subseteq Launch \X Launch
    BY <1>3, <2>1, OverlapsType DEF Fork
  <2>3. host' \in [Hosts -> HostType]
    <3>1. host \in [Hosts -> HostType]
      BY <1>0, TypeParts
    <3> QED
      BY <1>3, <3>1 DEF Fork, HostType
  <2>4. engine' \in [Launch -> {"none", "runs", "gone"}] /\ held' \in [Launch -> SUBSET End]
    <3>1. Inherited({host[h].pid.r, host[h].to.w, host[h].from.r}) \subseteq End
      BY <1>0, InheritedEnds
    <3> QED
      BY <1>0, <1>3, <3>1, TypeParts DEF Fork
  <2> QED
    BY <1>0, <1>3, <2>2, <2>3, <2>4, TypeParts, NextType DEF Fork
<1>4. ASSUME NEW h \in Hosts, ForkFails(h) PROVE TypeOK'
  BY <1>0, <1>4, TypeParts, NextType DEF ForkFails
<1>5. ASSUME NEW h \in Hosts, SecondForkFails(h) PROVE TypeOK'
  <2>1. host[h].pc = "fork" /\ Current(h) \in Launch
    BY <1>0, <1>5, KeepsOwn DEF SecondForkFails, At
  <2>2. overlaps' \subseteq Launch \X Launch
    BY <1>5, <2>1, OverlapsType DEF SecondForkFails
  <2>3. host' \in [Hosts -> HostType]
    BY <1>0, <1>5, Goes DEF SecondForkFails, Places
  <2>4. engine' \in [Launch -> {"none", "runs", "gone"}] /\ held' \in [Launch -> SUBSET End]
    <3>1. engine \in [Launch -> {"none", "runs", "gone"}] /\ held \in [Launch -> SUBSET End]
      BY <1>0, TypeParts
    <3> QED
      BY <1>5, <3>1 DEF SecondForkFails
  <2>5. stuck' \in [Launch -> SUBSET End]
    <3>1. Inherited({host[h].pid.r}) \subseteq End /\ stuck \in [Launch -> SUBSET End]
      BY <1>0, InheritedEnds, TypeParts
    <3>2. \/ stuck' = [stuck EXCEPT ![Current(h)] = Inherited({host[h].pid.r})]
          \/ stuck' = stuck
      BY <1>5 DEF SecondForkFails
    <3> QED
      BY <3>1, <3>2
  <2> QED
    BY <1>0, <1>5, <2>2, <2>3, <2>4, <2>5, TypeParts, NextType DEF SecondForkFails
<1>6. ASSUME NEW h \in Hosts, NEW pairs, NEW site \in Sites, NEW to \in Places,
             Close(pairs, site) \/ UNCHANGED <<table, foreign>>, Goto(h, to) \/ host' = host,
             stopper' \in [Hosts -> {"none", "closed", "deleted"}],
             Kill(h) \/ UNCHANGED <<engine, held>>,
             UNCHANGED <<stuck, admin, listening, alive, told, leaked, overlaps>>
      PROVE  TypeOK'
  <2>1. table' \in [Numbers -> End \cup {Free}] /\ foreign' \subseteq Sites
    BY <1>0, <1>6, CloseType, TypeParts
  <2>2. host' \in [Hosts -> HostType]
    BY <1>0, <1>6, Goes, TypeParts
  <2>3. engine' \in [Launch -> {"none", "runs", "gone"}] /\ held' \in [Launch -> SUBSET End]
    BY <1>0, <1>6, KillType, TypeParts
  <2> QED
    BY <1>0, <1>6, <2>1, <2>2, <2>3, TypeParts, NextType
<1>7. ASSUME NEW h \in Hosts, ClosePidWrite(h) PROVE TypeOK'
  BY <1>0, <1>6, <1>7, TypeParts DEF ClosePidWrite, Sites, Places
<1>8. ASSUME NEW h \in Hosts, ReadPid(h) PROVE TypeOK'
  <2>1. "close" \in Places /\ "readLine" \in Sites
    BY DEF Places, Sites
  <2> QED
    BY <1>0, <1>6, <1>8, <2>1, TypeParts DEF ReadPid
<1>9. ASSUME NEW h \in Hosts, CloseEnds(h) PROVE TypeOK'
  <2>1. "return" \in Places /\ (IF host[h].known THEN "start" ELSE "pidread") \in Sites
    BY DEF Places, Sites
  <2> QED
    BY <1>0, <1>6, <1>9, <2>1, TypeParts DEF CloseEnds
<1>10. ASSUME NEW h \in Hosts, ReturnFromStart(h) PROVE TypeOK'
  BY <1>0, <1>6, <1>10, TypeParts DEF ReturnFromStart, Sites, Places
<1>11. ASSUME NEW h \in Hosts, ReadEnd(h) PROVE TypeOK'
  <2>1. /\ (IF stopper[h] = "deleted" THEN "gone" ELSE "ended") \in Places
        /\ (IF stopper[h] = "deleted" THEN "freedProcess" ELSE "readLine") \in Sites
    BY DEF Places, Sites
  <2> QED
    BY <1>0, <1>6, <1>11, <2>1, TypeParts DEF ReadEnd
<1>12. ASSUME NEW h \in Hosts, DeleteProcess(h) PROVE TypeOK'
  <2>1. /\ (IF stopper[h] = "deleted" THEN "gone" ELSE "idle") \in Places
        /\ "process" \in Sites
    BY DEF Places, Sites
  <2> QED
    BY <1>0, <1>6, <1>12, <2>1, TypeParts DEF DeleteProcess
<1>13. ASSUME NEW h \in Hosts, StopGame(h) PROVE TypeOK'
  <2>1. "idle" \in Places /\ "exit" \in Sites
        /\ stopper' \in [Hosts -> {"none", "closed", "deleted"}]
    BY <1>0, <1>13, TypeParts DEF Places, Sites, StopGame
  <2> QED
    BY <1>6, <1>13, <2>1 DEF StopGame
<1>14. ASSUME NEW h \in Hosts, StopProcess(h) PROVE TypeOK'
  <2>1. "idle" \in Places /\ "process" \in Sites
        /\ stopper' \in [Hosts -> {"none", "closed", "deleted"}]
    BY <1>0, <1>14, TypeParts DEF Places, Sites, StopProcess
  <2> QED
    BY <1>6, <1>14, <2>1 DEF StopProcess
<1>15. ASSUME NEW l \in Launch, EngineExit(l) PROVE TypeOK'
  <2>1. engine' \in [Launch -> {"none", "runs", "gone"}] /\ held' \in [Launch -> SUBSET End]
    BY <1>0, <1>15, TypeParts DEF EngineExit
  <2> QED
    BY <1>0, <1>15, <2>1, TypeParts, NextType DEF EngineExit
<1>16. ASSUME NEW a \in Admins, Connect(a) PROVE TypeOK'
  <2>1. NthFree(1) \in Numbers
    <3>1. Cardinality(FreeNumbers) # 0 /\ Cardinality(FreeNumbers) \in Nat
      BY <1>16, RankNat, FS_EmptySet DEF Connect
    <3>2. 1 \in 1 .. Cardinality(FreeNumbers)
      BY <3>1
    <3> QED
      BY <3>2, NthFreeProperties DEF FreeNumbers
  <2>2. admin' \in [Admins -> AdminType] /\ table' \in [Numbers -> End \cup {Free}]
    <3>1. SocketOf(a) \in End /\ [pc |-> "open", number |-> NthFree(1)] \in AdminType
      BY <2>1, EndsDiffer DEF End, AdminType
    <3> QED
      BY <1>0, <1>16, <3>1, TypeParts DEF Connect
  <2> QED
    BY <1>0, <1>16, <2>2, TypeParts, NextType DEF Connect
<1>17. ASSUME NEW a \in Admins, AcceptFails(a) PROVE TypeOK'
  BY <1>0, <1>17, TypeParts, NextType DEF AcceptFails
<1>18. ASSUME NEW a \in Admins, HangUp(a) \/ CloseOut(a) \/ CloseIn(a) PROVE TypeOK'
  <2>1. PICK site \in {"readLine", "userControl"} : Close(Connection(a), site)
    BY <1>18 DEF HangUp, CloseOut, CloseIn
  <2>2. table' \in [Numbers -> End \cup {Free}] /\ foreign' \subseteq Sites
    BY <1>0, <2>1, CloseType DEF Sites
  <2>3. admin' \in [Admins -> AdminType]
    BY <1>0, <1>18, AdminMoves DEF HangUp, CloseOut, CloseIn
  <2>4. UNCHANGED <<host, stopper, engine, held, stuck, listening, alive, told, leaked,
                    overlaps>>
    BY <1>18 DEF HangUp, CloseOut, CloseIn
  <2> QED
    BY <1>0, <2>2, <2>3, <2>4, TypeParts, NextType
<1>19. ASSUME NEW a \in Admins, Notice(a) PROVE TypeOK'
  <2>1. admin' \in [Admins -> AdminType]
    BY <1>0, <1>19, AdminMoves DEF Notice
  <2>2. table[admin[a].number] \in PipeEnd \cup Socket
    BY <1>19 DEF Notice, CanWrite
  <2>3. table[admin[a].number].owner \in Launch \cup (Admins \X {1})
    BY <2>2, EndsDiffer
  <2>4. told' \subseteq Admins \X (Launch \cup (Admins \X {1}))
    BY <1>0, <1>19, <2>3, TypeParts DEF Notice
  <2> QED
    BY <1>0, <1>19, <2>1, <2>4, TypeParts, NextType DEF Notice
<1>20. CASE UNCHANGED vars
  BY <1>0, <1>20, TypeParts, NextType DEF vars
<1> QED
  BY <1>1, <1>2, <1>3, <1>4, <1>5, <1>7, <1>8, <1>9, <1>10, <1>11, <1>12, <1>13, <1>14,
     <1>15, <1>16, <1>17, <1>18, <1>19, <1>20 DEF Next, HostStep, StartStep, AdminStep

LEMMA InitInv ==
  ASSUME Init
  PROVE  Inv
<1>1. TypeOK
  <2>1. NoPair \in NumberPair /\ 0 \in 0 .. MaxLaunches
    BY LaunchesAssumption DEF NoPair, NumberPair
  <2>2. [pc |-> "idle", n |-> 0, known |-> FALSE, to |-> NoPair, from |-> NoPair,
         pid |-> NoPair] \in HostType
    BY <2>1 DEF HostType
  <2>3. host \in [Hosts -> HostType]
    BY <2>2 DEF Init
  <2>4. admin \in [Admins -> AdminType] /\ table \in [Numbers -> End \cup {Free}]
    BY DEF Init, AdminType
  <2> QED
    BY <2>3, <2>4 DEF Init, TypeOK, HostType, AdminType
<1>2. Launched
  BY DEF Init, Launched
<1>3. \A h \in Hosts : \A k, e : ~Keeps(h, k, e)
  BY DEF Init, Keeps, BeforeClose, HasPidW, HasPidR, HasToW, HasFromR
<1>4. HoldTheirs
  BY <1>3 DEF HoldTheirs, Init
<1>5. NoOthers
  BY EndsDiffer DEF NoOthers, Init
<1> QED
  BY <1>1, <1>2, <1>4, <1>5 DEF Inv, Holdings

LEMMA StepInv ==
  ASSUME Inv, [Next]_vars
  PROVE  Inv'
BY TypeKeeps, LaunchedKeeps, HoldingsKeep DEF Inv

(* What a host or an admin has open is what its numbers stand for, and     *)
(* there are no other ends of pipes, until a number is closed in somebody  *)
(* else's hands (ExternalApp.cpp, lines 63 to 109; Stream.cpp, line 65).   *)
THEOREM InvHolds == Spec => []Inv
<1>1. Init => Inv
  BY InitInv
<1>2. Inv /\ [Next]_vars => Inv'
  BY StepInv
<1> QED
  BY <1>1, <1>2, PTL DEF Spec

(* The state stays in its type: no launch is counted that is not one of    *)
(* the bound, and no number is used that open() cannot return.             *)
THEOREM TypesHold == Spec => []TypeOK
<1>1. Inv => TypeOK
  BY DEF Inv
<1> QED
  BY <1>1, InvHolds, PTL

(* Until a number is closed in somebody else's hands, each Process reads   *)
(* from and writes to its own engine (ExternalApp.cpp, lines 63 to 109)    *)
(* and each connection is its admin's (ListenSocket.cpp, Main.cpp),        *)
(* however many hosts, launches, ends and admins there are.                *)
THEOREM OwnEndsHold == Spec => []OwnEnds
<1>1. ASSUME Inv PROVE OwnEnds
  <2> SUFFICES ASSUME foreign = {}
               PROVE  /\ \A h \in Hosts : host[h].pc = "run" /\ stopper[h] = "none" =>
                            /\ table[host[h].from.r] = Own(h, "from", "r")
                            /\ table[host[h].to.w] = Own(h, "to", "w")
                      /\ \A a \in Admins : admin[a].pc = "open" =>
                            table[admin[a].number] = SocketOf(a)
    BY DEF OwnEnds
  <2>1. TypeOK /\ Launched /\ HoldTheirs
    BY <1>1 DEF Inv, Holdings
  <2>2. ASSUME NEW h \in Hosts, host[h].pc = "run", stopper[h] = "none"
        PROVE  /\ table[host[h].from.r] = Own(h, "from", "r")
               /\ table[host[h].to.w] = Own(h, "to", "w")
    <3>1. HasFromR(h) /\ HasToW(h)
      BY <2>2 DEF HasFromR, HasToW
    <3> QED
      BY <2>1, <3>1, KeepsEach
  <2>3. \A a \in Admins : admin[a].pc = "open" => table[admin[a].number] = SocketOf(a)
    BY <2>1 DEF HoldTheirs
  <2> QED
    BY <2>2, <2>3
<1> QED
  BY <1>1, InvHolds, PTL

(* A launch that has been brought to its end leaves no descriptor open,    *)
(* unless a pipe() failed (ExternalApp.cpp, lines 63, 101 to 109, 159).    *)
THEOREM NothingIsLeft == Spec => []NothingLeaks
<1>1. ASSUME Inv PROVE NothingLeaks
  <2> SUFFICES ASSUME foreign = {}, ~leaked, NEW k \in Numbers, table[k] \in PipeEnd
               PROVE  /\ Owns(table[k].owner[1])
                      /\ host[table[k].owner[1]].n = table[k].owner[2]
    BY DEF NothingLeaks
  <2>1. TypeOK /\ Launched /\ NoOthers
    BY <1>1 DEF Inv, Holdings
  <2>2. PICK h \in Hosts : Keeps(h, k, table[k])
    BY <2>1 DEF NoOthers
  <2>3. table[k].owner = <<h, host[h].n>> /\ host[h].pc \notin {"idle", "gone"}
    BY <2>1, <2>2, KeepsOwn DEF Current
  <2> QED
    BY <2>3 DEF Owns
<1> QED
  BY <1>1, InvHolds, PTL

(* Closes of what is one's own, and closes that may be second ones.        *)
LEMMA FirstCloseIsOwn ==
  ASSUME Inv, Next, foreign = {}
  PROVE  foreign' \subseteq {"pidread", "process", "freedProcess", "userControl"}
<1> DEFINE again == {"pidread", "process", "freedProcess", "userControl"}
<1>0. TypeOK /\ Launched /\ HoldTheirs
  BY DEF Inv, Holdings
<1>1. ASSUME NEW pairs, NEW site \in again, Close(pairs, site)
      PROVE  foreign' \subseteq again
  BY <1>1, CloseEffect
<1>2. ASSUME NEW h \in Hosts, ClosePidWrite(h) PROVE foreign' = foreign
  <2>1. table[host[h].pid.w] = Own(h, "pid", "w")
    BY <1>0, <1>2, KeepsEach DEF ClosePidWrite, At, HasPidW
  <2> QED
    BY <1>2, <2>1, CloseOfOwn DEF ClosePidWrite
<1>3. ASSUME NEW h \in Hosts, ReadPid(h) PROVE foreign' = foreign
  <2>1. table[host[h].pid.r] = Own(h, "pid", "r")
    BY <1>0, <1>3, KeepsEach DEF ReadPid, At, HasPidR
  <2> QED
    BY <1>3, <2>1, CloseOfOwn DEF ReadPid
<1>4. ASSUME NEW h \in Hosts, CloseEnds(h) PROVE foreign' \subseteq again
  <2>1. CASE host[h].known
    <3>1. /\ table[host[h].pid.r] = Own(h, "pid", "r")
          /\ table[host[h].to.r] = Own(h, "to", "r")
          /\ table[host[h].from.w] = Own(h, "from", "w")
      BY <1>0, <1>4, <2>1, KeepsEach DEF CloseEnds, At, HasPidR, BeforeClose
    <3>2. \A p \in EnginesEnds(h) : table[p[1]] = p[2]
      BY <3>1 DEF EnginesEnds
    <3>3. Close(EnginesEnds(h), "start")
      BY <1>4, <2>1 DEF CloseEnds
    <3> QED
      BY <3>2, <3>3, CloseOfOwn
  <2>2. CASE ~host[h].known
    BY <1>1, <1>4, <2>2 DEF CloseEnds
  <2> QED
    BY <2>1, <2>2
<1>5. ASSUME NEW h \in Hosts, ReturnFromStart(h) PROVE foreign' \subseteq again
  BY <1>1, <1>5 DEF ReturnFromStart
<1>6. ASSUME NEW h \in Hosts, ReadEnd(h) PROVE foreign' \subseteq again
  <2>1. CASE stopper[h] = "deleted"
    BY <1>1, <1>6, <2>1 DEF ReadEnd
  <2>2. CASE stopper[h] # "deleted"
    <3>1. table[host[h].from.r] = Own(h, "from", "r")
      BY <1>0, <1>6, <2>2, KeepsEach DEF ReadEnd, At, HasFromR
    <3>2. Close({<<host[h].from.r, Own(h, "from", "r")>>}, "readLine")
      BY <1>6, <2>2 DEF ReadEnd
    <3> QED
      BY <3>1, <3>2, CloseOfOwn
  <2> QED
    BY <2>1, <2>2
<1>7. ASSUME NEW h \in Hosts, StopGame(h) PROVE foreign' = foreign
  <2>1. table[host[h].to.w] = Own(h, "to", "w")
    BY <1>0, <1>7, KeepsEach DEF StopGame, At, HasToW
  <2> QED
    BY <1>7, <2>1, CloseOfOwn DEF StopGame
<1>8. ASSUME NEW h \in Hosts, DeleteProcess(h) \/ StopProcess(h)
      PROVE  foreign' \subseteq again
  BY <1>1, <1>8 DEF DeleteProcess, StopProcess
<1>9. ASSUME NEW a \in Admins, HangUp(a) PROVE foreign' = foreign
  <2>1. table[admin[a].number] = SocketOf(a)
    BY <1>0, <1>9 DEF HangUp, AdminAt, HoldTheirs
  <2>2. \A p \in Connection(a) : table[p[1]] = p[2]
    BY <2>1 DEF Connection
  <2> QED
    BY <1>9, <2>2, CloseOfOwn DEF HangUp
<1>10. ASSUME NEW a \in Admins, CloseOut(a) \/ CloseIn(a) PROVE foreign' \subseteq again
  BY <1>1, <1>10 DEF CloseOut, CloseIn
<1>11. CASE \/ \E h \in Hosts : MakePipes(h) \/ PipesFail(h) \/ Fork(h) \/ ForkFails(h)
                                \/ SecondForkFails(h)
            \/ \E l \in Launch : EngineExit(l)
            \/ \E a \in Admins : Connect(a) \/ AcceptFails(a) \/ Notice(a)
  BY <1>11 DEF MakePipes, PipesFail, Fork, ForkFails, SecondForkFails, EngineExit, Connect,
               AcceptFails, Notice
<1> QED
  BY <1>2, <1>3, <1>4, <1>5, <1>6, <1>7, <1>8, <1>9, <1>10, <1>11
     DEF Next, HostStep, StartStep, AdminStep

(* The first close that hits somebody else's number is a second close of   *)
(* the caller's: Close (Stream.cpp, lines 65 to 69) does not remember that *)
(* it was called, and no first call ever hits another's.                   *)
THEOREM SecondCloses == Spec => FirstIsSecondClose
<1>1. Inv /\ [Next]_vars => [foreign = {} => foreign' \subseteq {"pidread", "process",
                                              "freedProcess", "userControl"}]_vars
  BY FirstCloseIsOwn
<1> QED
  BY <1>1, InvHolds, PTL DEF Spec, FirstIsSecondClose
=============================================================================
