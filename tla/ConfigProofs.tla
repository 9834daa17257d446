----------------------------- MODULE ConfigProofs -----------------------------
(***************************************************************************)
(* Proofs about Config, for any workers, scenarios and databases, whatever *)
(* rows arrive and however far the sums of floats are off: the table, its  *)
(* count and the sum of its chances fit each other whenever somebody may   *)
(* look, and what goes wrong before a second load has its cause in what    *)
(* the first one was given.                                                *)
(***************************************************************************)
EXTENDS Config, WellFoundedInduction, SequenceTheorems, TLAPS

-----------------------------------------------------------------------------
(* Sums.  ChanceUpTo is about the array as it is; the proof also speaks of *)
(* other ones.                                                             *)

(* ChanceUpTo adds up the chances of scens.                                *)
SumUpTo(s) == LET sum[k \in 0 .. Len(s)] ==
                    IF k = 0 THEN 0 ELSE sum[k - 1] + ChanceOf(s[k])
              IN  sum

LEMMA ChanceUpToIsSum == ChanceUpTo = SumUpTo(scens)
  BY DEF ChanceUpTo, SumUpTo

(* What is wrong for some number up to n is wrong for a first one.  This   *)
(* is all the induction that the proofs below need.                        *)
LEMMA FirstOf ==
  ASSUME NEW n \in Nat, NEW Bad \in SUBSET (0 .. n), Bad # {}
  PROVE  \E m \in Bad : \A j \in 0 .. m - 1 : j \notin Bad
<1> DEFINE R == OpToRel(<, Nat)
<1>1. \A x, y \in Nat : <<x, y>> \in R <=> x < y
  BY DEF OpToRel
<1>2. IsWellFoundedOn(R, Nat)
  BY NatLessThanWellFounded
<1>0. Bad \subseteq Nat
  OBVIOUS
<1> HIDE DEF R
<1>3. PICK m \in Bad : \A y \in Bad : ~ (<<y, m>> \in R)
  BY <1>2, <1>0, WFMin
<1>4. ASSUME NEW y \in Bad PROVE ~ (y < m)
  <2>1. y \in Nat /\ m \in Nat
    BY <1>0
  <2> QED
    BY <2>1, <1>1, <1>3, Zenon
<1>5. m \in Nat
  BY <1>0
<1> QED
  BY <1>4, <1>5

Sums(c, m) == {f \in [0 .. m -> Nat] :
                 \A k \in 0 .. m : f[k] = IF k = 0 THEN 0 ELSE f[k - 1] + c[k]}

(* There are functions that obey the recursion, for every length: one for  *)
(* m - 1 gives one for m.                                                  *)
LEMMA SumExists ==
  ASSUME NEW n \in Nat, NEW c \in [1 .. n -> Nat]
  PROVE  Sums(c, n) # {}
<1> DEFINE Bad == {m \in 0 .. n : Sums(c, m) = {}}
<1>1. SUFFICES ASSUME Bad # {} PROVE FALSE
  <2>1. n \in 0 .. n
    OBVIOUS
  <2> QED
    BY <2>1
<1>2. PICK m \in Bad : \A j \in 0 .. m - 1 : j \notin Bad
  <2>1. Bad \in SUBSET (0 .. n)
    OBVIOUS
  <2> HIDE DEF Bad
  <2> QED
    BY <1>1, <2>1, FirstOf
<1>3. m # 0
  <2>1. [k \in 0 .. 0 |-> 0] \in Sums(c, 0)
    BY DEF Sums
  <2> QED
    BY <2>1, <1>2
<1>4. m \in 1 .. n /\ m - 1 \in 0 .. n /\ Sums(c, m - 1) # {}
  <2>1. m \in 1 .. n /\ m - 1 \in 0 .. n /\ m - 1 \in 0 .. m - 1
    BY <1>2, <1>3
  <2> QED
    BY <2>1, <1>2
<1>5. PICK f \in [0 .. m - 1 -> Nat] :
         \A k \in 0 .. m - 1 : f[k] = IF k = 0 THEN 0 ELSE f[k - 1] + c[k]
  BY <1>4 DEF Sums
<1> DEFINE g == [k \in 0 .. m |-> IF k = m THEN f[m - 1] + c[m] ELSE f[k]]
<1>6. g \in [0 .. m -> Nat]
  BY <1>4
<1>7. ASSUME NEW k \in 0 .. m
      PROVE  g[k] = IF k = 0 THEN 0 ELSE g[k - 1] + c[k]
  <2>1. CASE k = m
    BY <2>1, <1>4
  <2>2. CASE k # m
    BY <2>2, <1>4, <1>5
  <2> QED
    BY <2>1, <2>2
<1>8. g \in Sums(c, m)
  <2> HIDE DEF g
  <2> QED
    BY <1>6, <1>7 DEF Sums
<1> QED
  BY <1>2, <1>8

Element == Scenarios \cup {Unread}

LEMMA ChanceType == \A x \in Element : ChanceOf(x) \in Nat
  BY ChanceAssumption DEF ChanceOf, Element

(* What the recursive definition says, for any array.                      *)
LEMMA SumEquation ==
  ASSUME NEW s \in Seq(Element)
  PROVE  /\ SumUpTo(s) \in [0 .. Len(s) -> Nat]
         /\ SumUpTo(s)[0] = 0
         /\ \A k \in 1 .. Len(s) : SumUpTo(s)[k] = SumUpTo(s)[k - 1] + ChanceOf(s[k])
<1> DEFINE c == [k \in 1 .. Len(s) |-> ChanceOf(s[k])]
<1>0. Len(s) \in Nat /\ \A k \in 1 .. Len(s) : s[k] \in Element /\ ChanceOf(s[k]) \in Nat
  BY ChanceType, LenProperties, ElementOfSeq
<1>1. c \in [1 .. Len(s) -> Nat]
  BY <1>0
<1>2. PICK f \in Sums(c, Len(s)) : TRUE
  <2> HIDE DEF c
  <2> QED
    BY <1>0, <1>1, SumExists
<1>3. f = [k \in 0 .. Len(s) |-> IF k = 0 THEN 0 ELSE f[k - 1] + ChanceOf(s[k])]
  <2>1. \A k \in 0 .. Len(s) : k # 0 => c[k] = ChanceOf(s[k])
    BY <1>0
  <2> HIDE DEF c
  <2>2. \A k \in 0 .. Len(s) : f[k] = IF k = 0 THEN 0 ELSE f[k - 1] + ChanceOf(s[k])
    BY <1>2, <2>1 DEF Sums
  <2>3. f = [k \in 0 .. Len(s) |-> f[k]]
    BY <1>2 DEF Sums
  <2> QED
    BY <2>2, <2>3
<1>4. SumUpTo(s) = [k \in 0 .. Len(s) |-> IF k = 0 THEN 0
                                          ELSE SumUpTo(s)[k - 1] + ChanceOf(s[k])]
  BY <1>3, Zenon DEF SumUpTo
<1> DEFINE S == SumUpTo(s)
<1>5. S = [k \in 0 .. Len(s) |-> IF k = 0 THEN 0 ELSE S[k - 1] + ChanceOf(s[k])]
  BY <1>4
<1> HIDE DEF S
<1>6. /\ S[0] = 0
      /\ \A k \in 1 .. Len(s) : S[k] = S[k - 1] + ChanceOf(s[k])
      /\ S = [k \in 0 .. Len(s) |-> S[k]]
  BY <1>0, <1>5, SMTT(30)
<1>7. \A k \in 0 .. Len(s) : S[k] \in Nat
  <2> DEFINE Bad == {k \in 0 .. Len(s) : S[k] \notin Nat}
  <2>1. SUFFICES ASSUME Bad # {} PROVE FALSE
    OBVIOUS
  <2>2. PICK k \in Bad : \A j \in 0 .. k - 1 : j \notin Bad
    <3>1. Bad \in SUBSET (0 .. Len(s))
      OBVIOUS
    <3> HIDE DEF Bad
    <3> QED
      BY <1>0, <2>1, <3>1, FirstOf
  <2>3. k # 0
    BY <2>2, <1>6
  <2>4. k \in 1 .. Len(s) /\ k - 1 \in 0 .. Len(s) /\ S[k - 1] \in Nat
    BY <2>2, <2>3, <1>0
  <2>5. S[k] = S[k - 1] + ChanceOf(s[k]) /\ ChanceOf(s[k]) \in Nat
    BY <2>4, <1>0, <1>6
  <2> QED
    BY <2>2, <2>4, <2>5
<1> QED
  BY <1>6, <1>7 DEF S

(* An array of which nothing is assigned is worth nothing.                 *)
LEMMA SumOfUnread ==
  ASSUME NEW s \in Seq(Element), \A k \in 1 .. Len(s) : s[k] = Unread
  PROVE  SumUpTo(s)[Len(s)] = 0
<1> DEFINE S   == SumUpTo(s)
           Bad == {k \in 0 .. Len(s) : S[k] # 0}
<1>0. /\ Len(s) \in Nat /\ S[0] = 0
      /\ \A k \in 1 .. Len(s) : S[k] = S[k - 1] + 0
  BY SumEquation, LenProperties DEF ChanceOf
<1>1. SUFFICES ASSUME Bad # {} PROVE FALSE
  <2>1. Len(s) \in 0 .. Len(s)
    BY <1>0
  <2> QED
    BY <2>1
<1> HIDE DEF S
<1>2. PICK m \in Bad : \A j \in 0 .. m - 1 : j \notin Bad
  <2>1. Bad \in SUBSET (0 .. Len(s))
    OBVIOUS
  <2> HIDE DEF Bad
  <2> QED
    BY <1>0, <1>1, <2>1, FirstOf
<1>3. m \in 1 .. Len(s) /\ m - 1 \in 0 .. Len(s) /\ m - 1 \in 0 .. m - 1
  BY <1>0, <1>2
<1> QED
  BY <1>0, <1>2, <1>3

(* To assign an element adds its chance to the sum.                        *)
LEMMA SumReplace ==
  ASSUME NEW s \in Seq(Element), NEW p \in 1 .. Len(s), s[p] = Unread,
         NEW x \in Scenarios
  PROVE  LET t == [s EXCEPT ![p] = x]
         IN  /\ t \in Seq(Element) /\ Len(t) = Len(s)
             /\ SumUpTo(t)[Len(s)] = SumUpTo(s)[Len(s)] + Chance[x]
<1> DEFINE t   == [s EXCEPT ![p] = x]
           n   == Len(s)
           S   == SumUpTo(s)
           T   == SumUpTo(t)
           Bad == {k \in 0 .. n : T[k] # IF k < p THEN S[k] ELSE S[k] + Chance[x]}
<1>1. /\ n \in Nat /\ s \in [1 .. n -> Element]
      /\ x \in Element /\ Chance[x] \in Nat
      /\ ChanceOf(x) = Chance[x] /\ ChanceOf(s[p]) = 0
  BY LenProperties, ElementOfSeq, ChanceAssumption, UnreadAssumption DEF Element, ChanceOf
<1>2. t \in [1 .. n -> Element] /\ \A k \in 1 .. n : t[k] = IF k = p THEN x ELSE s[k]
  BY <1>1
<1>3. t \in Seq(Element) /\ Len(t) = n
  BY <1>1, <1>2, SeqDef
<1> HIDE DEF t
<1>4. /\ S \in [0 .. n -> Nat] /\ S[0] = 0
      /\ \A k \in 1 .. n : S[k] = S[k - 1] + ChanceOf(s[k])
      /\ T \in [0 .. n -> Nat] /\ T[0] = 0
      /\ \A k \in 1 .. n : T[k] = T[k - 1] + ChanceOf(t[k])
  BY <1>3, SumEquation
<1> HIDE DEF S, T, n
<1>5. Bad = {}
  <2>1. SUFFICES ASSUME Bad # {} PROVE FALSE
    OBVIOUS
  <2>2. PICK m \in Bad : \A j \in 0 .. m - 1 : j \notin Bad
    <3>1. Bad \in SUBSET (0 .. n)
      OBVIOUS
    <3> HIDE DEF Bad
    <3> QED
      BY <1>1, <2>1, <3>1, FirstOf
  <2>3. p \in Nat /\ p >= 1
    BY DEF n
  <2>4. m # 0
    BY <1>4, <2>2, <2>3
  <2>5. m \in 1 .. n /\ m - 1 \in 0 .. n /\ m - 1 \in 0 .. m - 1
    BY <1>1, <2>2, <2>4
  <2>6. T[m - 1] = IF m - 1 < p THEN S[m - 1] ELSE S[m - 1] + Chance[x]
    BY <2>2, <2>5
  <2>7. /\ T[m] = T[m - 1] + ChanceOf(t[m]) /\ S[m] = S[m - 1] + ChanceOf(s[m])
        /\ S[m - 1] \in Nat /\ t[m] = IF m = p THEN x ELSE s[m]
        /\ s[m] \in Element
    BY <1>1, <1>2, <1>4, <2>5
  <2>8. ChanceOf(s[m]) \in Nat
    BY <2>7, ChanceType
  <2>9. T[m] = IF m < p THEN S[m] ELSE S[m] + Chance[x]
    <3>1. CASE m = p
      BY <1>1, <2>3, <2>6, <2>7, <3>1
    <3>2. CASE m # p
      <4>1. (m - 1 < p <=> m < p) /\ ChanceOf(t[m]) = ChanceOf(s[m])
        BY <2>3, <2>5, <2>7, <3>2
      <4> QED
        BY <1>1, <2>6, <2>7, <2>8, <4>1
    <3> QED
      BY <3>1, <3>2
  <2> QED
    BY <2>2, <2>9
<1>6. n \in 0 .. n /\ ~(n < p)
  BY <1>1 DEF n
<1> QED
  BY <1>3, <1>5, <1>6 DEF n, S, T, t

-----------------------------------------------------------------------------
(* The invariant.                                                          *)

(* The lock is the admin's from BeginReload to EndReload, for writing, and *)
(* nobody else's ever.                                                     *)
Reloading == admin.pc \in {"connect", "rows", "names", "bans", "end"}

Locks == /\ \A w \in Workers : writes[w] = 0
         /\ reads[Admin] = 0
         /\ writes[Admin] = IF Reloading THEN 1 ELSE 0

(* The table fits m, the number of elements that are missing.              *)
Assigned(s, m) == \A k \in 1 .. Len(s) : s[k] = Unread <=> k <= m

Counted(s, count, m) ==
    Len(s) - m - count \in IF reloads <= 1 THEN {0} ELSE {0, 1}

Slack(n) == Rounding * n

Near(total, s, m) ==
    /\ total - SumUpTo(s)[Len(s)] <= Slack(Len(s) - m)
    /\ SumUpTo(s)[Len(s)] - total <= Slack(Len(s) - m)

Worth(total, s) == (\E k \in 1 .. Len(s) : ChanceOf(s[k]) > 0) => total > 0

Fits(m) == /\ m \in 0 .. Len(scens)
           /\ Assigned(scens, m)
           /\ Counted(scens, scenCount, m)
           /\ Near(chanceTotal, scens, m)
           /\ Worth(chanceTotal, scens)
           /\ admin.pc = "rows" => m = Len(scens) + 1 - admin.row

(* It always fits some number, also while its rows come.                   *)
Table == \E m \in Nat : Fits(m)

(* What else the loader knows.                                             *)
Loader ==
    /\ admin.pc = "wait" => reloads < MaxReloads
    /\ admin.pc = "connect" => scens = <<>>
    /\ admin.pc = "rows" => admin.row \in 1 .. Len(scens) + 1

(* Before and after the first load: nothing goes wrong before its cause.   *)
FirstLoad ==
    /\ Reloading => reloads >= 1
    /\ reloads = 0 => /\ scens = <<>> /\ ~scensSet /\ ~bansSet /\ bansWhole /\ scenCount = 0
                      /\ faults = {}
                      /\ \A w \in Workers : worker[w].pc = "absent"
    /\ reloads = 1 => /\ \A w \in Workers : worker[w].pc # "absent" => scenCount >= 1
                      /\ admin.pc \in {"connect", "rows", "names"} => faults \subseteq {"noCount"}
                      /\ admin.pc = "bans" =>
                            faults \subseteq {"noCount", "unreadScen", "unknownName"}
    /\ reloads <= 1 => banCount >= 0
    /\ faults \cap {"noCount", "unknownName"} # {} => ~alive

(* What a worker holds was there when it looked, and is where it was       *)
(* unless the table has been loaded again or was not assigned there.       *)
Holds(w) == worker[w].pc \in {"picked", "copied", "banned"}

Held ==
    \A w \in Workers : Holds(w) =>
        /\ worker[w].since \in 1 .. reloads
        /\ worker[w].since = reloads => ~Reloading
        /\ worker[w].since = reloads /\ worker[w].pc # "banned" =>
              \/ "unreadScen" \in faults
              \/ /\ worker[w].place + 1 <= scenCount
                 /\ worker[w].scen \in Scenarios
                 /\ scens[worker[w].place + 1] = worker[w].scen

Inv == /\ TypeOK /\ Locks /\ Table /\ Loader /\ FirstLoad /\ Held
       /\ FirstLoadFaults /\ HostsTheChosen

USE DatabasesAssumption, BoundsAssumption, AdminAssumption, UnreadAssumption,
    ChanceAssumption

-----------------------------------------------------------------------------
(* Types.                                                                  *)

(* The types of the records.                                               *)
AdminType  == [pc : {"idle", "wait", "connect", "rows", "names", "bans", "end"},
               db : Databases \cup {Empty}, row : Nat]
WorkerType == [pc : {"absent", "idle", "picked", "banned", "copied"},
               scen : Scenarios \cup {NoScen}, place : Nat, since : Nat]
HostedType == [chosen : Scenarios \cup {NoScen}, played : Scenarios \cup {NoScen},
               since : Nat, at : Nat]

(* TypeOK in parts, of this state and of the next one.                     *)
LEMMA TypeParts ==
  ASSUME TypeOK
  PROVE  /\ scensSet \in BOOLEAN /\ bansSet \in BOOLEAN /\ bansWhole \in BOOLEAN
         /\ alive \in BOOLEAN /\ leaked \in BOOLEAN
         /\ scens \in Seq(Element) /\ Len(scens) \in Nat /\ DOMAIN scens = 1 .. Len(scens)
         /\ \A k \in 1 .. Len(scens) : scens[k] \in Element
         /\ scenCount \in -1 .. Len(scens) /\ scenCount \in Int /\ chanceTotal \in Nat
         /\ named \subseteq Scenarios /\ banCount \in Int
         /\ reads \in [Workers \cup {Admin} -> Nat]
         /\ writes \in [Workers \cup {Admin} -> Nat]
         /\ admin \in AdminType /\ worker \in [Workers -> WorkerType]
         /\ faults \subseteq Faults /\ reloads \in 0 .. MaxReloads /\ reloads \in Nat
         /\ hosted \in [Workers -> HostedType]
<1>1. scens \in Seq(Element) /\ Len(scens) \in Nat /\ DOMAIN scens = 1 .. Len(scens)
      /\ \A k \in 1 .. Len(scens) : scens[k] \in Element
  BY LenProperties, ElementOfSeq DEF TypeOK, Element
<1> QED
  BY <1>1 DEF TypeOK, Lock!TypeOK, AdminType, WorkerType, HostedType

LEMMA NextType ==
  ASSUME scensSet' \in BOOLEAN, bansSet' \in BOOLEAN, bansWhole' \in BOOLEAN,
         alive' \in BOOLEAN, leaked' \in BOOLEAN,
         scens' \in Seq(Element),
         scenCount' \in -1 .. Len(scens'), chanceTotal' \in Nat,
         named' \subseteq Scenarios, banCount' \in Int,
         reads' \in [Workers \cup {Admin} -> Nat],
         writes' \in [Workers \cup {Admin} -> Nat],
         admin' \in AdminType, worker' \in [Workers -> WorkerType],
         faults' \subseteq Faults, reloads' \in 0 .. MaxReloads,
         hosted' \in [Workers -> HostedType]
  PROVE  TypeOK'
  BY DEF TypeOK, Lock!TypeOK, AdminType, WorkerType, HostedType, Element

(* The rows of any database that a load may have found.                    *)
LEMMA RowsType ==
  ASSUME TypeOK
  PROVE  /\ admin.db.rows \in Seq(Scenarios)
         /\ \A k \in 1 .. Len(admin.db.rows) : admin.db.rows[k] \in Scenarios
<1>1. admin.db \in Databases \cup {Empty}
  BY TypeParts DEF AdminType
<1>2. Empty.rows \in Seq(Scenarios)
  BY EmptySeq DEF Empty
<1>3. admin.db.rows \in Seq(Scenarios)
  BY <1>1, <1>2
<1> QED
  BY <1>3, ElementOfSeq

(* One more sum may be off by one more Rounding.                           *)
LEMMA SlackType ==
  ASSUME NEW n \in Nat
  PROVE  Slack(n) \in Nat /\ Slack(n + 1) = Slack(n) + Rounding /\ Slack(0) = 0
  BY DEF Slack

-----------------------------------------------------------------------------
(* What a worker does.                                                     *)

LEMMA LetIn ==
  ASSUME Locks, Lock!NobodyWrites
  PROVE  ~Reloading
  BY DEF Locks, Lock!NobodyWrites

(* A worker changes neither the table nor the bans, and at most its own    *)
(* read locks.                                                             *)
LEMMA WorkerFrame ==
  ASSUME TypeOK, NEW w \in Workers, WorkerStep(w)
  PROVE  /\ alive
         /\ UNCHANGED <<scens, scensSet, scenCount, chanceTotal, named>>
         /\ UNCHANGED <<bansSet, banCount, bansWhole, admin, writes, reloads>>
         /\ reads' \in [Workers \cup {Admin} -> Nat] /\ reads'[Admin] = reads[Admin]
<1> USE DEF TypeOK, Lock!TypeOK, WorkerAt
<1>1. CASE CreateHost(w)
  BY <1>1 DEF CreateHost, tableVars, banVars, lockVars, history
<1>2. CASE PickNone(w) \/ PickOnly(w)
  <2>1. reads' = [reads EXCEPT ![w] = @ + 1] /\ writes' = writes /\ alive
    BY <1>2 DEF PickNone, PickOnly, ReturnLocked, KeepLock, Lock!AcquireRead
  <2>2. reads \in [Workers \cup {Admin} -> Nat] /\ w # Admin
    OBVIOUS
  <2>3. /\ UNCHANGED <<scens, scensSet, scenCount, chanceTotal, named>>
        /\ UNCHANGED <<bansSet, banCount, bansWhole, admin, reloads>>
    BY <1>2 DEF PickNone, PickOnly, tableVars, banVars
  <2> QED
    BY <2>1, <2>2, <2>3
<1>3. CASE PickByChance(w) \/ Search(w) \/ MatchBan(w)
  BY <1>3 DEF PickByChance, Search, MatchBan, LockAndUnlock, tableVars, banVars, lockVars,
              history
<1>4. CASE TakeScen(w) \/ AskPath(w) \/ TakeReason(w)
  BY <1>4 DEF TakeScen, AskPath, TakeReason, tableVars, banVars, lockVars, history
<1> QED
  BY <1>1, <1>2, <1>3, <1>4 DEF WorkerStep, Pick

(* What a worker may have found: a place of the table, and what is there,  *)
(* or anything, if it looked where nothing is assigned.                    *)
Found(w, k, pc) ==
    /\ k \in 1 .. scenCount
    /\ scens[k] \in Scenarios
    /\ worker'[w] = [pc |-> pc, scen |-> scens[k], place |-> k - 1, since |-> reloads]

Strange(w, pc) ==
    /\ "unreadScen" \in faults'
    /\ worker'[w] \in WorkerType
    /\ worker'[w].pc = pc /\ worker'[w].since = reloads

Finds(w) ==
    /\ worker[w].pc = "idle"
    /\ ~Reloading
    /\ \/ \E k \in 1 .. scenCount, pc \in {"picked", "copied"} : Found(w, k, pc)
       \/ \E pc \in {"picked", "copied"} : Strange(w, pc)
       \/ worker'[w] = [worker[w] EXCEPT !.pc = "banned", !.since = reloads]

Moves(w, from, to) == worker[w].pc = from /\ worker'[w] = [worker[w] EXCEPT !.pc = to]

LEMMA HasFinds ==
  ASSUME TypeOK, Locks, NEW w \in Workers, worker[w].pc = "idle", Lock!NobodyWrites,
         NEW k \in 1 .. scenCount, NEW pc \in {"picked", "copied"}, Has(w, k, pc), ~Holes
  PROVE  worker' = [worker EXCEPT ![w] = worker'[w]] /\ Finds(w)
<1>1. ~Reloading /\ k \in 1 .. Len(scens)
  BY LetIn, TypeParts
<1>2. scens[k] \in Scenarios
  BY <1>1, TypeParts DEF Holes, Element
<1>3. worker'[w] = [pc |-> pc, scen |-> scens[k], place |-> k - 1, since |-> reloads]
      /\ worker' = [worker EXCEPT ![w] = worker'[w]]
  BY TypeParts DEF Has, IntIndex
<1> QED
  BY <1>1, <1>2, <1>3 DEF Finds, Found

LEMMA AnythingFinds ==
  ASSUME TypeOK, Locks, NEW w \in Workers, worker[w].pc = "idle", Lock!NobodyWrites,
         NEW pc \in {"picked", "copied"}, HasAnything(w, pc)
  PROVE  worker' = [worker EXCEPT ![w] = worker'[w]] /\ Finds(w)
<1>1. ~Reloading
  BY LetIn
<1>2. PICK s \in Scenarios, k \in DOMAIN scens :
         worker' = [worker EXCEPT ![w] = [pc |-> pc, scen |-> s, place |-> k - 1,
                                          since |-> reloads]]
  BY DEF HasAnything, IntIndex
<1>3. k - 1 \in Nat /\ reloads \in Nat /\ worker \in [Workers -> WorkerType]
  BY TypeParts
<1>4. /\ worker'[w] = [pc |-> pc, scen |-> s, place |-> k - 1, since |-> reloads]
      /\ worker' = [worker EXCEPT ![w] = worker'[w]]
  BY <1>2, <1>3
<1>5. worker'[w] \in WorkerType
  BY <1>3, <1>4 DEF WorkerType
<1>6. "unreadScen" \in faults'
  BY DEF HasAnything, Invalid
<1> QED
  BY <1>1, <1>4, <1>5, <1>6 DEF Finds, Strange

(* How the state of a worker changes.                                      *)
LEMMA WorkerMoves ==
  ASSUME TypeOK, Locks, NEW w \in Workers, WorkerStep(w)
  PROVE  /\ worker' = [worker EXCEPT ![w] = worker'[w]]
         /\ \/ worker'[w] = worker[w]
            \/ Moves(w, "absent", "idle") /\ scenCount >= 1
            \/ Finds(w)
            \/ Moves(w, "picked", "copied")
            \/ Moves(w, "copied", "idle")
            \/ Moves(w, "banned", "idle")
<1>0. worker[w] \in WorkerType /\ worker \in [Workers -> WorkerType]
      /\ worker = [worker EXCEPT ![w] = worker[w]]
  BY TypeParts
<1>1. CASE CreateHost(w)
  BY <1>0, <1>1 DEF CreateHost, WorkerAt, WorkerGoes, Moves
<1>2. CASE PickNone(w)
  BY <1>0, <1>2 DEF PickNone
<1>3. CASE PickOnly(w)
  <2>1. /\ worker[w].pc = "idle" /\ Lock!NobodyWrites /\ scenCount = 1
    BY <1>3 DEF PickOnly, WorkerAt, ReturnLocked, KeepLock, Lock!AcquireRead
  <2>2. \/ HasAnything(w, "copied")
        \/ Has(w, 1, "copied") /\ ~Holes
    BY <1>3 DEF PickOnly
  <2>3. 1 \in 1 .. scenCount
    BY <2>1
  <2> QED
    BY <2>1, <2>2, <2>3, HasFinds, AnythingFinds
<1>4. CASE PickByChance(w)
  <2>1. /\ worker[w].pc = "idle" /\ Lock!NobodyWrites
        /\ \/ worker' = worker
           \/ HasAnything(w, "picked")
           \/ \E k \in 1 .. scenCount : Has(w, k, "picked") /\ ~Holes
    BY <1>4 DEF PickByChance, WorkerAt, LockAndUnlock
  <2> QED
    BY <1>0, <2>1, HasFinds, AnythingFinds
<1>5. CASE Search(w)
  <2>1. /\ worker[w].pc = "idle" /\ Lock!NobodyWrites
        /\ \/ worker' = worker
           \/ HasAnything(w, "picked")
           \/ \E k \in 1 .. scenCount : Has(w, k, "picked") /\ ~Holes
    BY <1>5 DEF Search, WorkerAt, LockAndUnlock
  <2> QED
    BY <1>0, <2>1, HasFinds, AnythingFinds
<1>6. CASE MatchBan(w)
  <2>1. ~Reloading /\ worker[w].pc = "idle"
    BY <1>6, LetIn DEF MatchBan, LockAndUnlock, WorkerAt
  <2>2. \/ worker' = worker
        \/ worker' = [worker EXCEPT ![w].pc = "banned", ![w].since = reloads]
    BY <1>6 DEF MatchBan
  <2> QED
    BY <1>0, <2>1, <2>2 DEF Finds
<1>7. CASE TakeScen(w)
  BY <1>0, <1>7 DEF TakeScen, WorkerAt, WorkerGoes, Moves
<1>8. CASE AskPath(w)
  BY <1>0, <1>8 DEF AskPath, WorkerAt, WorkerGoes, Moves
<1>9. CASE TakeReason(w)
  BY <1>0, <1>9 DEF TakeReason, WorkerAt, WorkerGoes, Moves
<1> QED
  BY <1>1, <1>2, <1>3, <1>4, <1>5, <1>6, <1>7, <1>8, <1>9 DEF WorkerStep, Pick

(* Only AskPath makes a game be played, at a place that is in the table.   *)
LEMMA HostedMoves ==
  ASSUME TypeOK, NEW w \in Workers, WorkerStep(w)
  PROVE  /\ hosted' \in [Workers -> HostedType]
         /\ \A v \in Workers \ {w} : hosted'[v] = hosted[v]
         /\ \/ hosted'[w] = hosted[w]
            \/ /\ worker[w].pc = "copied"
               /\ hosted'[w] = [chosen |-> worker[w].scen,
                                played |-> scens[worker[w].place + 1],
                                since |-> worker[w].since, at |-> reloads]
<1> DEFINE k == worker[w].place + 1
<1>0. /\ hosted \in [Workers -> HostedType] /\ worker[w] \in WorkerType
      /\ reloads \in Nat /\ k \in Nat /\ k >= 1
  BY TypeParts DEF WorkerType
<1>1. CASE AskPath(w)
  <2>1. worker[w].pc = "copied"
        /\ hosted' = IF k > scenCount \/ scens[k] = Unread THEN hosted
                     ELSE [hosted EXCEPT ![w] = [chosen |-> worker[w].scen, played |-> scens[k],
                                                 since |-> worker[w].since, at |-> reloads]]
    BY <1>1 DEF AskPath, WorkerAt
  <2> HIDE DEF k
  <2>2. CASE k > scenCount \/ scens[k] = Unread
    BY <1>0, <2>1, <2>2
  <2>3. CASE ~(k > scenCount \/ scens[k] = Unread)
    <3>1. k \in 1 .. Len(scens)
      BY <1>0, <2>3, TypeParts
    <3>2. scens[k] \in Scenarios
      BY <2>3, <3>1, TypeParts DEF Element
    <3>3. [chosen |-> worker[w].scen, played |-> scens[k],
           since |-> worker[w].since, at |-> reloads] \in HostedType
      BY <1>0, <3>2 DEF HostedType, WorkerType
    <3> QED
      BY <1>0, <2>1, <2>3, <3>3 DEF k
  <2> QED
    BY <2>2, <2>3
<1>2. CASE ~AskPath(w)
  <2>1. hosted' = hosted
    BY <1>2 DEF WorkerStep, Pick, CreateHost, PickNone, PickOnly, PickByChance,
                Search, TakeScen, MatchBan, TakeReason, history
  <2> QED
    BY <1>0, <2>1
<1> QED
  BY <1>1, <1>2

-----------------------------------------------------------------------------
(* What goes wrong.                                                        *)

(* The causes that FirstLoadFaults names, fault by fault.                  *)
Caused(f) ==
    /\ f \notin {"nullScen", "freedTable", "freedBans", "endlessScan"}
    /\ f \in {"unreadScen", "pathAssert"} => \E k \in DOMAIN scens : scens[k] = Unread
    /\ f = "unknownName" => \E s \in admin.db.named : \A k \in DOMAIN scens : scens[k] # s
    /\ f = "noChance" => \A k \in DOMAIN scens : ChanceOf(scens[k]) = 0
    /\ f = "pickAssert" => chanceTotal > ChanceUpTo[Len(scens)]
    /\ f = "unreadBan" => ~bansWhole
    /\ f = "wildPattern" => \E k \in DOMAIN admin.db.bans : ~admin.db.bans[k]

LEMMA AllCaused == FirstLoadFaults <=> (reloads <= 1 => \A f \in faults : Caused(f))
  BY DEF FirstLoadFaults, Caused

(* At the only place where a loop can stop.                                *)
LEMMA DrawExists ==
  ASSUME NEW s \in Seq(Element), NEW rnd \in Nat, rnd < SumUpTo(s)[Len(s)]
  PROVE  \E k \in 1 .. Len(s) : SumUpTo(s)[k - 1] <= rnd /\ rnd < SumUpTo(s)[k]
<1> DEFINE S   == SumUpTo(s)
           n   == Len(s)
           Bad == {k \in 0 .. n : rnd < S[k]}
<1>1. n \in Nat /\ S \in [0 .. n -> Nat] /\ S[0] = 0 /\ rnd < S[n]
  BY SumEquation, LenProperties
<1> HIDE DEF S, n
<1>2. Bad \in SUBSET (0 .. n) /\ n \in Bad
  BY <1>1
<1>3. PICK k \in Bad : \A j \in 0 .. k - 1 : j \notin Bad
  <2> HIDE DEF Bad
  <2> QED
    BY <1>1, <1>2, FirstOf
<1>4. k \in 1 .. n /\ k - 1 \in 0 .. n /\ rnd < S[k]
  BY <1>1, <1>3
<1>5. S[k - 1] <= rnd
  BY <1>1, <1>3, <1>4
<1> QED
  BY <1>4, <1>5 DEF S, n

(* With one load, who may look for a scenario finds them all counted.      *)
LEMMA FirstTable ==
  ASSUME TypeOK, Table, FirstLoad, reloads <= 1, NEW w \in Workers, worker[w].pc # "absent"
  PROVE  /\ reloads = 1 /\ scenCount >= 1
         /\ scenCount = Len(scens) \/ \E k \in DOMAIN scens : scens[k] = Unread
         /\ ~Holes => scenCount = Len(scens)
<1>1. reloads = 1 /\ scenCount >= 1
  BY TypeParts DEF FirstLoad
<1>2. PICK m \in Nat : Fits(m)
  BY DEF Table
<1>3. m \in 0 .. Len(scens) /\ Len(scens) - m - scenCount = 0
  BY <1>1, <1>2 DEF Fits, Counted
<1>4. m # 0 => 1 \in 1 .. scenCount /\ 1 \in DOMAIN scens /\ scens[1] = Unread
  BY <1>1, <1>2, <1>3, TypeParts DEF Fits, Assigned
<1>5. m = 0 => scenCount = Len(scens)
  BY <1>3, TypeParts
<1> QED
  BY <1>1, <1>4, <1>5 DEF Holes

(* A draw outlasts a whole table only if the sum of it was rounded up.     *)
LEMMA DrawFails ==
  ASSUME TypeOK, scenCount = Len(scens), NEW rnd \in 0 .. chanceTotal - 1,
         \A k \in 1 .. scenCount : ~Drawn(rnd, k)
  PROVE  chanceTotal > ChanceUpTo[Len(scens)]
<1>1. rnd \in Nat /\ chanceTotal \in Nat /\ rnd < chanceTotal /\ Len(scens) \in 0 .. Len(scens)
      /\ scens \in Seq(Element)
  BY TypeParts
<1>2. SumUpTo(scens)[Len(scens)] \in Nat
  BY <1>1, SumEquation
<1>3. ~(rnd < SumUpTo(scens)[Len(scens)])
  BY <1>1, DrawExists, ChanceUpToIsSum DEF Drawn
<1> QED
  BY <1>1, <1>2, <1>3, ChanceUpToIsSum

(* The faults of a worker's step.                                          *)
Fault(f) == /\ f \in Faults \ {"noCount", "unknownName", "wildPattern"}
            /\ faults' = faults \cup {f}
            /\ reloads <= 1 => Caused(f) /\ reloads = 1 /\ ~Reloading

LEMMA WorkerFaults ==
  ASSUME Inv, NEW w \in Workers, WorkerStep(w)
  PROVE  \/ Fine
         \/ /\ alive' \in BOOLEAN
            /\ \E f \in Faults : Fault(f)
<1>0. /\ TypeOK /\ Locks /\ Table /\ FirstLoad /\ Held /\ FirstLoadFaults
      /\ worker[w] \in WorkerType /\ worker[w].since \in Nat
  BY TypeParts DEF Inv, WorkerType
<1>1. CASE CreateHost(w)
  BY <1>1 DEF CreateHost, Fine
<1>2. ASSUME worker[w].pc # "absent", reloads <= 1
      PROVE  reloads = 1 /\ scenCount >= 1 /\ (~Holes => scenCount = Len(scens))
  BY <1>0, <1>2, FirstTable
<1>3. Holes => \E k \in DOMAIN scens : scens[k] = Unread
  BY <1>0, TypeParts DEF Holes
<1>4. ASSUME worker[w].pc = "idle", Lock!NobodyWrites, Holes, Invalid("unreadScen")
      PROVE  alive' \in BOOLEAN /\ Fault("unreadScen")
  BY <1>0, <1>2, <1>3, <1>4, LetIn DEF Invalid, Fault, Faults, Caused
<1>5. CASE PickNone(w)
  <2>1. /\ worker[w].pc = "idle" /\ Lock!NobodyWrites /\ scenCount = 0
        /\ alive' = FALSE /\ faults' = faults \cup {"nullScen"}
    BY <1>5 DEF PickNone, WorkerAt, ReturnLocked, KeepLock, Lock!AcquireRead, Fatal
  <2>2. ~(reloads <= 1)
    BY <1>2, <2>1
  <2> QED
    BY <2>1, <2>2 DEF Fault, Faults
<1>6. CASE PickOnly(w)
  <2>1. worker[w].pc = "idle" /\ Lock!NobodyWrites
    BY <1>6 DEF PickOnly, WorkerAt, ReturnLocked, KeepLock, Lock!AcquireRead
  <2>2. Fine \/ (Holes /\ Invalid("unreadScen"))
    BY <1>6 DEF PickOnly, HasAnything
  <2> QED
    BY <1>4, <2>1, <2>2 DEF Fault
<1>7. CASE PickByChance(w)
  <2>1. worker[w].pc = "idle" /\ Lock!NobodyWrites /\ ~Reloading
    BY <1>0, <1>7, LetIn DEF PickByChance, WorkerAt, LockAndUnlock
  <2>2. \/ Fine
        \/ chanceTotal = 0 /\ Fatal("noChance")
        \/ Holes /\ Invalid("unreadScen")
        \/ /\ ~Holes /\ Fatal("pickAssert")
           /\ \E rnd \in 0 .. chanceTotal - 1 : \A k \in 1 .. scenCount : ~Drawn(rnd, k)
    BY <1>7 DEF PickByChance, HasAnything
  <2>3. ASSUME chanceTotal = 0, Fatal("noChance")
        PROVE  alive' \in BOOLEAN /\ Fault("noChance")
    <3>1. PICK m \in Nat : Worth(chanceTotal, scens)
      BY <1>0 DEF Table, Fits
    <3>2. ASSUME NEW k \in DOMAIN scens PROVE ChanceOf(scens[k]) = 0
      <4>1. k \in 1 .. Len(scens) /\ ChanceOf(scens[k]) \in Nat
        BY <1>0, TypeParts, ChanceType
      <4> QED
        BY <2>3, <3>1, <4>1 DEF Worth
    <3> QED
      BY <1>2, <2>1, <2>3, <3>2 DEF Fatal, Fault, Faults, Caused
  <2>4. ASSUME ~Holes, Fatal("pickAssert"),
               \E rnd \in 0 .. chanceTotal - 1 : \A k \in 1 .. scenCount : ~Drawn(rnd, k)
        PROVE  alive' \in BOOLEAN /\ Fault("pickAssert")
    <3>1. reloads <= 1 => chanceTotal > ChanceUpTo[Len(scens)]
      BY <1>0, <1>2, <2>1, <2>4, DrawFails
    <3> QED
      BY <1>2, <2>1, <2>4, <3>1 DEF Fatal, Fault, Faults, Caused
  <2> QED
    BY <1>4, <2>1, <2>2, <2>3, <2>4 DEF Fault
<1>8. CASE Search(w)
  <2>1. worker[w].pc = "idle" /\ Lock!NobodyWrites
    BY <1>8 DEF Search, WorkerAt, LockAndUnlock
  <2>2. \/ Fine
        \/ scenCount < 0 /\ Fatal("endlessScan")
        \/ Holes /\ Invalid("unreadScen")
    BY <1>8 DEF Search, HasAnything
  <2>3. ASSUME scenCount < 0, Fatal("endlessScan")
        PROVE  alive' \in BOOLEAN /\ Fault("endlessScan")
    <3>1. ~(reloads <= 1)
      BY <1>0, <1>2, <2>1, <2>3, TypeParts
    <3> QED
      BY <2>3, <3>1 DEF Fatal, Fault, Faults
  <2> QED
    BY <1>4, <2>1, <2>2, <2>3 DEF Fault
<1>9. CASE MatchBan(w)
  <2>1. worker[w].pc = "idle" /\ Lock!NobodyWrites /\ ~Reloading
    BY <1>0, <1>9, LetIn DEF MatchBan, WorkerAt, LockAndUnlock
  <2>2. \/ Fine
        \/ banCount < 0 /\ Fatal("endlessScan")
        \/ ~bansWhole /\ Invalid("unreadBan")
    BY <1>9 DEF MatchBan
  <2>3. reloads <= 1 => ~(banCount < 0)
    BY <1>0, TypeParts DEF FirstLoad
  <2> QED
    BY <1>2, <2>1, <2>2, <2>3 DEF Fatal, Invalid, Fault, Faults, Caused
<1>10. CASE TakeScen(w) \/ TakeReason(w)
  <2>1. /\ Holds(w)
        /\ \/ Fine
           \/ /\ reloads # worker[w].since
              /\ Invalid("freedTable") \/ Invalid("freedBans")
    BY <1>10 DEF TakeScen, TakeReason, WorkerAt, Holds
  <2>2. worker[w].since \in 1 .. reloads /\ reloads \in Nat
    BY <1>0, <2>1, TypeParts DEF Held
  <2> QED
    BY <2>1, <2>2 DEF Invalid, Fault, Faults
<1>11. CASE AskPath(w)
  <2> DEFINE k == worker[w].place + 1
  <2>1. /\ worker[w].pc = "copied" /\ Holds(w)
        /\ \/ Fine
           \/ k > scenCount /\ Fatal("pathAssert")
           \/ ~(k > scenCount) /\ scens[k] = Unread /\ Invalid("unreadScen")
    BY <1>11 DEF AskPath, WorkerAt, Holds
  <2>2. ASSUME reloads <= 1, k > scenCount \/ scens[k] = Unread
        PROVE  Caused("unreadScen") /\ Caused("pathAssert") /\ reloads = 1 /\ ~Reloading
    <3>1. worker[w].since = reloads /\ ~Reloading /\ reloads = 1
      BY <1>0, <2>1, <2>2, TypeParts DEF Held
    <3>2. "unreadScen" \in faults
      <4>1. SUFFICES ASSUME "unreadScen" \notin faults PROVE FALSE
        OBVIOUS
      <4>2. /\ k <= scenCount /\ worker[w].scen \in Scenarios /\ scens[k] = worker[w].scen
        BY <1>0, <2>1, <3>1, <4>1 DEF Held
      <4>3. k \in Int /\ scenCount \in Int
        BY <1>0, TypeParts DEF WorkerType
      <4> HIDE DEF k
      <4> QED
        BY <2>2, <4>2, <4>3
    <3>3. Caused("unreadScen")
      BY <1>0, <2>2, <3>2, AllCaused
    <3> QED
      BY <3>1, <3>3 DEF Caused
  <2> HIDE DEF k
  <2> QED
    BY <2>1, <2>2 DEF Fatal, Invalid, Fault, Faults
<1> QED
  BY <1>1, <1>5, <1>6, <1>7, <1>8, <1>9, <1>10, <1>11 DEF WorkerStep, Pick

-----------------------------------------------------------------------------
(* What the loader does.                                                   *)

LoaderStep == CallReload \/ ReloadStep

LEMMA LoaderFrame ==
  ASSUME TypeOK, LoaderStep
  PROVE  /\ alive
         /\ UNCHANGED <<worker, hosted, leaked>>
         /\ UNCHANGED reloads \/ BeginReload
         /\ UNCHANGED <<reads, writes>> \/ BeginReload \/ EndReload
         /\ UNCHANGED <<bansSet, banCount, bansWhole>> \/ BeginReload \/ LoadBans
         /\ UNCHANGED <<scens, scensSet, scenCount, chanceTotal>>
              \/ BeginReload \/ Connect \/ LoadRow
         /\ Fine \/ BeginReload \/ SetNames \/ LoadBans
              \/ CountIsLost("connect") \/ CountIsLost("bans")
<1> USE DEF AdminAt, Fine, history, lockVars, banVars, tableVars
<1>1. CASE CallReload
  BY <1>1 DEF CallReload
<1>2. CASE BeginReload
  BY <1>2 DEF BeginReload
<1>3. CASE Connect
  BY <1>3 DEF Connect
<1>4. CASE LoadRow
  BY <1>4 DEF LoadRow
<1>5. CASE EndRows
  BY <1>5 DEF EndRows
<1>6. CASE SetNames
  BY <1>6 DEF SetNames
<1>7. CASE LoadBans
  BY <1>7 DEF LoadBans
<1>8. CASE EndReload
  BY <1>8 DEF EndReload
<1>9. CASE CountIsLost("connect") \/ CountIsLost("bans")
  BY <1>9 DEF CountIsLost
<1> QED
  BY <1>1, <1>2, <1>3, <1>4, <1>5, <1>6, <1>7, <1>8, <1>9 DEF LoaderStep, ReloadStep

(* Where the loader goes.                                                  *)
LEMMA LoaderMoves ==
  ASSUME TypeOK, LoaderStep
  PROVE  /\ admin' \in AdminType
         /\ \/ CallReload /\ admin.pc = "idle" /\ admin'.pc = "wait" /\ reloads < MaxReloads
            \/ BeginReload /\ admin.pc = "wait" /\ admin'.pc = "connect"
            \/ Connect /\ admin.pc = "connect" /\ admin'.pc \in {"end", "bans", "rows"}
            \/ LoadRow /\ admin.pc = "rows" /\ admin' = [admin EXCEPT !.row = admin.row + 1]
            \/ EndRows /\ admin.pc = "rows" /\ admin'.pc \in {"names", "bans"}
            \/ SetNames /\ admin.pc = "names" /\ admin'.pc = "bans"
            \/ LoadBans /\ admin.pc = "bans" /\ admin'.pc = "end"
            \/ EndReload /\ admin.pc = "end" /\ admin'.pc = "idle"
            \/ /\ CountIsLost("connect") \/ CountIsLost("bans")
               /\ admin.pc \in {"connect", "bans"} /\ admin' = admin
<1>0. admin \in AdminType
  BY TypeParts
<1> USE DEF AdminAt, AdminGoes, AdminType
<1>1. CASE CallReload
  BY <1>0, <1>1 DEF CallReload
<1>2. CASE BeginReload
  BY <1>0, <1>2 DEF BeginReload
<1>3. CASE Connect
  BY <1>0, <1>3 DEF Connect
<1>4. CASE LoadRow
  BY <1>0, <1>4 DEF LoadRow
<1>5. CASE EndRows
  BY <1>0, <1>5 DEF EndRows
<1>6. CASE SetNames
  BY <1>0, <1>6 DEF SetNames
<1>7. CASE LoadBans
  BY <1>0, <1>7 DEF LoadBans
<1>8. CASE EndReload
  BY <1>0, <1>8 DEF EndReload
<1>9. CASE CountIsLost("connect") \/ CountIsLost("bans")
  BY <1>0, <1>9 DEF CountIsLost
<1> QED
  BY <1>1, <1>2, <1>3, <1>4, <1>5, <1>6, <1>7, <1>8, <1>9 DEF LoaderStep, ReloadStep

(* The admin takes the lock in BeginReload and leaves it in EndReload.     *)
LEMMA LocksKeep == Inv /\ [Next]_vars => Locks'
<1> SUFFICES ASSUME Inv, [Next]_vars PROVE Locks'
  OBVIOUS
<1>0. TypeOK /\ Locks /\ admin \in AdminType
  BY TypeParts DEF Inv
<1>1. CASE BeginReload
  <2>1. admin'.pc = "connect"
    BY <1>0, <1>1 DEF BeginReload, AdminGoes, AdminType
  <2>2. writes' = [writes EXCEPT ![Admin] = @ + 1] /\ reads' = reads
    BY <1>1 DEF BeginReload, Lock!AcquireWrite
  <2>3. writes[Admin] = 0
    BY <1>0, <1>1 DEF BeginReload, AdminAt, Locks, Reloading
  <2>4. writes \in [Workers \cup {Admin} -> Nat]
    BY <1>0, TypeParts
  <2> QED
    BY <1>0, <2>1, <2>2, <2>3, <2>4 DEF Locks, Reloading
<1>2. CASE EndReload
  <2>1. admin'.pc = "idle"
    BY <1>0, <1>2 DEF EndReload, AdminGoes, AdminType
  <2>2. writes' = [writes EXCEPT ![Admin] = @ - 1] /\ reads' = reads
    BY <1>2 DEF EndReload, Lock!ReleaseWrite
  <2>3. writes[Admin] = 1
    BY <1>0, <1>2 DEF EndReload, AdminAt, Locks, Reloading
  <2>4. writes \in [Workers \cup {Admin} -> Nat]
    BY <1>0, TypeParts
  <2> QED
    BY <1>0, <2>1, <2>2, <2>3, <2>4 DEF Locks, Reloading
<1>3. CASE LoaderStep /\ ~BeginReload /\ ~EndReload
  <2>1. UNCHANGED <<reads, writes>>
    BY <1>0, <1>3, LoaderFrame
  <2>2. Reloading' <=> Reloading
    BY <1>0, <1>3, LoaderMoves DEF Reloading, AdminType
  <2> QED
    BY <1>0, <2>1, <2>2 DEF Locks
<1>4. ASSUME NEW w \in Workers, WorkerStep(w) PROVE Locks'
  BY <1>0, <1>4, WorkerFrame DEF Locks, Reloading
<1>5. CASE UNCHANGED vars
  BY <1>0, <1>5 DEF vars, lockVars, Locks, Reloading
<1> QED
  BY <1>1, <1>2, <1>3, <1>4, <1>5 DEF Next, LoaderStep

-----------------------------------------------------------------------------
(* The table.                                                              *)

LEMMA TableStays ==
  ASSUME Table, UNCHANGED <<scens, scenCount, chanceTotal, reloads>>,
         admin' = admin \/ admin'.pc # "rows"
  PROVE  Table'
<1>1. PICK m \in Nat : Fits(m)
  BY DEF Table
<1>2. Fits(m)'
  BY <1>1 DEF Fits, Counted, Assigned, Near, Worth, SumUpTo, ChanceOf
<1> QED
  BY <1>2 DEF Table

(* BeginReload leaves an empty table.                                      *)
LEMMA BeginKeepsTable == Inv /\ BeginReload => Table'
<1> SUFFICES ASSUME Inv, BeginReload PROVE Table'
  OBVIOUS
<1>1. /\ scens' = <<>> /\ chanceTotal' = 0 /\ reloads' = reloads + 1
      /\ scenCount' = IF scensSet THEN -1 ELSE 0
  BY DEF BeginReload, TotalAfterStandard, CountAfterStandard
<1>2. admin'.pc = "connect" /\ reloads \in Nat
  BY TypeParts DEF Inv, BeginReload, AdminGoes, AdminType
<1>3. reloads' <= 1 => scenCount' = 0
  BY <1>1, <1>2 DEF Inv, FirstLoad
<1>4. <<>> \in Seq(Element) /\ Len(<<>>) = 0 /\ SumUpTo(<<>>)[0] = 0
  <2>1. <<>> \in Seq(Element) /\ Len(<<>>) = 0
    BY EmptySeq
  <2> QED
    BY <2>1, SumEquation
<1>5. 0 - 0 - scenCount' \in IF reloads' <= 1 THEN {0} ELSE {0, 1}
  BY <1>1, <1>3
<1>6. Slack(0) = 0
  BY SlackType
<1>7. Near(0, <<>>, 0) /\ Worth(0, <<>>) /\ Assigned(<<>>, 0)
  BY <1>4, <1>6 DEF Near, Worth, Assigned
<1>8. Fits(0)'
  BY <1>1, <1>2, <1>4, <1>5, <1>7 DEF Fits, Counted, Near, Worth, Assigned, SumUpTo, ChanceOf
<1> QED
  BY <1>8 DEF Table

(* Connect counts the elements; nothing is in them yet.                    *)
LEMMA ConnectKeepsTable == Inv /\ Connect => Table' /\ scens' \in Seq(Element)
                                             /\ scenCount' \in -1 .. Len(scens')
                                             /\ chanceTotal' \in Nat /\ scensSet' \in BOOLEAN
                                             /\ Loader'
<1> SUFFICES ASSUME Inv, Connect
             PROVE  Table' /\ scens' \in Seq(Element) /\ scenCount' \in -1 .. Len(scens')
                    /\ chanceTotal' \in Nat /\ scensSet' \in BOOLEAN /\ Loader'
  OBVIOUS
<1>0. /\ TypeOK /\ Table /\ Loader /\ admin.pc = "connect" /\ scens = <<>> /\ reloads' = reloads
      /\ admin \in AdminType
  BY TypeParts DEF Inv, Connect, AdminAt, Loader, history
<1>1. CASE (AdminGoes("end") \/ AdminGoes("bans")) /\ UNCHANGED tableVars
  <2>1. UNCHANGED <<scens, scensSet, scenCount, chanceTotal>>
    BY <1>1 DEF tableVars
  <2>2. admin'.pc \in {"end", "bans"}
    BY <1>0, <1>1 DEF AdminGoes, AdminType
  <2>3. Table'
    BY <1>0, <2>1, <2>2, TableStays
  <2> QED
    BY <1>0, <2>1, <2>2, <2>3, TypeParts DEF Loader
<1>2. CASE \E counted, db \in Databases :
             /\ admin' = [pc |-> "rows", db |-> db, row |-> 1]
             /\ scens' = [k \in 1 .. Len(counted.rows) |-> Unread]
             /\ scensSet' = TRUE
             /\ chanceTotal' = 0
             /\ UNCHANGED <<scenCount, named>>
  <2>1. PICK counted \in Databases, db \in Databases :
             /\ admin' = [pc |-> "rows", db |-> db, row |-> 1]
             /\ scens' = [k \in 1 .. Len(counted.rows) |-> Unread]
             /\ scensSet' = TRUE
             /\ chanceTotal' = 0
             /\ UNCHANGED <<scenCount, named>>
    BY <1>2
  <2> DEFINE n == Len(counted.rows)
  <2>2. n \in Nat
    BY LenProperties
  <2>3. /\ scens' \in [1 .. n -> Element] /\ \A k \in 1 .. n : scens'[k] = Unread
    BY <2>1 DEF Element
  <2> HIDE DEF n
  <2>4. scens' \in Seq(Element) /\ Len(scens') = n
    BY <2>2, <2>3, SeqDef
  <2>5. SumUpTo(scens')[n] = 0
    BY <2>3, <2>4, SumOfUnread
  <2>6. PICK m \in Nat : Fits(m)
    BY <1>0 DEF Table
  <2>7. m = 0 /\ scenCount' = scenCount /\ scenCount \in Int
    BY <1>0, <2>1, <2>6, EmptySeq, TypeParts DEF Fits
  <2>8. n - n - scenCount' \in IF reloads' <= 1 THEN {0} ELSE {0, 1}
    BY <1>0, <2>2, <2>6, <2>7, EmptySeq DEF Fits, Counted
  <2>9. Slack(n - n) = 0
    <3>1. n - n = 0
      BY <2>2
    <3> QED
      BY <3>1, SlackType
  <2>10. \A k \in 1 .. n : ChanceOf(scens'[k]) = 0
    BY <2>3 DEF ChanceOf
  <2>11. admin'.pc = "rows" /\ admin'.row = 1 /\ chanceTotal' = 0
    BY <2>1
  <2>12. Fits(n)'
    <3>1. Near(0, scens', n)
      BY <2>4, <2>5, <2>9 DEF Near
    <3>2. Worth(0, scens') /\ Assigned(scens', n)
      BY <2>2, <2>3, <2>4, <2>10 DEF Worth, Assigned
    <3> QED
      BY <2>2, <2>4, <2>8, <2>11, <3>1, <3>2 DEF Fits, Counted, Near, Worth, Assigned, SumUpTo,
                                                 ChanceOf
  <2>13. scenCount' \in -1 .. Len(scens')
    BY <2>2, <2>4, <2>7, <2>8
  <2>14. Loader'
    BY <2>2, <2>4, <2>11 DEF Loader
  <2> QED
    BY <2>1, <2>2, <2>4, <2>12, <2>13, <2>14 DEF Table
<1> QED
  BY <1>1, <1>2 DEF Connect

(* A row goes to the last element that is missing.                         *)
LEMMA LoadRowKeepsTable == Inv /\ LoadRow => Table' /\ scens' \in Seq(Element)
                                             /\ scenCount' \in -1 .. Len(scens')
                                             /\ chanceTotal' \in Nat /\ Loader'
<1> SUFFICES ASSUME Inv, LoadRow
             PROVE  Table' /\ scens' \in Seq(Element) /\ scenCount' \in -1 .. Len(scens')
                    /\ chanceTotal' \in Nat /\ Loader'
  OBVIOUS
<1> DEFINE k == admin.row
           r == admin.db.rows[k]
           n == Len(scens)
           p == n - k + 1
<1>0. /\ TypeOK /\ Table /\ admin.pc = "rows" /\ k \in 1 .. n + 1 /\ reloads' = reloads
      /\ admin \in AdminType
  BY TypeParts DEF Inv, LoadRow, AdminAt, Loader, history
<1>1. /\ k <= Len(admin.db.rows) /\ k <= n
      /\ scens' = [scens EXCEPT ![p] = r] /\ scenCount' = scenCount + 1
      /\ chanceTotal' \in FloatSums(chanceTotal, Chance[r])
      /\ admin' = [admin EXCEPT !.row = k + 1]
  BY DEF LoadRow, Place
<1>2. /\ n \in Nat /\ scens \in Seq(Element) /\ chanceTotal \in Nat /\ scenCount \in Int
      /\ scenCount \in -1 .. n
  BY <1>0, TypeParts
<1>3. r \in Scenarios /\ Chance[r] \in Nat
  <2>1. k \in 1 .. Len(admin.db.rows)
    BY <1>0, <1>1, RowsType, LenProperties
  <2> QED
    BY <1>0, <2>1, RowsType
<1>4. PICK m \in Nat : Fits(m)
  BY <1>0 DEF Table
<1>5. m = p /\ p \in 1 .. n
  BY <1>0, <1>1, <1>2, <1>4 DEF Fits
<1>6. scens[p] = Unread
  BY <1>4, <1>5 DEF Fits, Assigned
<1>7. /\ scens' \in Seq(Element) /\ Len(scens') = n
      /\ SumUpTo(scens')[n] = SumUpTo(scens)[n] + Chance[r]
  BY <1>1, <1>2, <1>3, <1>5, <1>6, SumReplace
<1>8. \A j \in 1 .. n : scens'[j] = IF j = p THEN r ELSE scens[j]
  BY <1>1, <1>2, <1>5, LenProperties, ElementOfSeq
<1>9. admin'.pc = "rows" /\ admin'.row = k + 1
  BY <1>0, <1>1 DEF AdminType
<1>10. SumUpTo(scens)[n] \in Nat
  BY <1>2, SumEquation
<1> DEFINE c == Chance[r]
           S == SumUpTo(scens)[n]
<1> HIDE DEF k, r, p, n, c, S
<1>11. /\ chanceTotal' \in Nat /\ chanceTotal' >= chanceTotal /\ chanceTotal' >= c
       /\ chanceTotal' - (chanceTotal + c) <= Rounding
       /\ (chanceTotal + c) - chanceTotal' <= Rounding
  BY <1>1, <1>2, <1>3 DEF FloatSums, c
<1>12. /\ scenCount + 1 <= n /\ (n - (m - 1)) = (n - m) + 1 /\ n - m \in Nat
       /\ n - (m - 1) - (scenCount + 1) = n - m - scenCount
  BY <1>2, <1>4, <1>5 DEF Fits, Counted, n
<1>13. m - 1 \in 0 .. n /\ m - 1 = n + 1 - (k + 1) /\ m - 1 \in Nat
  <2>1. k \in Int /\ n \in Nat
    BY <1>0, <1>2 DEF n
  <2> QED
    BY <1>5, <2>1 DEF p
<1>14. Slack(n - (m - 1)) = Slack(n - m) + Rounding /\ Slack(n - m) \in Nat
  BY <1>12, SlackType
<1>15. Near(chanceTotal', scens', m - 1)
  <2>1. chanceTotal - S <= Slack(n - m) /\ S - chanceTotal <= Slack(n - m)
    BY <1>4 DEF Fits, Near, S, n
  <2>2. S \in Nat /\ c \in Nat /\ SumUpTo(scens')[n] = S + c
    BY <1>3, <1>7, <1>10 DEF S, c
  <2>3. chanceTotal' - (S + c) <= Slack(n - m) + Rounding
        /\ (S + c) - chanceTotal' <= Slack(n - m) + Rounding
    <3> DEFINE slack == Slack(n - m)
               total == chanceTotal'
    <3>1. /\ total \in Nat /\ total - (chanceTotal + c) <= Rounding
          /\ (chanceTotal + c) - total <= Rounding
          /\ chanceTotal \in Nat /\ slack \in Nat /\ Rounding \in Nat
          /\ chanceTotal - S <= slack /\ S - chanceTotal <= slack
      BY <1>2, <1>11, <1>14, <2>1
    <3> HIDE DEF slack, total
    <3>2. total - (S + c) <= slack + Rounding /\ (S + c) - total <= slack + Rounding
      BY <2>2, <3>1
    <3> QED
      BY <3>2 DEF slack, total
  <2> QED
    BY <1>7, <1>14, <2>2, <2>3 DEF Near
<1>16. Worth(chanceTotal', scens')
  <2> SUFFICES ASSUME NEW j \in 1 .. n, ChanceOf(scens'[j]) > 0
               PROVE  chanceTotal' > 0
    BY <1>7 DEF Worth
  <2>1. CASE j = p
    <3>1. ChanceOf(scens'[j]) = c
      BY <1>3, <1>8, <2>1 DEF ChanceOf, c
    <3> QED
      BY <1>3, <1>11, <3>1 DEF c
  <2>2. CASE j # p
    <3>1. chanceTotal > 0
      BY <1>4, <1>8, <2>2 DEF Fits, Worth, n
    <3> QED
      BY <1>2, <1>11, <3>1
  <2> QED
    BY <2>1, <2>2
<1>17. Assigned(scens', m - 1)
  <2> SUFFICES ASSUME NEW j \in 1 .. n PROVE scens'[j] = Unread <=> j <= m - 1
    BY <1>7 DEF Assigned
  <2>1. CASE j = p
    BY <1>3, <1>5, <1>8, <1>13, <2>1
  <2>2. CASE j # p
    <3>1. scens'[j] = Unread <=> j <= m
      BY <1>4, <1>8, <2>2 DEF Fits, Assigned, n
    <3> QED
      BY <1>5, <2>2, <3>1
  <2> QED
    BY <2>1, <2>2
<1>18. Fits(m - 1)'
  <2>1. Len(scens') - (m - 1) - scenCount' \in IF reloads' <= 1 THEN {0} ELSE {0, 1}
    BY <1>0, <1>1, <1>4, <1>7, <1>12 DEF Fits, Counted, n
  <2> QED
    BY <1>7, <1>9, <1>13, <1>15, <1>16, <1>17, <2>1
       DEF Fits, Counted, Near, Worth, Assigned, SumUpTo, ChanceOf
<1>19. scenCount' \in -1 .. Len(scens')
  BY <1>1, <1>2, <1>7, <1>12
<1>20. Loader'
  <2>1. k + 1 \in 1 .. n + 1
    <3>1. k \in 1 .. n + 1 /\ k <= n
      BY <1>0, <1>1
    <3> QED
      BY <1>2, <3>1 DEF n
  <2> QED
    BY <1>7, <1>9, <2>1 DEF Loader
<1> QED
  BY <1>7, <1>11, <1>13, <1>18, <1>19, <1>20 DEF Table

(* Any step keeps the table consistent.                                    *)
LEMMA TableKeeps == Inv /\ [Next]_vars => Table' /\ Loader'
<1> SUFFICES ASSUME Inv, [Next]_vars PROVE Table' /\ Loader'
  OBVIOUS
<1>0. TypeOK /\ Table /\ Loader /\ admin \in AdminType
  BY TypeParts DEF Inv
<1>1. CASE BeginReload
  <2>1. admin'.pc = "connect" /\ scens' = <<>>
    BY <1>0, <1>1 DEF BeginReload, AdminGoes, AdminType
  <2> QED
    BY <1>1, <2>1, BeginKeepsTable DEF Loader
<1>2. CASE Connect
  BY <1>2, ConnectKeepsTable
<1>3. CASE LoadRow
  BY <1>3, LoadRowKeepsTable
<1>4. CASE LoaderStep /\ ~BeginReload /\ ~Connect /\ ~LoadRow
  <2>1. UNCHANGED <<scens, scenCount, chanceTotal, reloads>>
    BY <1>0, <1>4, LoaderFrame
  <2>2. admin' = admin \/ admin'.pc \in {"names", "bans", "end", "idle"}
          \/ (admin'.pc = "wait" /\ reloads < MaxReloads)
    BY <1>0, <1>4, LoaderMoves
  <2>3. Table'
    BY <1>0, <2>1, <2>2, TableStays
  <2>4. Loader'
    BY <1>0, <2>1, <2>2 DEF Loader
  <2> QED
    BY <2>3, <2>4
<1>5. ASSUME UNCHANGED <<scens, scenCount, chanceTotal, reloads, admin>>
      PROVE  Table' /\ Loader'
  BY <1>0, <1>5, TableStays DEF Loader
<1>6. ASSUME NEW w \in Workers, WorkerStep(w) PROVE Table' /\ Loader'
  BY <1>0, <1>5, <1>6, WorkerFrame
<1>7. CASE UNCHANGED vars
  BY <1>5, <1>7 DEF vars, tableVars, history
<1> QED
  BY <1>1, <1>2, <1>3, <1>4, <1>6, <1>7 DEF Next, LoaderStep

-----------------------------------------------------------------------------
(* The faults.                                                             *)

(* What goes wrong in a load, and where.                                   *)
LoadFault(f) ==
    /\ f \in {"noCount", "unknownName"} => ~alive'
    /\ \/ BeginReload /\ f = "unreadBan" /\ reloads >= 1
       \/ SetNames /\ f \in {"unreadScen", "unknownName"} /\ (reloads <= 1 => Caused(f)')
       \/ LoadBans /\ f = "wildPattern" /\ Caused(f)'
       \/ (CountIsLost("connect") \/ CountIsLost("bans")) /\ f = "noCount"

LEMMA LoaderFaults ==
  ASSUME Inv, LoaderStep
  PROVE  \/ Fine
         \/ /\ alive' \in BOOLEAN
            /\ \E f \in Faults : faults' = faults \cup {f} /\ LoadFault(f)
<1>0. TypeOK /\ Table /\ FirstLoad /\ admin \in AdminType
  BY TypeParts DEF Inv
<1>1. CASE BeginReload
  <2>1. ~bansWhole => reloads >= 1
    BY <1>0, TypeParts DEF FirstLoad
  <2>2. Fine \/ (~bansWhole /\ Invalid("unreadBan"))
    BY <1>1 DEF BeginReload
  <2> QED
    BY <1>1, <2>1, <2>2 DEF Invalid, Faults, LoadFault
<1>2. CASE SetNames
  <2>1. CASE Fine
    BY <2>1
  <2>2. CASE ~Fine
    <3>1. PICK db \in Databases :
            /\ admin' = [admin EXCEPT !.pc = "bans", !.db = db]
            /\ named' = {s \in db.named : FoundByDbIndex(s)}
            /\ IF db.named # {} /\ scens # <<>> /\ scens[1] = Unread
               THEN Invalid("unreadScen")
               ELSE IF named' = db.named THEN Fine ELSE Fatal("unknownName")
      BY <1>2, <2>2 DEF SetNames
    <3>2. scens' = scens /\ admin'.db = db /\ reloads >= 1 /\ reloads \in Nat
          /\ reloads' = reloads
      BY <1>0, <1>2, <3>1, TypeParts DEF SetNames, AdminType, AdminAt, FirstLoad, Reloading,
                                          history
    <3>3. CASE Invalid("unreadScen") /\ scens # <<>> /\ scens[1] = Unread
      <4>1. 1 \in DOMAIN scens
        BY <1>0, <3>3, TypeParts, EmptySeq
      <4>2. Caused("unreadScen")'
        BY <3>2, <3>3, <4>1 DEF Caused
      <4> QED
        BY <1>2, <3>3, <4>2 DEF Invalid, Faults, LoadFault
    <3>4. CASE /\ ~(db.named # {} /\ scens # <<>> /\ scens[1] = Unread)
               /\ named' # db.named /\ Fatal("unknownName")
      <4>1. PICK s \in db.named : ~FoundByDbIndex(s)
        BY <3>1, <3>4
      <4>2. ASSUME reloads <= 1 PROVE \A k \in DOMAIN scens : scens[k] # s
        <5>1. PICK m \in Nat : Fits(m)
          BY <1>0 DEF Table
        <5>2. m \in 0 .. Len(scens) /\ Len(scens) - m - scenCount = 0
          BY <4>2, <5>1 DEF Fits, Counted
        <5>3. m = 0
          <6>1. Len(scens) # 0 => scens # <<>> /\ 1 \in 1 .. Len(scens)
            BY <1>0, TypeParts
          <6>2. Len(scens) # 0 => ~(1 <= m)
            BY <3>4, <4>1, <5>1, <6>1 DEF Fits, Assigned
          <6> QED
            BY <1>0, <5>2, <6>2, TypeParts
        <5>4. scenCount = Len(scens)
          BY <1>0, <5>2, <5>3, TypeParts
        <5> QED
          BY <1>0, <4>1, <5>4, TypeParts DEF FoundByDbIndex
      <4>3. reloads <= 1 => Caused("unknownName")'
        BY <3>2, <4>1, <4>2 DEF Caused
      <4> QED
        BY <1>2, <3>4, <4>3 DEF Fatal, Faults, LoadFault
    <3> QED
      BY <2>2, <3>1, <3>3, <3>4
  <2> QED
    BY <2>1, <2>2
<1>3. CASE LoadBans
  <2>1. CASE Fine
    BY <2>1
  <2>2. CASE ~Fine
    <3>0. PICK db \in Databases : \E arrived \in Arriving(db.bans) :
            /\ \E k \in 1 .. arrived : ~db.bans[k]
            /\ admin' = [admin EXCEPT !.pc = "end", !.db = db]
            /\ Invalid("wildPattern")
      BY <1>3, <2>2 DEF LoadBans
    <3>1. PICK arrived \in Arriving(db.bans) :
            /\ \E k \in 1 .. arrived : ~db.bans[k]
            /\ admin' = [admin EXCEPT !.pc = "end", !.db = db]
            /\ Invalid("wildPattern")
      BY <3>0
    <3>2. DOMAIN db.bans = 1 .. Len(db.bans) /\ Len(db.bans) \in Nat
      BY LenProperties
    <3>3. arrived \in 0 .. Len(db.bans)
      BY <3>2 DEF Arriving
    <3>4. \E k \in DOMAIN db.bans : ~db.bans[k]
      BY <3>1, <3>2, <3>3
    <3>5. admin'.db = db
      BY <1>0, <3>1 DEF AdminType
    <3>6. Caused("wildPattern")'
      BY <3>4, <3>5 DEF Caused
    <3> QED
      BY <1>3, <3>1, <3>6 DEF Invalid, Faults, LoadFault
  <2> QED
    BY <2>1, <2>2
<1>4. CASE CountIsLost("connect") \/ CountIsLost("bans")
  BY <1>4 DEF CountIsLost, Fatal, Faults, LoadFault
<1> QED
  BY <1>0, <1>1, <1>2, <1>3, <1>4, LoaderFrame

(* What happened stays in the history.                                     *)
LEMMA FaultsGrow ==
  ASSUME Inv, [Next]_vars
  PROVE  faults \subseteq faults' /\ alive' \in BOOLEAN /\ faults' \subseteq Faults
<1>0. faults \subseteq Faults /\ alive \in BOOLEAN
  BY TypeParts DEF Inv
<1>1. CASE LoaderStep
  BY <1>0, <1>1, LoaderFaults DEF Fine
<1>2. ASSUME NEW w \in Workers, WorkerStep(w)
      PROVE  faults \subseteq faults' /\ alive' \in BOOLEAN /\ faults' \subseteq Faults
  BY <1>0, <1>2, WorkerFaults DEF Fine, Fault
<1>3. CASE UNCHANGED vars
  BY <1>0, <1>3 DEF vars
<1> QED
  BY <1>1, <1>2, <1>3 DEF Next, LoaderStep

-----------------------------------------------------------------------------
(* The other parts of the invariant.                                       *)

(* Any step keeps the types.                                               *)
LEMMA TypeKeeps == Inv /\ [Next]_vars => TypeOK'
<1> SUFFICES ASSUME Inv, [Next]_vars PROVE TypeOK'
  OBVIOUS
<1>0. TypeOK /\ Locks /\ Loader /\ admin \in AdminType /\ alive' \in BOOLEAN
      /\ faults' \subseteq Faults
  BY TypeParts, FaultsGrow DEF Inv
<1>1. CASE LoaderStep
  <2>1. /\ admin' \in AdminType /\ UNCHANGED <<worker, hosted, leaked>>
    BY <1>0, <1>1, LoaderFrame, LoaderMoves
  <2>2. /\ scens' \in Seq(Element) /\ scenCount' \in -1 .. Len(scens') /\ chanceTotal' \in Nat
        /\ scensSet' \in BOOLEAN
    <3>1. CASE BeginReload
      <4>1. scens' = <<>> /\ scenCount' \in {-1, 0} /\ chanceTotal' = 0 /\ scensSet' = FALSE
        BY <3>1 DEF BeginReload, CountAfterStandard, TotalAfterStandard
      <4>2. <<>> \in Seq(Element) /\ Len(<<>>) = 0
        BY EmptySeq
      <4>3. scensSet' \in BOOLEAN
        BY <4>1, Zenon
      <4>4. scenCount' \in -1 .. 0
        BY <4>1
      <4> QED
        BY <4>1, <4>2, <4>3, <4>4
    <3>2. CASE Connect
      BY <3>2, ConnectKeepsTable
    <3>3. CASE LoadRow
      BY <1>0, <3>3, LoadRowKeepsTable, TypeParts DEF LoadRow
    <3>4. CASE UNCHANGED <<scens, scensSet, scenCount, chanceTotal>>
      BY <1>0, <3>4, TypeParts
    <3> QED
      BY <1>0, <1>1, <3>1, <3>2, <3>3, <3>4, LoaderFrame
  <2>3. named' \subseteq Scenarios
    <3>1. CASE SetNames
      BY <1>0, <3>1, TypeParts DEF SetNames
    <3>2. CASE BeginReload
      BY <3>2 DEF BeginReload
    <3>3. CASE LoaderStep /\ ~SetNames /\ ~BeginReload
      <4>1. named' = named
        BY <3>3 DEF LoaderStep, ReloadStep, CallReload, Connect, LoadRow, EndRows, LoadBans,
                    EndReload, CountIsLost, tableVars
      <4> QED
        BY <1>0, <4>1, TypeParts
    <3> QED
      BY <1>1, <3>1, <3>2, <3>3
  <2>4. bansSet' \in BOOLEAN /\ bansWhole' \in BOOLEAN /\ banCount' \in Int
    <3>1. CASE BeginReload
      <4>1. banCount' \in {-1, banCount}
        BY <3>1 DEF BeginReload, BansAfterStandard
      <4>2. bansSet' = FALSE /\ bansWhole' = TRUE
        BY <3>1 DEF BeginReload
      <4>3. bansSet' \in BOOLEAN /\ bansWhole' \in BOOLEAN
        BY <4>2, Zenon
      <4>4. banCount \in Int
        BY <1>0, TypeParts
      <4>5. banCount' \in Int
        BY <4>1, <4>4
      <4> QED
        BY <4>3, <4>5, Zenon
    <3>2. CASE LoadBans
      <4>1. CASE UNCHANGED banVars
        BY <1>0, <4>1, TypeParts DEF banVars
      <4>2. CASE ~UNCHANGED banVars
        <5>1. PICK counted \in Databases :
                 bansSet' = TRUE /\ banCount' = Len(counted.bans) /\ bansWhole' \in BOOLEAN
          BY <3>2, <4>2 DEF LoadBans
        <5> QED
          BY <5>1, LenProperties
      <4> QED
        BY <4>1, <4>2
    <3>3. CASE UNCHANGED <<bansSet, banCount, bansWhole>>
      BY <1>0, <3>3, TypeParts
    <3> QED
      BY <1>0, <1>1, <3>1, <3>2, <3>3, LoaderFrame
  <2>5. reads' \in [Workers \cup {Admin} -> Nat] /\ writes' \in [Workers \cup {Admin} -> Nat]
    <3>1. CASE BeginReload
      BY <1>0, <3>1, TypeParts DEF BeginReload, Lock!AcquireWrite
    <3>2. CASE EndReload
      BY <1>0, <3>2, TypeParts DEF EndReload, Lock!ReleaseWrite
    <3>3. CASE UNCHANGED <<reads, writes>>
      BY <1>0, <3>3, TypeParts
    <3> QED
      BY <1>0, <1>1, <3>1, <3>2, <3>3, LoaderFrame
  <2>6. reloads' \in 0 .. MaxReloads
    <3>1. CASE BeginReload
      BY <1>0, <3>1, TypeParts DEF BeginReload, AdminAt, Loader
    <3> QED
      BY <1>0, <1>1, <3>1, LoaderFrame, TypeParts
  <2> QED
    BY <1>0, <2>1, <2>2, <2>3, <2>4, <2>5, <2>6, TypeParts, NextType
<1>2. ASSUME NEW w \in Workers, WorkerStep(w) PROVE TypeOK'
  <2>1. /\ UNCHANGED <<scens, scensSet, scenCount, chanceTotal, named>>
        /\ UNCHANGED <<bansSet, banCount, bansWhole, admin, writes, reloads>>
        /\ reads' \in [Workers \cup {Admin} -> Nat]
    BY <1>0, <1>2, WorkerFrame
  <2>2. worker' \in [Workers -> WorkerType]
    <3>1. worker \in [Workers -> WorkerType] /\ worker[w] \in WorkerType /\ reloads \in Nat
          /\ worker' = [worker EXCEPT ![w] = worker'[w]]
      BY <1>0, <1>2, WorkerMoves, TypeParts DEF Inv
    <3>2. worker'[w] \in WorkerType
      <4>1. CASE Finds(w)
        <5>1. CASE \E k \in 1 .. scenCount, pc \in {"picked", "copied"} : Found(w, k, pc)
          <6>1. PICK k \in 1 .. scenCount, pc \in {"picked", "copied"} : Found(w, k, pc)
            BY <5>1
          <6>2. k - 1 \in Nat
            OBVIOUS
          <6> QED
            BY <3>1, <6>1, <6>2 DEF Found, WorkerType
        <5>2. CASE worker'[w] = [worker[w] EXCEPT !.pc = "banned", !.since = reloads]
          BY <3>1, <5>2 DEF WorkerType
        <5> QED
          BY <4>1, <5>1, <5>2 DEF Finds, Strange
      <4>2. ASSUME NEW from, NEW to \in {"idle", "copied"}, Moves(w, from, to)
            PROVE  worker'[w] \in WorkerType
        BY <3>1, <4>2 DEF Moves, WorkerType
      <4> QED
        BY <1>0, <1>2, <3>1, <4>1, <4>2, WorkerMoves
    <3> QED
      BY <3>1, <3>2
  <2>3. hosted' \in [Workers -> HostedType]
    BY <1>0, <1>2, HostedMoves
  <2>4. leaked' \in BOOLEAN
    <3>1. leaked' \in {leaked, TRUE}
      BY <1>2 DEF WorkerStep, Pick, CreateHost, PickNone, PickOnly, PickByChance,
                  Search, TakeScen, MatchBan, TakeReason, AskPath, ReturnLocked, history
    <3> QED
      BY <1>0, <3>1, TypeParts
  <2> QED
    BY <1>0, <2>1, <2>2, <2>3, <2>4, TypeParts, NextType
<1>3. CASE UNCHANGED vars
  <2>1. /\ UNCHANGED <<scens, scensSet, scenCount, chanceTotal, named>>
        /\ UNCHANGED <<bansSet, banCount, bansWhole, admin, reads, writes, reloads>>
        /\ UNCHANGED <<worker, hosted, leaked>>
    BY <1>3 DEF vars, tableVars, banVars, lockVars, history
  <2> QED
    BY <1>0, <2>1, TypeParts, NextType
<1> QED
  BY <1>1, <1>2, <1>3 DEF Next, LoaderStep

(* Any step, as far as the first load is concerned.                        *)
LEMMA FirstKeeps == Inv /\ [Next]_vars => FirstLoad'
<1> SUFFICES ASSUME Inv, [Next]_vars PROVE FirstLoad'
  OBVIOUS
<1>0. /\ TypeOK /\ Locks /\ Table /\ Loader /\ FirstLoad /\ Held /\ admin \in AdminType
      /\ reloads \in Nat /\ scenCount \in Int /\ banCount \in Int
  BY TypeParts DEF Inv
<1>1. CASE BeginReload
  <2>1. /\ reloads' = reloads + 1 /\ admin'.pc = "connect" /\ worker' = worker /\ alive
        /\ banCount' = IF bansSet THEN -1 ELSE banCount
        /\ ~bansWhole \/ Fine
        /\ faults' = faults \/ faults' = faults \cup {"unreadBan"}
        /\ alive' \in BOOLEAN
    BY <1>0, <1>1 DEF BeginReload, AdminGoes, AdminAt, AdminType, BansAfterStandard, Fine,
                      Invalid, FirstLoad
  <2>2. ASSUME reloads' <= 1
        PROVE  /\ faults' = {} /\ banCount' >= 0 /\ reloads' = 1
               /\ \A w \in Workers : worker'[w].pc = "absent"
    <3>1. reloads = 0 /\ reloads' = 1
      BY <1>0, <2>1, <2>2
    <3>2. /\ ~bansSet /\ bansWhole /\ faults = {} /\ banCount >= 0
          /\ \A w \in Workers : worker[w].pc = "absent"
      BY <3>1 DEF Inv, FirstLoad
    <3>3. faults' = faults
      BY <2>1, <3>2 DEF Fine
    <3> QED
      BY <2>1, <3>1, <3>2, <3>3
  <2>3. faults \cap {"noCount", "unknownName"} = {}
    BY <1>0, <2>1 DEF FirstLoad
  <2> QED
    BY <1>0, <2>1, <2>2, <2>3 DEF FirstLoad, Reloading
<1>2. CASE LoaderStep /\ ~BeginReload
  <2>1. /\ reloads' = reloads /\ worker' = worker /\ alive
    BY <1>0, <1>2, LoaderFrame
  <2>2. faults' \cap {"noCount", "unknownName"} # {} => ~alive'
    <3>1. faults \cap {"noCount", "unknownName"} = {}
      BY <1>0, <2>1 DEF FirstLoad
    <3> QED
      BY <1>2, <2>1, <3>1, LoaderFaults DEF Fine, LoadFault
  <2>3. Reloading' => Reloading
    BY <1>0, <1>2, LoaderMoves DEF Reloading, AdminType
  <2>4. reloads = 0 => ~Reloading
    BY <1>0 DEF FirstLoad
  <2>5. ASSUME reloads = 0 PROVE UNCHANGED <<scens, scensSet, bansSet, bansWhole, scenCount,
                                             faults, banCount>>
    <3>1. CallReload
      BY <1>0, <1>2, <2>4, <2>5, LoaderMoves DEF Reloading
    <3> QED
      BY <3>1 DEF CallReload, tableVars, banVars
  <2>6. scenCount' = scenCount \/ scenCount' = scenCount + 1
    <3>1. CASE Connect
      BY <3>1 DEF Connect, tableVars
    <3>2. CASE LoadRow
      BY <3>2 DEF LoadRow
    <3> QED
      BY <1>0, <1>2, <3>1, <3>2, LoaderFrame
  <2>7. banCount' = banCount \/ banCount' >= 0
    <3>1. CASE LoadBans
      <4>1. banCount' = banCount \/ \E counted \in Databases : banCount' = Len(counted.bans)
        BY <3>1 DEF LoadBans, banVars
      <4> QED
        BY <4>1, LenProperties
    <3> QED
      BY <1>0, <1>2, <3>1, LoaderFrame
  <2>8. ASSUME reloads = 1, admin'.pc \in {"connect", "rows", "names"}
        PROVE  faults' \subseteq {"noCount"}
    <3>1. admin.pc \in {"connect", "rows"} /\ ~SetNames /\ ~LoadBans
      BY <1>0, <1>2, <2>8, LoaderMoves DEF SetNames, LoadBans, AdminAt, AdminType
    <3>2. faults \subseteq {"noCount"}
      BY <1>0, <2>8, <3>1 DEF FirstLoad
    <3> QED
      BY <1>2, <3>1, <3>2, LoaderFaults DEF Fine, LoadFault
  <2>9. ASSUME reloads = 1, admin'.pc = "bans"
        PROVE  faults' \subseteq {"noCount", "unreadScen", "unknownName"}
    <3>1. admin.pc \in {"connect", "rows", "names", "bans"} /\ ~LoadBans
      <4>1. LoadBans => admin'.pc = "end"
        BY <1>0 DEF LoadBans, AdminGoes, AdminType
      <4> QED
        BY <1>0, <1>2, <2>9, <4>1, LoaderMoves
    <3>2. faults \subseteq {"noCount", "unreadScen", "unknownName"}
      BY <1>0, <2>9, <3>1 DEF FirstLoad
    <3> QED
      BY <1>2, <3>1, <3>2, LoaderFaults DEF Fine, LoadFault
  <2>10. Reloading' => reloads' >= 1
    BY <1>0, <2>1, <2>3 DEF FirstLoad
  <2> HIDE DEF Reloading
  <2> QED
    BY <1>0, <2>1, <2>2, <2>5, <2>6, <2>7, <2>8, <2>9, <2>10 DEF FirstLoad
<1>3. ASSUME NEW w \in Workers, WorkerStep(w) PROVE FirstLoad'
  <2>1. /\ UNCHANGED <<scens, scensSet, scenCount, bansSet, banCount, bansWhole, admin, reloads>>
        /\ alive
    BY <1>0, <1>3, WorkerFrame
  <2>2. /\ \A v \in Workers \ {w} : worker'[v] = worker[v]
        /\ worker[w].pc = "absent" => worker'[w].pc = "absent" \/ scenCount >= 1
    <3>1. worker \in [Workers -> WorkerType]
      BY <1>0, TypeParts
    <3>2. worker' = [worker EXCEPT ![w] = worker'[w]]
      BY <1>0, <1>3, WorkerMoves
    <3>3. worker[w].pc = "absent" => worker'[w].pc = "absent" \/ scenCount >= 1
      BY <1>0, <1>3, WorkerMoves DEF Moves, Finds
    <3> QED
      BY <3>1, <3>2, <3>3
  <2>3. ASSUME reloads = 0 PROVE faults' = faults
    BY <1>0, <1>3, <2>3, WorkerFaults DEF Fine, Fault
  <2>4. ASSUME reloads = 1, Reloading PROVE faults' = faults
    BY <1>0, <1>3, <2>4, WorkerFaults DEF Fine, Fault
  <2>5. faults' \cap {"noCount", "unknownName"} = {}
    <3>1. faults \cap {"noCount", "unknownName"} = {}
      BY <1>0, <2>1 DEF FirstLoad
    <3> QED
      BY <1>3, <3>1, WorkerFaults DEF Fine, Fault
  <2>6. reloads = 0 => scenCount = 0
    BY <1>0 DEF FirstLoad
  <2> QED
    BY <1>0, <2>1, <2>2, <2>3, <2>4, <2>5, <2>6 DEF FirstLoad, Reloading
<1>4. CASE UNCHANGED vars
  BY <1>0, <1>4 DEF vars, tableVars, banVars, history, FirstLoad, Reloading
<1> QED
  BY <1>1, <1>2, <1>3, <1>4 DEF Next, LoaderStep

(* Any step, as far as what the workers hold is concerned.                 *)
LEMMA HeldKeeps == Inv /\ [Next]_vars => Held'
<1> SUFFICES ASSUME Inv, [Next]_vars PROVE Held'
  OBVIOUS
<1>0. /\ TypeOK /\ Locks /\ FirstLoad /\ Held /\ admin \in AdminType
      /\ reloads \in Nat /\ scenCount \in Int /\ worker \in [Workers -> WorkerType]
      /\ faults \subseteq faults'
  BY TypeParts, FaultsGrow DEF Inv
<1>1. CASE BeginReload
  <2>1. reloads' = reloads + 1 /\ worker' = worker
    BY <1>1 DEF BeginReload
  <2>2. ASSUME NEW w \in Workers, Holds(w)
        PROVE  worker[w].since \in 1 .. reloads' /\ worker[w].since # reloads'
    BY <1>0, <2>1, <2>2 DEF Held
  <2> QED
    BY <2>1, <2>2 DEF Held, Holds
<1>2. CASE LoaderStep /\ ~BeginReload
  <2>1. reloads' = reloads /\ worker' = worker
    BY <1>0, <1>2, LoaderFrame
  <2>2. CASE Reloading
    BY <1>0, <2>1, <2>2 DEF Held, Holds
  <2>3. CASE ~Reloading
    <3>1. CallReload
      BY <1>0, <1>2, <2>3, LoaderMoves DEF Reloading
    <3>2. UNCHANGED <<scens, scenCount>> /\ ~Reloading'
      BY <1>0, <3>1 DEF CallReload, AdminGoes, AdminType, tableVars, Reloading
    <3> QED
      BY <1>0, <2>1, <3>2 DEF Held, Holds
  <2> QED
    BY <2>2, <2>3
<1>3. ASSUME NEW w \in Workers, WorkerStep(w) PROVE Held'
  <2>1. UNCHANGED <<scens, scenCount, reloads, admin>> /\ (Reloading' <=> Reloading)
    BY <1>0, <1>3, WorkerFrame DEF Reloading
  <2>2. /\ worker' = [worker EXCEPT ![w] = worker'[w]]
        /\ \A v \in Workers \ {w} : worker'[v] = worker[v]
    BY <1>0, <1>3, WorkerMoves
  <2>3. CASE Finds(w)
    <3>1. reloads >= 1 /\ ~Reloading /\ reloads \in 1 .. reloads
      BY <1>0, <2>3 DEF Finds, FirstLoad
    <3>2. CASE \E k \in 1 .. scenCount, pc \in {"picked", "copied"} : Found(w, k, pc)
      <4>1. PICK k \in 1 .. scenCount, pc \in {"picked", "copied"} : Found(w, k, pc)
        BY <3>2
      <4>2. k - 1 + 1 = k /\ k <= scenCount
        BY <1>0
      <4>3. /\ worker'[w].pc = pc /\ worker'[w].since = reloads
            /\ worker'[w].place + 1 = k /\ worker'[w].scen = scens[k] /\ scens[k] \in Scenarios
        BY <4>1, <4>2 DEF Found
      <4> QED
        BY <1>0, <2>1, <2>2, <3>1, <4>2, <4>3 DEF Held, Holds
    <3>3. CASE \E pc \in {"picked", "copied"} : Strange(w, pc)
      <4>1. "unreadScen" \in faults' /\ worker'[w].since = reloads
        BY <3>3 DEF Strange
      <4> QED
        BY <1>0, <2>1, <2>2, <3>1, <4>1 DEF Held, Holds
    <3>4. CASE worker'[w] = [worker[w] EXCEPT !.pc = "banned", !.since = reloads]
      <4>1. worker'[w].pc = "banned" /\ worker'[w].since = reloads
        BY <1>0, <3>4 DEF WorkerType
      <4> QED
        BY <1>0, <2>1, <2>2, <3>1, <4>1 DEF Held, Holds
    <3> QED
      BY <2>3, <3>2, <3>3, <3>4 DEF Finds
  <2>4. CASE Moves(w, "picked", "copied")
    <3>1. /\ worker[w].pc = "picked" /\ worker'[w].pc = "copied"
          /\ worker'[w].since = worker[w].since /\ worker'[w].place = worker[w].place
          /\ worker'[w].scen = worker[w].scen
      BY <1>0, <2>4 DEF Moves, WorkerType
    <3> QED
      BY <1>0, <2>1, <2>2, <3>1 DEF Held, Holds
  <2>5. CASE \/ worker'[w] = worker[w]
             \/ Moves(w, "absent", "idle") \/ Moves(w, "copied", "idle")
             \/ Moves(w, "banned", "idle")
    <3>1. worker'[w] = worker[w] \/ worker'[w].pc = "idle"
      BY <1>0, <2>5 DEF Moves, WorkerType
    <3> QED
      BY <1>0, <2>1, <2>2, <3>1 DEF Held, Holds
  <2> QED
    BY <1>0, <1>3, <2>3, <2>4, <2>5, WorkerMoves
<1>4. CASE UNCHANGED vars
  BY <1>0, <1>4 DEF vars, tableVars, history, Held, Holds, Reloading
<1> QED
  BY <1>1, <1>2, <1>3, <1>4 DEF Next, LoaderStep

(* A cause stays as long as what it is about.                              *)
LEMMA CauseStays ==
  ASSUME UNCHANGED <<scens, chanceTotal, bansWhole>>, NEW f, Caused(f),
         f \in {"unknownName", "wildPattern"} => admin'.db = admin.db
  PROVE  Caused(f)'
<1>1. ChanceUpTo' = ChanceUpTo
  BY DEF ChanceUpTo, ChanceOf
<1> QED
  BY <1>1 DEF Caused, ChanceOf

(* Any step of a first load.                                               *)
LEMMA LoaderKeepsCauses ==
  ASSUME Inv, LoaderStep, reloads' <= 1, NEW f \in faults'
  PROVE  Caused(f)'
<1>0. /\ TypeOK /\ FirstLoad /\ admin \in AdminType /\ reloads \in Nat
      /\ FirstLoadFaults
  BY TypeParts DEF Inv
<1>1. alive /\ faults \cap {"noCount", "unknownName"} = {}
  BY <1>0, LoaderFrame DEF FirstLoad
<1>2. ASSUME reloads = 0 PROVE faults' = {}
  <2>1. faults = {} /\ bansWhole
    BY <1>0, <1>2 DEF FirstLoad
  <2>2. admin.pc \in {"idle", "wait"}
    BY <1>0, <1>2 DEF FirstLoad, Reloading, AdminType
  <2>3. CallReload \/ BeginReload
    BY <1>0, <2>2, LoaderMoves
  <2>4. faults' = faults
    BY <2>1, <2>3 DEF CallReload, BeginReload, Fine
  <2> QED
    BY <2>1, <2>4
<1>3. CASE reloads = 1 /\ ~BeginReload
  <2>1. reloads' = reloads
    BY <1>0, <1>3, LoaderFrame
  <2>2. CASE f \in faults
    <3>1. Caused(f) /\ f \notin {"noCount", "unknownName"}
      BY <1>0, <1>1, <1>3, <2>2, AllCaused
    <3>2. ~Connect /\ ~LoadRow /\ ~SetNames
      BY <1>0, <1>1, <1>3, <2>2 DEF FirstLoad, Connect, LoadRow, SetNames, AdminAt
    <3>3. UNCHANGED <<scens, chanceTotal>>
      BY <1>0, <1>3, <3>2, LoaderFrame
    <3>4. CASE LoadBans
      <4>1. f = "unreadScen"
        BY <1>0, <1>1, <1>3, <2>2, <3>4 DEF FirstLoad, LoadBans, AdminAt
      <4> QED
        BY <3>1, <3>3, <4>1 DEF Caused
    <3>5. CASE ~LoadBans
      <4>1. bansWhole' = bansWhole
        BY <1>0, <1>3, <3>5, LoaderFrame
      <4>2. admin'.db = admin.db
        BY <1>0, <1>3, <3>2, <3>5 DEF LoaderStep, ReloadStep, CallReload, EndRows, EndReload,
                                      CountIsLost, AdminGoes, AdminType
      <4> QED
        BY <3>1, <3>3, <4>1, <4>2, CauseStays
    <3> QED
      BY <3>4, <3>5
  <2>3. CASE f \notin faults
    <3>1. LoadFault(f)
      BY <2>3, LoaderFaults DEF Fine
    <3>2. CASE f = "noCount"
      BY <3>2 DEF Caused
    <3> QED
      BY <1>3, <3>1, <3>2 DEF LoadFault
  <2> QED
    BY <2>2, <2>3
<1>4. ~(reloads = 1 /\ BeginReload) /\ reloads \in {0, 1}
  <2>1. reloads' = reloads + 1 \/ reloads' = reloads
    BY <1>0, LoaderFrame DEF BeginReload
  <2>2. BeginReload => reloads' = reloads + 1
    BY DEF BeginReload
  <2> QED
    BY <1>0, <2>1, <2>2
<1> QED
  BY <1>2, <1>3, <1>4

(* Any step, as far as the faults are concerned.                           *)
LEMMA FaultsKeep == Inv /\ [Next]_vars => FirstLoadFaults'
<1> SUFFICES ASSUME Inv, [Next]_vars, reloads' <= 1, NEW f \in faults' PROVE Caused(f)'
  <2>1. FirstLoadFaults' <=> (reloads' <= 1 => \A f \in faults' : Caused(f)')
    BY DEF FirstLoadFaults, Caused
  <2> QED
    BY <2>1
<1>0. TypeOK /\ FirstLoadFaults
  BY DEF Inv
<1>1. CASE LoaderStep
  BY <1>1, LoaderKeepsCauses
<1>2. ASSUME NEW w \in Workers, WorkerStep(w) PROVE Caused(f)'
  <2>1. UNCHANGED <<scens, chanceTotal, bansWhole, admin, reloads>>
    BY <1>0, <1>2, WorkerFrame
  <2>2. Caused(f)
    <3>1. CASE f \in faults
      BY <1>0, <2>1, <3>1, AllCaused
    <3>2. CASE f \notin faults
      <4>1. Fault(f)
        BY <1>2, <3>2, WorkerFaults DEF Fine, Fault
      <4> QED
        BY <2>1, <4>1 DEF Fault
    <3> QED
      BY <3>1, <3>2
  <2> QED
    BY <2>1, <2>2, CauseStays
<1>3. CASE UNCHANGED vars
  <2>1. UNCHANGED <<scens, chanceTotal, bansWhole, admin, reloads, faults>>
    BY <1>3 DEF vars, tableVars, banVars, history
  <2>2. Caused(f)
    BY <1>0, <2>1, AllCaused
  <2> QED
    BY <2>1, <2>2, CauseStays
<1> QED
  BY <1>1, <1>2, <1>3 DEF Next, LoaderStep

(* Any step, as far as the hosts' games are concerned.                     *)
LEMMA HostsKeep == Inv /\ [Next]_vars => HostsTheChosen'
<1> SUFFICES ASSUME Inv, [Next]_vars PROVE HostsTheChosen'
  OBVIOUS
<1>0. TypeOK /\ Held /\ HostsTheChosen /\ faults \subseteq faults'
  BY FaultsGrow DEF Inv
<1>1. ASSUME hosted' = hosted PROVE HostsTheChosen'
  BY <1>0, <1>1 DEF HostsTheChosen
<1>2. ASSUME NEW w \in Workers, WorkerStep(w) PROVE HostsTheChosen'
  <2>1. CASE hosted'[w] = hosted[w]
    <3>1. \A v \in Workers : hosted'[v] = hosted[v]
      BY <1>0, <1>2, <2>1, HostedMoves
    <3> QED
      BY <1>0, <3>1 DEF HostsTheChosen
  <2>2. CASE /\ worker[w].pc = "copied"
             /\ hosted'[w] = [chosen |-> worker[w].scen,
                              played |-> scens[worker[w].place + 1],
                              since |-> worker[w].since, at |-> reloads]
    <3>1. /\ worker[w].since \in 1 .. reloads
          /\ worker[w].since = reloads =>
               "unreadScen" \in faults \/ scens[worker[w].place + 1] = worker[w].scen
      BY <1>0, <2>2 DEF Held, Holds
    <3>2. worker[w].since = reloads \/ reloads > worker[w].since
      BY <1>0, <3>1, TypeParts
    <3>3. hosted'[w].chosen # hosted'[w].played =>
            hosted'[w].at > hosted'[w].since \/ "unreadScen" \in faults'
      BY <1>0, <2>2, <3>1, <3>2
    <3>4. \A v \in Workers \ {w} : hosted'[v] = hosted[v]
      BY <1>0, <1>2, HostedMoves
    <3> QED
      BY <1>0, <3>3, <3>4 DEF HostsTheChosen
  <2> QED
    BY <1>0, <1>2, <2>1, <2>2, HostedMoves
<1>3. CASE LoaderStep \/ UNCHANGED vars
  BY <1>0, <1>1, <1>3, LoaderFrame DEF vars, history
<1> QED
  BY <1>2, <1>3 DEF Next, LoaderStep

(* Nothing is loaded, and nothing held.                                    *)
LEMMA InitInv == Init => Inv
<1> SUFFICES ASSUME Init PROVE Inv
  OBVIOUS
<1>1. <<>> \in Seq(Element) /\ Len(<<>>) = 0 /\ SumUpTo(<<>>)[0] = 0 /\ Slack(0) = 0
  <2>1. <<>> \in Seq(Element) /\ Len(<<>>) = 0
    BY EmptySeq
  <2> QED
    BY <2>1, SumEquation, SlackType
<1>2. admin = [pc |-> "idle", db |-> Empty, row |-> 0] /\ reloads = 0
  BY DEF Init
<1>3. TypeOK
  <2>1. admin \in AdminType
    BY <1>2 DEF AdminType
  <2>2. worker \in [Workers -> WorkerType] /\ hosted \in [Workers -> HostedType]
    BY DEF Init, WorkerType, HostedType
  <2>3. Lock!TypeOK
    BY DEF Init, Lock!Init, Lock!TypeOK
  <2>4. {scensSet, bansSet, bansWhole, alive, leaked} \subseteq BOOLEAN
    BY DEF Init
  <2>5. scens \in Seq(Element) /\ scenCount \in -1 .. Len(scens)
    BY <1>1 DEF Init
  <2>6. chanceTotal \in Nat /\ banCount \in Int /\ reloads \in 0 .. MaxReloads
        /\ named \subseteq Scenarios /\ faults \subseteq Faults
    BY DEF Init
  <2> QED
    BY <2>1, <2>2, <2>3, <2>4, <2>5, <2>6 DEF TypeOK, AdminType, WorkerType, HostedType, Element
<1>4. Locks
  BY <1>2 DEF Init, Lock!Init, Locks, Reloading
<1>5. Table
  <2>1. Fits(0)
    BY <1>1, <1>2 DEF Init, Fits, Counted, Assigned, Near, Worth
  <2> QED
    BY <2>1 DEF Table
<1>6. Loader /\ FirstLoad
  BY <1>1, <1>2 DEF Init, Loader, FirstLoad, Reloading
<1>7. Held /\ FirstLoadFaults /\ HostsTheChosen
  BY DEF Init, Held, Holds, FirstLoadFaults, HostsTheChosen
<1> QED
  BY <1>3, <1>4, <1>5, <1>6, <1>7 DEF Inv

(* The lock of the settings, the table while its rows come, what a first   *)
(* load keeps to and what the readers hold are one invariant (Config.cpp,  *)
(* lines 47 to 276), however often Reload is called, wherever the          *)
(* connection or the fetching ends and whatever each query finds.          *)
THEOREM InvHolds == Spec => []Inv
<1>1. Inv /\ [Next]_vars => Inv'
  <2> SUFFICES ASSUME Inv, [Next]_vars PROVE Inv'
    OBVIOUS
  <2>1. TypeOK'
    BY TypeKeeps
  <2>2. Locks'
    BY LocksKeep
  <2>3. Table' /\ Loader'
    BY TableKeeps
  <2>4. FirstLoad' /\ Held'
    BY FirstKeeps, HeldKeeps
  <2>5. FirstLoadFaults' /\ HostsTheChosen'
    BY FaultsKeep, HostsKeep
  <2> QED
    BY <2>1, <2>2, <2>3, <2>4, <2>5 DEF Inv
<1> QED
  BY <1>1, InitInv, PTL DEF Spec

-----------------------------------------------------------------------------
(* The theorems.                                                           *)

(* The variables keep their types: ScenCount is never more than the array  *)
(* is long, and never below -1, where Standard leaves it.                  *)
THEOREM TypesHold == Spec => []TypeOK
<1>1. Inv => TypeOK
  BY DEF Inv
<1> QED
  BY <1>1, InvHolds, PTL

(* Whoever is let in by LockStatus finds that the elements of Scens that   *)
(* are not assigned are its first ones, ScenCount the number of the others *)
(* or, from the second load on, one less, and ChanceTotal the sum of their *)
(* chances but for Rounding per element: also after a fetch that was cut   *)
(* short or a count that another query did not agree with.                 *)
THEOREM TableIsConsistent == Spec => []TableConsistent
<1>1. Inv => TableConsistent
  <2> SUFFICES ASSUME Inv PROVE TableConsistent
    OBVIOUS
  <2>1. PICK m \in Nat : Fits(m)
    BY DEF Inv, Table
  <2>2. /\ chanceTotal \in Nat /\ DOMAIN scens = 1 .. Len(scens) /\ Len(scens) \in Nat
        /\ SumUpTo(scens)[Len(scens)] \in Nat /\ m \in 0 .. Len(scens)
    <3>1. /\ chanceTotal \in Nat /\ scens \in Seq(Element) /\ Len(scens) \in Nat
          /\ DOMAIN scens = 1 .. Len(scens)
      BY TypeParts DEF Inv
    <3>2. Len(scens) \in 0 .. Len(scens) /\ SumUpTo(scens) \in [0 .. Len(scens) -> Nat]
      BY <3>1, SumEquation
    <3>3. m \in 0 .. Len(scens)
      BY <2>1 DEF Fits
    <3> QED
      BY <3>1, <3>2, <3>3
  <2>3. Slack(Len(scens) - m) \in Nat
    <3>1. Len(scens) - m \in Nat
      BY <2>2
    <3> QED
      BY <3>1, SlackType
  <2>4. chanceTotal - ChanceUpTo[Len(scens)] \in
          -(Rounding * (Len(scens) - m)) .. Rounding * (Len(scens) - m)
    <3> DEFINE e == Slack(Len(scens) - m)
               S == SumUpTo(scens)[Len(scens)]
    <3>1. chanceTotal - S <= e /\ S - chanceTotal <= e
      BY <2>1 DEF Fits, Near
    <3>2. e \in Nat /\ S \in Nat
      BY <2>2, <2>3
    <3> HIDE DEF e, S
    <3>3. chanceTotal - S \in -e .. e
      BY <2>2, <3>1, <3>2
    <3> QED
      BY <3>3, ChanceUpToIsSum DEF e, S, Slack
  <2> QED
    BY <2>1, <2>2, <2>4 DEF Fits, Assigned, Counted, TableConsistent
<1> QED
  BY <1>1, InvHolds, PTL

(* With the settings loaded once, by main, what goes wrong in Config.cpp   *)
(* has its cause in what that load was given: an element of Scens or Bans  *)
(* that is not assigned, a name of a scenario that is not in the table, a  *)
(* pattern that is none, chances that are all 0 or a sum that was rounded  *)
(* up.  Nothing freed is read, and no loop runs past its end.              *)
THEOREM FirstFaultsHaveCauses == Spec => []FirstLoadFaults
<1>1. Inv => FirstLoadFaults
  BY DEF Inv
<1> QED
  BY <1>1, InvHolds, PTL

(* A game plays the scenario that GetScen returned, found again by GetPath *)
(* with IntIndex alone, unless Reload has begun in between or an element   *)
(* that was not assigned has been followed.                                *)
THEOREM GamesPlayTheChosen == Spec => []HostsTheChosen
<1>1. Inv => HostsTheChosen
  BY DEF Inv
<1> QED
  BY <1>1, InvHolds, PTL

(* In a table with all elements assigned and counted, the loop of GetScen  *)
(* (lines 239 to 243) stops at one of them, but for the draws that are at  *)
(* most Rounding per element below ChanceTotal.                            *)
DrawStops ==
    Lock!NobodyWrites /\ scenCount = Len(scens) =>
        \A rnd \in 0 .. chanceTotal - 1 :
            rnd < chanceTotal - Rounding * scenCount
                => \E k \in 1 .. scenCount : Drawn(rnd, k)

(* The loop of GetScen reaches its assertion (line 240) in such a table    *)
(* only with a draw in that margin; with exact sums, with none.            *)
THEOREM EveryDrawStops == Spec => []DrawStops
<1>1. Inv => DrawStops
  <2> SUFFICES ASSUME Inv, scenCount = Len(scens), NEW rnd \in 0 .. chanceTotal - 1,
                      rnd < chanceTotal - Rounding * scenCount
               PROVE  \E k \in 1 .. scenCount : Drawn(rnd, k)
    BY DEF DrawStops
  <2> DEFINE n == Len(scens)
             S == SumUpTo(scens)[n]
  <2>1. PICK m \in Nat : Fits(m)
    BY DEF Inv, Table
  <2>2. /\ scens \in Seq(Element) /\ n \in Nat /\ chanceTotal \in Nat /\ rnd \in Nat
        /\ S \in Nat
    BY TypeParts, SumEquation DEF Inv
  <2>3. m = 0
    BY <2>1, <2>2 DEF Fits, Counted
  <2>4. n - m = n
    BY <2>2, <2>3
  <2>5. chanceTotal - S <= Slack(n)
    BY <2>1, <2>4 DEF Fits, Near
  <2>6. rnd < chanceTotal - Slack(n) /\ Slack(n) \in Nat
    BY <2>2, SlackType DEF Slack
  <2>7. rnd < S
    <3> DEFINE e == Slack(n)
    <3>1. chanceTotal - S <= e /\ rnd < chanceTotal - e /\ e \in Nat
      BY <2>5, <2>6
    <3> HIDE DEF e, S, n
    <3> QED
      BY <2>2, <3>1
  <2> QED
    BY <2>2, <2>7, DrawExists, ChanceUpToIsSum DEF Drawn
<1> QED
  BY <1>1, InvHolds, PTL
=============================================================================
