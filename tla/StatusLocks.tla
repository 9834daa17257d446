---------------------------- MODULE StatusLocks ----------------------------
(***************************************************************************)
(* The lock of helpers/StatusLocks.cpp.  Every Game, AutoHost and the       *)
(* Configuration is one.  The object keeps a list with one node per        *)
(* reading thread and its nesting depth, a count of nested write locks     *)
(* with the thread that has them, and one condition variable on which      *)
(* readers and writers wait alike.                                         *)
(*                                                                         *)
(* The head of the list is embedded in the object: it never goes away.  A  *)
(* head whose count is 0 stands for an empty list, and its thread field    *)
(* then still names the last reader (or, at first, nobody knows whom).     *)
(*                                                                         *)
(* One action is one stretch of code run with the mutex statuslock held:   *)
(* from entering the function, or from waking up, to the next wait on      *)
(* statuscond or to the return.  Spurious wake-ups are left out, so that   *)
(* a missing broadcast shows.                                              *)
(*                                                                         *)
(* Callers: a thread gives back only what it holds, and never asks for a   *)
(* read lock while it is the writer (LockStatus waits for writercount to   *)
(* be 0 and would wait for its own thread).  Upgraders are the threads     *)
(* that ask for the write lock while they hold a read lock, as             *)
(* UserControl::Work does with Game::SendMsg.                              *)
(***************************************************************************)
EXTENDS Naturals, Sequences, SequencesExt

CONSTANTS Threads,    \* the threads that use the object
          Upgraders,  \* those that may become writer while being reader
          MaxNest     \* how deep a thread nests its locks

ASSUME UpgradersAssumption == Upgraders \subseteq Threads
ASSUME MaxNestAssumption == MaxNest \in Nat \ {0}

VARIABLES readerinfo,   \* the list: a sequence of [thread, count], head first
          writercount,  \* nested write locks
          writer,       \* the thread of the last write lock
          pc            \* pc[t]: where thread t is

vars == <<readerinfo, writercount, writer, pc>>

\* "lock" and "unstable": inside the function and about to test the
\* condition of its while loop; the others: asleep on statuscond.
PC == {"out", "lock", "lockAsleep", "unstable", "unstableAsleep"}

ReaderInfo == [thread : Threads, count : Nat]

TypeOK == /\ readerinfo \in Seq(ReaderInfo)
          /\ readerinfo # <<>>
          /\ writercount \in Nat
          /\ writer \in Threads
          /\ pc \in [Threads -> PC]

\* The constructor sets the counts; both thread fields are uninitialised.
Init == /\ \E t \in Threads : readerinfo = <<[thread |-> t, count |-> 0]>>
        /\ writercount = 0
        /\ writer \in Threads
        /\ pc = [t \in Threads |-> "out"]

-----------------------------------------------------------------------------
(* The list, as operators of any list: what it says and how it changes.    *)

\* The nodes at which the scans of LockStatus and UnlockStatus stop.
NodesOf(list, t) == {i \in DOMAIN list : list[i].thread = t}

\* The read locks of t: a head with count 0 holds none.
CountIn(list, t) == IF NodesOf(list, t) = {} THEN 0
                    ELSE list[CHOOSE i \in NodesOf(list, t) : TRUE].count

\* Mutant: only the head of the list is looked at.
HeadReads(list, t) == list[1].count # 0 /\ list[1].thread # t

\* Somebody besides t reads, as StatusUnstable sees it.
OthersRead(list, t) == \/ Len(list) > 1
                       \/ list[1].count # 0 /\ list[1].thread # t

\* Mutant: a nested lock gets a node of its own.
AppendReader(list, t) == IF list[1].count = 0
                         THEN [list EXCEPT ![1] = [thread |-> t, count |-> 1]]
                         ELSE Append(list, [thread |-> t, count |-> 1])

\* One more read lock of t: in the empty head, in its node or in a new node.
AddReader(list, t) ==
    IF list[1].count = 0
    THEN [list EXCEPT ![1] = [thread |-> t, count |-> 1]]
    ELSE IF NodesOf(list, t) # {}
    THEN [list EXCEPT ![CHOOSE i \in NodesOf(list, t) : TRUE].count = @ + 1]
    ELSE Append(list, [thread |-> t, count |-> 1])

\* Mutant: the last node goes as well.
DropAnyNode(list, i) == RemoveAt(list, i)

\* Node i loses its last lock: a node of its own is unlinked, the head takes
\* over its successor or stays, alone, with count 0.
DropNode(list, i) == IF Len(list) = 1 THEN [list EXCEPT ![1].count = 0]
                                      ELSE RemoveAt(list, i)

-----------------------------------------------------------------------------

ReadCount(t) == CountIn(readerinfo, t)

WriteCount(t) == IF t = writer THEN writercount ELSE 0

\* Mutant: the writer waits for itself.
MustWaitAnyWriter(t) == OthersRead(readerinfo, t) \/ writercount # 0

\* The conditions of the two while loops.
MustWaitLock == writercount # 0

MustWaitUnstable(t) == \/ OthersRead(readerinfo, t)
                       \/ writercount # 0 /\ writer # t

\* Mutant: pthread_cond_signal wakes one thread, if it is asleep.
WakeOne(t) == \E u \in Threads \ {t} :
                 pc' = [pc EXCEPT ![u] = CASE @ = "lockAsleep" -> "lock"
                                           [] @ = "unstableAsleep" -> "unstable"
                                           [] OTHER -> @]

\* pthread_cond_broadcast, with t leaving the function that calls it.
WakeAll(t) == pc' = [u \in Threads |-> CASE u = t -> "out"
                                         [] pc[u] = "lockAsleep" -> "lock"
                                         [] pc[u] = "unstableAsleep" -> "unstable"
                                         [] OTHER -> pc[u]]

-----------------------------------------------------------------------------
(* The callers.                                                            *)

CallLock(t) == /\ pc[t] = "out"
               /\ WriteCount(t) = 0
               /\ ReadCount(t) < MaxNest
               /\ pc' = [pc EXCEPT ![t] = "lock"]
               /\ UNCHANGED <<readerinfo, writercount, writer>>

CallUnstable(t) == /\ pc[t] = "out"
                   /\ WriteCount(t) < MaxNest
                   /\ ReadCount(t) > 0 => t \in Upgraders
                   /\ pc' = [pc EXCEPT ![t] = "unstable"]
                   /\ UNCHANGED <<readerinfo, writercount, writer>>

-----------------------------------------------------------------------------
(* The four functions.                                                     *)

LockStatus(t) ==
    /\ pc[t] = "lock"
    /\ \/ /\ MustWaitLock
          /\ pc' = [pc EXCEPT ![t] = "lockAsleep"]
          /\ UNCHANGED readerinfo
       \/ /\ ~MustWaitLock
          /\ readerinfo' = AddReader(readerinfo, t)
          /\ pc' = [pc EXCEPT ![t] = "out"]
    /\ UNCHANGED <<writercount, writer>>

UnlockStatus(t) ==
    /\ pc[t] = "out"
    /\ ReadCount(t) > 0
    /\ \E i \in NodesOf(readerinfo, t) :
          \/ /\ readerinfo[i].count > 1
             /\ readerinfo' = [readerinfo EXCEPT ![i].count = @ - 1]
             /\ UNCHANGED pc
          \/ /\ readerinfo[i].count = 1
             /\ readerinfo' = DropNode(readerinfo, i)
             /\ WakeAll(t)
    /\ UNCHANGED <<writercount, writer>>

StatusUnstable(t) ==
    /\ pc[t] = "unstable"
    /\ \/ /\ MustWaitUnstable(t)
          /\ pc' = [pc EXCEPT ![t] = "unstableAsleep"]
          /\ UNCHANGED <<writercount, writer>>
       \/ /\ ~MustWaitUnstable(t)
          /\ writercount' = writercount + 1
          /\ writer' = t
          /\ pc' = [pc EXCEPT ![t] = "out"]
    /\ UNCHANGED readerinfo

\* Mutant: the nesting of write locks is forgotten.
StableAtOnce(t) ==
    /\ pc[t] = "out"
    /\ WriteCount(t) > 0
    /\ writercount' = 0
    /\ WakeAll(t)
    /\ UNCHANGED <<readerinfo, writer>>

StatusStable(t) ==
    /\ pc[t] = "out"
    /\ WriteCount(t) > 0
    /\ writercount' = writercount - 1
    /\ IF writercount' = 0 THEN WakeAll(t) ELSE UNCHANGED pc
    /\ UNCHANGED <<readerinfo, writer>>

Call == \E t \in Threads : CallLock(t) \/ CallUnstable(t)

Run(t) == LockStatus(t) \/ StatusUnstable(t)

Release(t) == UnlockStatus(t) \/ StatusStable(t)

Next == Call \/ \E t \in Threads : Run(t) \/ Release(t)

Spec == Init /\ [][Next]_vars

(* A thread that is runnable runs, and the code between a lock and its     *)
(* unlock comes to an end: it waits for no other lock of this object.      *)
FairSpec == Spec /\ \A t \in Threads : WF_vars(Run(t)) /\ WF_vars(Release(t))

-----------------------------------------------------------------------------
(* Properties.                                                             *)

(* The scans stop at the first node with the caller's thread, so there     *)
(* must be one at most, and only a head that stands alone may be empty:    *)
(* otherwise locks are counted on the wrong node or a stale node keeps     *)
(* every writer out.                                                       *)
WellFormed(list) ==
    /\ \A i, j \in DOMAIN list : list[i].thread = list[j].thread => i = j
    /\ \A i \in DOMAIN list : list[i].count = 0 => Len(list) = 1

ListWellFormed == WellFormed(readerinfo)

(* While a thread has the status unstable, no other thread holds it        *)
(* locked: what a reader looks at does not change under its eyes.          *)
Exclusion ==
    writercount > 0 => \A t \in Threads \ {writer} : ReadCount(t) = 0

(* Every change that makes a waiting thread's condition true is followed   *)
(* by a broadcast before the mutex is given back: nobody sleeps on         *)
(* statuscond while nothing keeps him out.                                 *)
NoLostWakeup ==
    \A t \in Threads : /\ pc[t] = "lockAsleep" => MustWaitLock
                       /\ pc[t] = "unstableAsleep" => MustWaitUnstable(t)

(* Nested use does not block: a thread that reads is not kept waiting by   *)
(* a writer for its second read lock, nor a writer for its second write    *)
(* lock.  The recursion of Game::Start, Control and Fail relies on it.     *)
ReentryNeverSleeps ==
    \A t \in Threads : /\ ReadCount(t) > 0 => pc[t] # "lockAsleep"
                       /\ WriteCount(t) > 0 => pc[t] # "unstableAsleep"

(* The object implements the abstract lock.                                *)
RW == INSTANCE RWLock WITH reads  <- [t \in Threads |-> ReadCount(t)],
                           writes <- [t \in Threads |-> WriteCount(t)]

ImplementsRWLock == RW!Spec

(* Once no new calls are made, every thread that waits is let in.  (With   *)
(* new calls all the time it is not so: overlapping readers starve a       *)
(* writer.)                                                                *)
WaitersDrain ==
    <>[][~Call]_vars => \A t \in Threads : (pc[t] # "out") ~> (pc[t] = "out")
=============================================================================
