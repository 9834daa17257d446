------------------------------- MODULE RWLock -------------------------------
(***************************************************************************)
(* What a StatusLocks object promises its callers: a re-entrant lock that  *)
(* many threads may hold for reading ("the status is locked") or one       *)
(* thread for writing ("the status is unstable").  The writer may be a     *)
(* reader too: the only reader may turn into the writer and back.          *)
(* No queue, no condition variable and no list appear here; the module     *)
(* StatusLocks has them and implements this one.                           *)
(***************************************************************************)
EXTENDS Naturals

CONSTANT Threads

VARIABLES reads,   \* reads[t]:  how many read locks thread t holds
          writes   \* writes[t]: how many write locks thread t holds

vars == <<reads, writes>>

TypeOK == /\ reads  \in [Threads -> Nat]
          /\ writes \in [Threads -> Nat]

Init == /\ reads  = [t \in Threads |-> 0]
        /\ writes = [t \in Threads |-> 0]

-----------------------------------------------------------------------------

\* No thread writes.
NobodyWrites == \A u \in Threads : writes[u] = 0

\* No thread but t holds the lock in any way.
NobodyBut(t) == \A u \in Threads \ {t} : reads[u] = 0 /\ writes[u] = 0

\* LockStatus returns.
AcquireRead(t) == /\ NobodyWrites
                  /\ reads' = [reads EXCEPT ![t] = @ + 1]
                  /\ UNCHANGED writes

\* UnlockStatus returns.
ReleaseRead(t) == /\ reads[t] > 0
                  /\ reads' = [reads EXCEPT ![t] = @ - 1]
                  /\ UNCHANGED writes

\* StatusUnstable returns.
AcquireWrite(t) == /\ NobodyBut(t)
                   /\ writes' = [writes EXCEPT ![t] = @ + 1]
                   /\ UNCHANGED reads

\* StatusStable returns.
ReleaseWrite(t) == /\ writes[t] > 0
                   /\ writes' = [writes EXCEPT ![t] = @ - 1]
                   /\ UNCHANGED reads

Next == \E t \in Threads : \/ AcquireRead(t) \/ ReleaseRead(t)
                           \/ AcquireWrite(t) \/ ReleaseWrite(t)

Spec == Init /\ [][Next]_vars
=============================================================================
