------------------------------- MODULE Output -------------------------------
(***************************************************************************)
(* Output to the admins (src/Control.cpp): UserControl from its            *)
(* constructor to its destructor, OutprintControl with its list and its    *)
(* mutex, WriteFinal, which repeats until it succeeds (Stream.cpp), and    *)
(* the handlers of SIGINT and SIGPIPE, which call Put (Main.cpp).          *)
(*                                                                         *)
(* A thread has a stack of the calls that write: Put, or a write of its    *)
(* own to one stream.  A handler runs on top of whatever its thread does.  *)
(* What a message says is left out: it is a number.  What becomes of a     *)
(* closed number that is opened again is in module Descriptors.            *)
(***************************************************************************)
EXTENDS Naturals, Sequences, FiniteSets

CONSTANTS Admins,     \* those who may connect
          Terminal,   \* the first UserControl, on descriptors 0 and 1
          Hosts,      \* AutoHosts: their threads, and contexts of output
          MaxPuts     \* bound: calls of Put

ASSUME TerminalAssumption == Terminal \in Admins
Main   == "main"
All    == "all"     \* the context NULL
Nobody == "nobody"

ASSUME NamesAssumption == /\ Admins \cap Hosts = {}
                          /\ {Main, All, Nobody} \cap (Admins \cup Hosts) = {}
ASSUME MaxPutsAssumption == MaxPuts \in Nat

Threads  == {Main} \cup Admins \cup Hosts
Contexts == {All} \cup Admins \cup Hosts
Signals  == {"none", "SIGPIPE", "SIGINT"}

VARIABLES
    ctrls,     \* OutprintControl::ctrls
    mutex,     \* OutprintControl::mutex: who has it
    object,    \* object[a]: the UserControl of a: none, live or freed
    sel,       \* UserControl::sel, as far as output goes
    conn,      \* conn[a]: his stream: none, open, stalled, hungUp, closed, deleted
    pipe,      \* pipe[h]: the stream to the engine of h: open or hungUp
    stack,     \* stack[t]: the calls of t that write, innermost first
    puts,      \* history: how many calls of Put there have been
    log,       \* history: log[a]: what a has been sent by Put
    interrupt, \* SIGINT has been sent
    alive      \* the controller has not ended

vars == <<ctrls, mutex, object, sel, conn, pipe, stack, puts, log, interrupt, alive>>

\* A call of Put: its message, its context, and which element of ctrls is
\* next (0 while it has not got the mutex).
PutFrame   == [call : {"put"}, id : 1 .. MaxPuts, context : Contexts,
               i : Nat, signal : Signals]
\* A write to the admin's own stream by ~UserControl, or to an engine.
WriteFrame == [call : {"notice"}, to : Admins] \cup [call : {"send"}, to : Hosts]

TypeOK == /\ ctrls \in Seq(Admins)
          /\ mutex \in {Nobody} \cup Threads
          /\ object \in [Admins -> {"none", "live", "freed"}]
          /\ sel \in [Admins -> {Nobody} \cup Hosts]
          /\ conn \in [Admins -> {"none", "open", "stalled", "hungUp", "closed", "deleted"}]
          /\ pipe \in [Hosts -> {"open", "hungUp"}]
          /\ stack \in [Threads -> Seq(PutFrame \cup WriteFrame)]
          /\ puts \in 0 .. MaxPuts
          /\ log \in [Admins -> Seq(1 .. MaxPuts)]
          /\ interrupt \in BOOLEAN
          /\ alive \in BOOLEAN

\* main has made the UserControl of the terminal, which has read its status.
Init == /\ ctrls = <<Terminal>>
        /\ mutex = Nobody
        /\ object = [a \in Admins |-> IF a = Terminal THEN "live" ELSE "none"]
        /\ sel = [a \in Admins |-> Nobody]
        /\ conn = [a \in Admins |-> IF a = Terminal THEN "open" ELSE "none"]
        /\ pipe = [h \in Hosts |-> "open"]
        /\ stack = [t \in Threads |-> <<>>]
        /\ puts = 0
        /\ log = [a \in Admins |-> <<>>]
        /\ interrupt = FALSE
        /\ alive = TRUE

-----------------------------------------------------------------------------
(* Calls.                                                                  *)

Idle(t) == alive /\ stack[t] = <<>>

In(t, call) == alive /\ stack[t] # <<>> /\ Head(stack[t]).call = call

Push(t, frame) == stack' = [stack EXCEPT ![t] = <<frame>> \o @]

Pop(t) == stack' = [stack EXCEPT ![t] = Tail(@)]

Advance(t) == stack' = [stack EXCEPT ![t][1].i = @ + 1]

CallPut(t, context, signal) ==
    /\ puts < MaxPuts
    /\ puts' = puts + 1
    /\ Push(t, [call |-> "put", id |-> puts + 1, context |-> context, i |-> 0,
                signal |-> signal])

-----------------------------------------------------------------------------
(* OutprintControl::Put.                                                   *)

\* Line 147.  Mutant: without the mutex.
FreeAnyway(t)  == TRUE
MutexFree(t)   == mutex = Nobody

LockPut(t) ==
    /\ In(t, "put")
    /\ Head(stack[t]).i = 0
    /\ MutexFree(t)
    /\ mutex' = t
    /\ Advance(t)
    /\ UNCHANGED <<ctrls, object, sel, conn, pipe, puts, log, interrupt, alive>>

\* The UserControl that is next.
Next1(t)   == ctrls[Head(stack[t]).i]
Writing(t) == In(t, "put") /\ Head(stack[t]).i \in DOMAIN ctrls

\* UserControl::Write, line 97.
Concerns(a, context) == context \in {sel[a], a, All}

\* It is not meant for this one.
PassOver(t) ==
    /\ Writing(t)
    /\ object[Next1(t)] = "live"
    /\ ~Concerns(Next1(t), Head(stack[t]).context)
    /\ Advance(t)
    /\ UNCHANGED <<ctrls, mutex, object, sel, conn, pipe, puts, log, interrupt, alive>>

\* The UserControl has been deleted and is still in the list: its members are
\* read all the same.  The program ends, or the read finds nothing to be done.
TouchFreed(t) ==
    /\ Writing(t)
    /\ object[Next1(t)] = "freed"
    /\ alive' \in BOOLEAN
    /\ Advance(t)
    /\ UNCHANGED <<ctrls, mutex, object, sel, conn, pipe, puts, log, interrupt>>

\* What the peer of a closed connection allows: some writes go through.
MayTake(state) == state \in {"open", "hungUp"}

WriteOne(t) ==
    /\ Writing(t)
    /\ object[Next1(t)] = "live"
    /\ Concerns(Next1(t), Head(stack[t]).context)
    /\ MayTake(conn[Next1(t)])
    /\ log' = [log EXCEPT ![Next1(t)] = Append(@, Head(stack[t]).id)]
    /\ Advance(t)
    /\ UNCHANGED <<ctrls, mutex, object, sel, conn, pipe, puts, interrupt, alive>>

\* Line 152.  Mutant: the mutex is kept.
Keep(t)    == mutex' = mutex
Release(t) == mutex' = Nobody

\* Back from Put; EndHandler ends the program.
EndPut(t) ==
    /\ In(t, "put")
    /\ Head(stack[t]).i > Len(ctrls)
    /\ Release(t)
    /\ Pop(t)
    /\ alive' = (Head(stack[t]).signal # "SIGINT")
    /\ UNCHANGED <<ctrls, object, sel, conn, pipe, puts, log, interrupt>>

-----------------------------------------------------------------------------
(* Writes without the mutex.                                               *)

\* WriteFinal succeeds, on the way to an engine.
EndSend(t) ==
    /\ In(t, "send")
    /\ pipe[Head(stack[t]).to] = "open"
    /\ Pop(t)
    /\ UNCHANGED <<ctrls, mutex, object, sel, conn, pipe, puts, log, interrupt, alive>>

\* ~UserControl: the notice is written, conn is deleted, and the object.
EndNotice(a) ==
    /\ In(a, "notice")
    /\ MayTake(conn[a])
    /\ object' = [object EXCEPT ![a] = "freed"]
    /\ conn' = [conn EXCEPT ![a] = "deleted"]
    /\ Pop(a)
    /\ UNCHANGED <<ctrls, mutex, sel, pipe, puts, log, interrupt, alive>>

\* The stream that t is writing to.
Target(t) ==
    CASE Writing(t)      -> conn[Next1(t)]
      [] In(t, "send")   -> pipe[Head(stack[t]).to]
      [] In(t, "notice") -> conn[Head(stack[t]).to]
      [] OTHER           -> "none"

\* The peer is gone: EPIPE, and SigPipeHandler runs in the same thread before
\* write returns and is called again.
SigPipe(t) ==
    /\ Target(t) = "hungUp"
    /\ Writing(t) => object[Next1(t)] = "live" /\ Concerns(Next1(t), Head(stack[t]).context)
    /\ CallPut(t, All, "SIGPIPE")
    /\ UNCHANGED <<ctrls, mutex, object, sel, conn, pipe, log, interrupt, alive>>

\* EndHandler, in any thread.
SigInt(t) ==
    /\ alive
    /\ ~interrupt
    /\ interrupt' = TRUE
    /\ CallPut(t, All, "SIGINT")
    /\ UNCHANGED <<ctrls, mutex, object, sel, conn, pipe, log, alive>>

-----------------------------------------------------------------------------
(* The life of a UserControl.                                              *)

\* The constructor: Add with its mutex, and PrintStatus of the main thread.
Arrive(a) ==
    /\ Idle(Main)
    /\ object[a] = "none"
    /\ MutexFree(Main)
    /\ ctrls' = Append(ctrls, a)
    /\ object' = [object EXCEPT ![a] = "live"]
    /\ conn' = [conn EXCEPT ![a] = "open"]
    /\ CallPut(Main, a, "none")
    /\ UNCHANGED <<mutex, sel, pipe, log, interrupt, alive>>

Listens(a) == Idle(a) /\ object[a] = "live" /\ conn[a] \in {"open", "stalled"}

\* A command that answers him.
Answer(a) ==
    /\ Listens(a)
    /\ CallPut(a, a, "none")
    /\ UNCHANGED <<ctrls, mutex, object, sel, conn, pipe, log, interrupt, alive>>

\* %sel, up to its answer.
Select(a) ==
    /\ Listens(a)
    /\ \E h \in Hosts : sel' = [sel EXCEPT ![a] = h]
    /\ CallPut(a, a, "none")
    /\ UNCHANGED <<ctrls, mutex, object, conn, pipe, log, interrupt, alive>>

\* Text for the game of the selected host.
Text(a) ==
    /\ Listens(a)
    /\ sel[a] # Nobody
    /\ Push(a, [call |-> "send", to |-> sel[a]])
    /\ UNCHANGED <<ctrls, mutex, object, sel, conn, pipe, puts, log, interrupt, alive>>

\* ReadLine fails: Close, which spares descriptor 0; then delete this.
SeeEnd(a) ==
    /\ Idle(a)
    /\ object[a] = "live"
    /\ \/ a # Terminal /\ conn[a] = "hungUp" /\ conn' = [conn EXCEPT ![a] = "closed"]
       \/ a = Terminal /\ conn[a] = "open" /\ UNCHANGED conn
    /\ Push(a, [call |-> "notice", to |-> a])
    /\ UNCHANGED <<ctrls, mutex, object, sel, pipe, puts, log, interrupt, alive>>

\* A host tells something to those who have selected it, or to all.
HostPuts(h) ==
    /\ Idle(h)
    /\ \E c \in {h, All} : CallPut(h, c, "none")
    /\ UNCHANGED <<ctrls, mutex, object, sel, conn, pipe, log, interrupt, alive>>

-----------------------------------------------------------------------------
(* The other ends.                                                         *)

\* An admin stops reading, goes on, or hangs up.
Peer(a) ==
    /\ alive
    /\ \/ conn[a] = "open" /\ conn' = [conn EXCEPT ![a] = "stalled"]
       \/ conn[a] = "stalled" /\ conn' = [conn EXCEPT ![a] = "open"]
       \/ /\ a # Terminal
          /\ conn[a] \in {"open", "stalled"}
          /\ conn' = [conn EXCEPT ![a] = "hungUp"]
    /\ UNCHANGED <<ctrls, mutex, object, sel, pipe, stack, puts, log, interrupt, alive>>

\* An engine ends.  The next one is started when nobody writes to this one:
\* a writer has the game locked, and its host waits for that lock.
Engine(h) ==
    /\ alive
    /\ \/ pipe[h] = "open" /\ pipe' = [pipe EXCEPT ![h] = "hungUp"]
       \/ /\ pipe[h] = "hungUp"
          /\ \A t \in Threads : \A k \in DOMAIN stack[t] :
                stack[t][k] # [call |-> "send", to |-> h]
          /\ pipe' = [pipe EXCEPT ![h] = "open"]
    /\ UNCHANGED <<ctrls, mutex, object, sel, conn, stack, puts, log, interrupt, alive>>

-----------------------------------------------------------------------------

PutStep(t) == LockPut(t) \/ PassOver(t) \/ TouchFreed(t) \/ WriteOne(t) \/ EndPut(t)

Next == \/ \E t \in Threads : PutStep(t) \/ EndSend(t) \/ SigPipe(t) \/ SigInt(t)
        \/ \E a \in Admins : \/ Arrive(a) \/ Answer(a) \/ Select(a) \/ Text(a)
                             \/ SeeEnd(a) \/ EndNotice(a) \/ Peer(a)
        \/ \E h \in Hosts : HostPuts(h) \/ Engine(h)

Spec == Init /\ [][Next]_vars

(* What has been called goes on, and whoever waits for the mutex gets it   *)
(* one day if it is given back again and again.  Nothing is assumed of     *)
(* admins, engines and signals.                                            *)
FairSpec == /\ Spec
            /\ \A t \in Threads : SF_vars(PutStep(t)) /\ WF_vars(EndSend(t))
            /\ \A a \in Admins : WF_vars(EndNotice(a))

-----------------------------------------------------------------------------
(* Properties.                                                             *)

\* Whatever hosts, admins and handlers put out at the same time, two admins
\* never read two messages in opposite orders (Put has one mutex for all).
SameOrder ==
    \A a, b \in Admins : \A i, j \in DOMAIN log[a] : \A k, l \in DOMAIN log[b] :
        i < j /\ log[a][i] = log[b][k] /\ log[a][j] = log[b][l] => k < l

SelfWait(t) == In(t, "put") /\ Head(stack[t]).i = 0 /\ mutex = t

\* A thread that waits for the mutex that it has itself is in a handler:
\* nothing that Put, the constructor or the destructor of UserControl does
\* leads back to Put while the mutex is held.
OnlyHandlersSelfWait == \A t \in Threads : SelfWait(t) => Head(stack[t]).signal # "none"

\* The mutex is with a thread that is inside Put, and one call of it only.
HolderIsInside ==
    \A t \in Threads :
        LET inside == {k \in DOMAIN stack[t] : stack[t][k].call = "put" /\ stack[t][k].i > 0}
        IN  Cardinality(inside) = (IF mutex = t THEN 1 ELSE 0)

\* What can keep a writer: an admin who has stopped reading, a stream that is
\* closed or whose peer is gone, and a handler in the middle of Put.
Jam == \E t \in Threads :
          \/ SelfWait(t)
          \/ /\ Target(t) \in {"stalled", "hungUp", "closed"}
             /\ Writing(t) => Concerns(Next1(t), Head(stack[t]).context)

\* Without one of these every call comes back, that of EndHandler with the end
\* of the program.
NothingElseJams ==
    [](~Jam) => \A t \in Threads : stack[t] # <<>> ~> stack[t] = <<>> \/ ~alive
=============================================================================
