------------------------------- MODULE Config -------------------------------
(***************************************************************************)
(* The settings and the table of scenarios (src/Config.cpp).  Reload       *)
(* throws everything away and reads it from the database again, holding    *)
(* the lock for writing; AutoHosts choose scenarios by chance, players     *)
(* search them by name and are looked up in the list of bans.              *)
(*                                                                         *)
(* The table is an array of pointers with ScenCount beside it.  Rows of    *)
(* the database fill it from its end.  What is handed out is a copy that   *)
(* has no path of its own: it keeps IntIndex, its place in the table, and  *)
(* asks for the path when the game starts, without the lock.  Standard     *)
(* does not delete the ScenarioSets (it has set ScenCount to 0 before), so *)
(* an old pointer to one stays valid; only the array is freed.             *)
(*                                                                         *)
(* The array has as many elements as were counted.  The list is a query of *)
(* its own: it may have fewer rows by then, or more, and the fetching may  *)
(* end early, which looks like the end of the rows.  Then the first        *)
(* elements stay unassigned.  The same goes for the bans.                  *)
(*                                                                         *)
(* A read lock that is given back in the same function is not seen by      *)
(* others, and such a function is one action up to UnlockStatus.           *)
(***************************************************************************)
EXTENDS Integers, Sequences, FiniteSets

CONSTANTS Workers,      \* the threads of AutoHosts, with their games' players
          Scenarios,    \* ScenIndex of the database
          Chance,       \* HostChance of each, in units of the smallest float
          Rounding,     \* how far the sum of two floats may be off
          Databases,    \* what a query may find: [rows, named, bans]
          FetchMayFail, \* the connection may be lost while rows are fetched
          MaxReloads,   \* bound: how often Reload is called, the first by main
          MaxLeaks      \* bound: how many locks GetScen leaves behind per thread

ASSUME ChanceAssumption == Chance \in [Scenarios -> Nat] /\ Rounding \in Nat
\* rows: the scenarios; named: those that ScenarioNames has a name for, which
\* need not be in the list; bans: for each, whether its pattern is a regular
\* expression.
ASSUME DatabasesAssumption ==
    \A db \in Databases : /\ db.rows \in Seq(Scenarios)
                          /\ db.named \subseteq Scenarios
                          /\ db.bans \in Seq(BOOLEAN)
ASSUME BoundsAssumption == MaxReloads \in Nat /\ MaxLeaks \in Nat
ASSUME FetchAssumption == FetchMayFail \in BOOLEAN

Admin == "admin"
ASSUME AdminAssumption == Admin \notin Workers

Unread == "unread"   \* an element of the array that is not assigned
ASSUME UnreadAssumption == Unread \notin Scenarios

Empty  == [rows |-> <<>>, named |-> {}, bans |-> <<>>]

VARIABLES
    scens,       \* Scens: the array, <<>> if there is none
    scensSet,    \* Scens is not NULL
    scenCount,   \* ScenCount
    chanceTotal, \* ChanceTotal
    named,       \* the scenarios whose names have been set
    bansSet,     \* Bans is not NULL
    banCount,    \* BanCount
    bansWhole,   \* all elements of Bans are assigned, with their patterns
    reads,       \* the lock, see RWLock
    writes,
    admin,       \* where Reload is: pc, what the last query found, the next row
    worker,      \* where each worker is: pc, the scenario it has, its IntIndex
    alive,       \* FALSE once a signal or an assertion has ended the controller
    faults,      \* history: what went wrong
    reloads,     \* history: how often the settings have been thrown away
    leaked,      \* history: GetScen has returned with its lock
    hosted       \* history: hosted[w]: the last scenario asked for and played

tableVars == <<scens, scensSet, scenCount, chanceTotal, named>>
banVars   == <<bansSet, banCount, bansWhole>>
lockVars  == <<reads, writes>>
history   == <<reloads, leaked, hosted>>
vars == <<tableVars, banVars, lockVars, admin, worker, alive, faults, history>>

Lock == INSTANCE RWLock WITH Threads <- Workers \cup {Admin}

Faults == {"pickAssert", "pathAssert", "nullScen", "noChance", "unreadScen", "unreadBan",
           "freedTable", "freedBans", "endlessScan", "unknownName", "noCount",
           "wildPattern"}

NoScen == "none"

TypeOK == /\ scens \in Seq(Scenarios \cup {Unread})
          /\ {scensSet, bansSet, bansWhole, alive, leaked} \subseteq BOOLEAN
          /\ scenCount \in -1 .. Len(scens)
          /\ chanceTotal \in Nat
          /\ named \subseteq Scenarios
          /\ banCount \in Int
          /\ Lock!TypeOK
          /\ admin \in [pc : {"idle", "wait", "connect", "rows", "names", "bans", "end"},
                        db : Databases \cup {Empty}, row : Nat]
          /\ worker \in [Workers -> [pc : {"absent", "idle", "picked", "banned", "copied"},
                                     scen : Scenarios \cup {NoScen}, place : Nat,
                                     since : Nat]]
          /\ faults \subseteq Faults
          /\ reloads \in 0 .. MaxReloads
          /\ hosted \in [Workers -> [chosen : Scenarios \cup {NoScen},
                                     played : Scenarios \cup {NoScen},
                                     since : Nat, at : Nat]]

\* The constructor has called Standard once, with no table and no bans.
Init == /\ scens = <<>> /\ scensSet = FALSE /\ scenCount = 0 /\ chanceTotal = 0
        /\ named = {}
        /\ bansSet = FALSE /\ banCount = 0 /\ bansWhole = TRUE
        /\ Lock!Init
        /\ admin = [pc |-> "idle", db |-> Empty, row |-> 0]
        /\ worker = [w \in Workers |-> [pc |-> "absent", scen |-> NoScen, place |-> 0,
                                        since |-> 0]]
        /\ alive = TRUE /\ faults = {}
        /\ reloads = 0 /\ leaked = FALSE
        /\ hosted = [w \in Workers |-> [chosen |-> NoScen, played |-> NoScen,
                                        since |-> 0, at |-> 0]]

-----------------------------------------------------------------------------
(* Helpers.                                                                *)

Fatal(fault) == alive' = FALSE /\ faults' = faults \cup {fault}

\* Freed or unassigned memory is read: the controller dies, or not.
Invalid(fault) == alive' \in BOOLEAN /\ faults' = faults \cup {fault}

Fine == UNCHANGED <<alive, faults>>

AdminAt(pc) == alive /\ admin.pc = pc
WorkerAt(w, pc) == alive /\ worker[w].pc = pc

AdminGoes(to) == admin' = [admin EXCEPT !.pc = to]
WorkerGoes(w, to) == worker' = [worker EXCEPT ![w].pc = to]

ChanceOf(s) == IF s = Unread THEN 0 ELSE Chance[s]

\* The sum of the chances of the first k scenarios.  The draw subtracts them
\* from a double, which has room for them.
ChanceUpTo == LET sum[k \in 0 .. Len(scens)] ==
                    IF k = 0 THEN 0 ELSE sum[k - 1] + ChanceOf(scens[k])
              IN  sum

\* ChanceTotal adds them up as floats, from the last one on: what a sum may
\* come to.  It is exact with 0, and rounding never passes an operand.
FloatSums(x, y) ==
    IF x = 0 \/ y = 0 THEN {x + y}
    ELSE {z \in x + y - Rounding .. x + y + Rounding : z >= x /\ z >= y}

\* How many rows arrive before fetch_row returns none.
Arriving(rows) == IF FetchMayFail THEN 0 .. Len(rows) ELSE {Len(rows)}

-----------------------------------------------------------------------------
(* Reload, called by main and later by admins, one after the other.        *)

CallReload ==
    /\ AdminAt("idle")
    /\ reloads < MaxReloads
    /\ AdminGoes("wait")
    /\ UNCHANGED <<tableVars, banVars, lockVars, worker, alive, faults, history>>

\* Mutant: ScenCount is not reset.
CountKept == scenCount

\* Lines 54 and 73 to 81: the loop that should delete the scenarios and ends
\* with ScenCount one below 0.
CountAfterStandard == IF scensSet THEN -1 ELSE 0

\* Lines 64 to 72.
BansAfterStandard == IF bansSet THEN -1 ELSE banCount

\* Line 55.  Mutant: ChanceTotal is not reset.
TotalKept          == chanceTotal
TotalAfterStandard == 0

\* A BanSet that was never there is deleted with the others.
BeginReload ==
    /\ AdminAt("wait")
    /\ Lock!AcquireWrite(Admin)
    /\ reloads' = reloads + 1
    /\ scens' = <<>> /\ scensSet' = FALSE /\ named' = {}
    /\ scenCount' = CountAfterStandard
    /\ chanceTotal' = TotalAfterStandard
    /\ IF bansWhole THEN Fine ELSE Invalid("unreadBan")
    /\ bansSet' = FALSE /\ bansWhole' = TRUE
    /\ banCount' = BansAfterStandard
    /\ AdminGoes("connect")
    /\ UNCHANGED <<worker, leaked, hosted>>

\* Lines 130 and 183: the one row of a count is read whether it came or not,
\* and nobody catches what the library throws.
CountIsLost(pc) ==
    /\ AdminAt(pc)
    /\ FetchMayFail
    /\ Fatal("noCount")
    /\ UNCHANGED <<tableVars, banVars, lockVars, admin, worker, history>>

\* Lines 99 to 137: no connection, no count or no list of scenarios, or an
\* array for as many as were counted.
Connect ==
    /\ AdminAt("connect")
    /\ \/ AdminGoes("end") /\ UNCHANGED tableVars
       \/ AdminGoes("bans") /\ UNCHANGED tableVars
       \/ \E counted, db \in Databases :
             /\ admin' = [pc |-> "rows", db |-> db, row |-> 1]
             /\ scens' = [k \in 1 .. Len(counted.rows) |-> Unread]
             /\ scensSet' = TRUE
             /\ chanceTotal' = 0
             /\ UNCHANGED <<scenCount, named>>
    /\ UNCHANGED <<banVars, lockVars, worker, alive, faults, history>>

\* Where row k goes in an array of n, from 1.
Place(k, n) == n - k + 1

\* Lines 138 to 149, one row.
LoadRow ==
    /\ AdminAt("rows")
    /\ LET rows == admin.db.rows
           k    == admin.row
       IN  /\ k <= Len(rows) /\ k <= Len(scens)
           /\ scens' = [scens EXCEPT ![Place(k, Len(scens))] = rows[k]]
           /\ chanceTotal' \in FloatSums(chanceTotal, Chance[rows[k]])
           /\ admin' = [admin EXCEPT !.row = k + 1]
    /\ scenCount' = scenCount + 1
    /\ UNCHANGED <<scensSet, named, banVars, lockVars, worker, alive, faults, history>>

\* There are no more rows or none arrive any more; or there are more than were
\* counted, and the query for names fails because they were not fetched.
EndRows ==
    /\ AdminAt("rows")
    /\ \/ /\ admin.row > Len(admin.db.rows) \/ FetchMayFail
          /\ AdminGoes("names")
       \/ /\ admin.row <= Len(admin.db.rows) /\ admin.row > Len(scens)
          /\ AdminGoes("bans")
    /\ UNCHANGED <<tableVars, banVars, lockVars, worker, alive, faults, history>>

\* Mutant: not at the last of them.
FoundBefore(s) == \E k \in 1 .. scenCount - 1 : scens[k] = s

\* GetScenByDbIndex looks at the places below ScenCount.
FoundByDbIndex(s) == \E k \in 1 .. scenCount : scens[k] = s

\* Lines 150 to 173: the names are set through the pointer found, or the
\* query fails.  Every search begins at the first element.  What it does not
\* find is NULL, and is followed.
SetNames ==
    /\ AdminAt("names")
    /\ \/ /\ AdminGoes("bans")
          /\ UNCHANGED named /\ Fine
       \/ \E db \in Databases :
             /\ admin' = [admin EXCEPT !.pc = "bans", !.db = db]
             /\ named' = {s \in db.named : FoundByDbIndex(s)}
             /\ IF db.named # {} /\ scens # <<>> /\ scens[1] = Unread
                THEN Invalid("unreadScen")
                ELSE IF named' = db.named THEN Fine ELSE Fatal("unknownName")
    /\ UNCHANGED <<scens, scensSet, scenCount, chanceTotal, banVars, lockVars, worker,
                   history>>

\* Lines 181 to 216.  A pattern that is no regular expression ends in an
\* assignment through a pointer that is not set (line 203).
LoadBans ==
    /\ AdminAt("bans")
    /\ \/ AdminGoes("end") /\ UNCHANGED banVars /\ Fine
       \/ \E counted, db \in Databases : \E arrived \in Arriving(db.bans) :
             LET n    == Len(counted.bans)
                 wild == \E k \in 1 .. arrived : k <= n /\ ~db.bans[k]
             IN  /\ admin' = [admin EXCEPT !.pc = "end", !.db = db]
                 /\ bansSet' = TRUE /\ banCount' = n
                 /\ bansWhole' = (arrived >= n /\ ~wild)
                 /\ IF wild THEN Invalid("wildPattern") ELSE Fine
    /\ UNCHANGED <<tableVars, lockVars, worker, history>>

EndReload ==
    /\ AdminAt("end")
    /\ Lock!ReleaseWrite(Admin)
    /\ AdminGoes("idle")
    /\ UNCHANGED <<tableVars, banVars, worker, alive, faults, history>>

ReloadStep == \/ BeginReload \/ Connect \/ LoadRow \/ EndRows \/ SetNames \/ LoadBans
              \/ EndReload \/ CountIsLost("connect") \/ CountIsLost("bans")

-----------------------------------------------------------------------------
(* The readers.                                                            *)

\* The constructor of AutoHost looks at ScenCount, without the lock: an admin
\* who is there before main has loaded the settings gets an exception.
CreateHost(w) ==
    /\ WorkerAt(w, "absent")
    /\ scenCount >= 1
    /\ WorkerGoes(w, "idle")
    /\ UNCHANGED <<tableVars, banVars, lockVars, admin, alive, faults, history>>

\* What row LoadRow gives to the k-th element, from 0.  Mutant: from 1.
IntIndexFrom1(k) == k
IntIndex(k)      == k - 1

\* The worker has the scenario at place k and, perhaps, still has to read
\* the array for it.
Has(w, k, pc) == worker' = [worker EXCEPT ![w] = [pc |-> pc, scen |-> scens[k],
                                                  place |-> IntIndex(k), since |-> reloads]]

\* An element that a scan from the first to ScenCount finds is not assigned.
Holes == \E k \in 1 .. scenCount : scens[k] = Unread

\* Such an element is followed: the controller dies, or there happens to be
\* something, as the scenario of an earlier table.
HasAnything(w, pc) ==
    /\ Invalid("unreadScen")
    /\ \E s \in Scenarios, k \in DOMAIN scens :
          worker' = [worker EXCEPT ![w] = [pc |-> pc, scen |-> s, place |-> IntIndex(k),
                                           since |-> reloads]]

\* A read lock stays.
KeepLock(w) == reads[w] < MaxLeaks /\ Lock!AcquireRead(w)

\* LockStatus lets the thread in, and UnlockStatus follows before anybody
\* can tell.
LockAndUnlock(w) == Lock!NobodyWrites /\ UNCHANGED lockVars

\* Lines 234 and 235: GetScen returns early, with its lock.
ReturnLocked(w) == KeepLock(w) /\ leaked' = TRUE

PickNone(w) ==
    /\ WorkerAt(w, "idle")
    /\ scenCount = 0
    /\ ReturnLocked(w)
    /\ Fatal("nullScen")
    /\ UNCHANGED <<tableVars, banVars, admin, worker, reloads, hosted>>

PickOnly(w) ==
    /\ WorkerAt(w, "idle")
    /\ scenCount = 1
    /\ ReturnLocked(w)
    /\ IF Holes THEN HasAnything(w, "copied") ELSE Has(w, 1, "copied") /\ Fine
    /\ UNCHANGED <<tableVars, banVars, admin, reloads, hosted>>

\* The place at which the loop of lines 239 to 243 stops.
Drawn(rnd, k) == ChanceUpTo[k - 1] <= rnd /\ rnd < ChanceUpTo[k]

\* Lines 236 to 244: place k is drawn, if the assertion lets it.  With chances
\* of 0, or without a table, fmod is no number, and the element before the
\* first is taken.
PickByChance(w) ==
    /\ WorkerAt(w, "idle")
    /\ LockAndUnlock(w)
    /\ scenCount \notin {0, 1}
    /\ IF chanceTotal = 0 THEN Fatal("noChance") /\ UNCHANGED worker
       ELSE IF Holes THEN HasAnything(w, "picked")
       ELSE \E rnd \in 0 .. chanceTotal - 1 :
               \/ \E k \in 1 .. scenCount : Drawn(rnd, k) /\ Has(w, k, "picked") /\ Fine
               \/ /\ \A k \in 1 .. scenCount : ~Drawn(rnd, k)
                  /\ Fatal("pickAssert")
                  /\ UNCHANGED worker
    /\ UNCHANGED <<tableVars, banVars, admin, history>>

\* GetScen(const char *): a player finds any scenario that has names.
Search(w) ==
    /\ WorkerAt(w, "idle")
    /\ LockAndUnlock(w)
    /\ \/ /\ scenCount < 0
          /\ Fatal("endlessScan")
          /\ UNCHANGED worker
       \/ /\ Holes
          /\ \/ HasAnything(w, "picked")
             \/ Invalid("unreadScen") /\ UNCHANGED worker
       \/ /\ ~Holes
          /\ \E k \in 1 .. scenCount : /\ scens[k] \in named
                                       /\ Has(w, k, "picked")
                                       /\ Fine
    /\ UNCHANGED <<tableVars, banVars, admin, history>>

\* Lines 245 and 255, after UnlockStatus: the array is read for the pointer.
TakeScen(w) ==
    /\ WorkerAt(w, "picked")
    /\ IF reloads = worker[w].since THEN Fine ELSE Invalid("freedTable")
    /\ WorkerGoes(w, "copied")
    /\ UNCHANGED <<tableVars, banVars, lockVars, admin, history>>

\* GetPath of the copy, line 358, without the lock.
AskPath(w) ==
    /\ WorkerAt(w, "copied")
    /\ LET k == worker[w].place + 1
       IN  /\ IF k > scenCount THEN Fatal("pathAssert")
              ELSE IF scens[k] = Unread THEN Invalid("unreadScen") ELSE Fine
           /\ hosted' = IF k > scenCount \/ scens[k] = Unread THEN hosted
                        ELSE [hosted EXCEPT ![w] = [chosen |-> worker[w].scen,
                                                    played |-> scens[k],
                                                    since |-> worker[w].since,
                                                    at |-> reloads]]
    /\ WorkerGoes(w, "idle")
    /\ UNCHANGED <<tableVars, banVars, lockVars, admin, reloads, leaked>>

\* GetBan up to line 269, when the name matches.
MatchBan(w) ==
    /\ WorkerAt(w, "idle")
    /\ LockAndUnlock(w)
    /\ \/ /\ banCount < 0
          /\ Fatal("endlessScan")
          /\ UNCHANGED worker
       \/ /\ banCount > 0
          /\ worker' = [worker EXCEPT ![w].pc = "banned", ![w].since = reloads]
          /\ IF bansWhole THEN Fine ELSE Invalid("unreadBan")
    /\ UNCHANGED <<tableVars, banVars, admin, history>>

\* Line 270, after UnlockStatus.
TakeReason(w) ==
    /\ WorkerAt(w, "banned")
    /\ IF reloads = worker[w].since THEN Fine ELSE Invalid("freedBans")
    /\ WorkerGoes(w, "idle")
    /\ UNCHANGED <<tableVars, banVars, lockVars, admin, history>>

Pick(w) == PickNone(w) \/ PickOnly(w) \/ PickByChance(w) \/ Search(w) \/ MatchBan(w)

WorkerStep(w) == CreateHost(w) \/ Pick(w) \/ TakeScen(w) \/ AskPath(w) \/ TakeReason(w)

Next == CallReload \/ ReloadStep \/ \E w \in Workers : WorkerStep(w)

Spec == Init /\ [][Next]_vars

(* A reload that has been called goes on when it can: the database answers, *)
(* or the connection is given up.                                          *)
FairSpec == Spec /\ WF_vars(ReloadStep)

-----------------------------------------------------------------------------
(* Properties.                                                             *)

\* Wherever a load was cut short, whoever gets the lock finds the same shape
\* of table: what is not assigned are its first elements, ScenCount is the
\* number of the others (one less from the second load on), and ChanceTotal
\* the sum of their chances but for the rounding (lines 138 to 149).
TableConsistent ==
    Lock!NobodyWrites =>
        \E missing \in 0 .. Len(scens) :
            /\ \A k \in DOMAIN scens : scens[k] = Unread <=> k <= missing
            /\ Len(scens) - missing - scenCount \in IF reloads <= 1 THEN {0} ELSE {0, 1}
            /\ LET error == Rounding * (Len(scens) - missing)
               IN  chanceTotal - ChanceUpTo[Len(scens)] \in -error .. error

\* With the settings loaded once, by main, each thing that goes wrong has its
\* cause in what came from the database: GetScenByDbIndex and GetScen fail on
\* a whole table only if a name is not listed, all chances are 0 or the sum of
\* them was rounded up, and nobody asks for a path that is not there.
FirstLoadFaults ==
    reloads <= 1 =>
        /\ faults \cap {"nullScen", "freedTable", "freedBans", "endlessScan"} = {}
        /\ faults \cap {"unreadScen", "pathAssert"} # {} =>
              \E k \in DOMAIN scens : scens[k] = Unread
        /\ "unknownName" \in faults =>
              \E s \in admin.db.named : \A k \in DOMAIN scens : scens[k] # s
        /\ "noChance" \in faults => \A k \in DOMAIN scens : ChanceOf(scens[k]) = 0
        /\ "pickAssert" \in faults => chanceTotal > ChanceUpTo[Len(scens)]
        /\ "unreadBan" \in faults => ~bansWhole
        /\ "wildPattern" \in faults => \E k \in DOMAIN admin.db.bans : ~admin.db.bans[k]

\* A game plays the scenario that was chosen or searched, although it keeps
\* only its place in the table (IntIndex), unless the table has been loaded
\* again in between, or an element that is not assigned was followed.
HostsTheChosen ==
    \A w \in Workers :
        hosted[w].chosen # hosted[w].played =>
            hosted[w].at > hosted[w].since \/ "unreadScen" \in faults

\* Reload gets the lock and ends, if GetScen never returns with its lock.
ReloadEnds == [](~leaked) => (admin.pc = "wait" ~> admin.pc = "idle" \/ ~alive)

\* The assertion of line 240: the scenario that is drawn is in the table.
PickInRange == "pickAssert" \notin faults

\* The assertion of line 357: the place that a copy remembers is in the table.
PathInRange == "pathAssert" \notin faults
=============================================================================
