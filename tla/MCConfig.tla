------------------------------ MODULE MCConfig ------------------------------
(* Small instances of Config.  Players alone choose a and d: their chance  *)
(* is 0, as that of the first row of etc/db.  The databases: two scenarios *)
(* and a ban; a longer list that begins with scenarios that nobody draws,  *)
(* with a name of one that it does not have and a ban with a pattern that  *)
(* is no regular expression.                                               *)
EXTENDS Config, TLC

CONSTANTS a, b, c, d, w1, w2

MCChance == a :> 0 @@ b :> 3 @@ c :> 2 @@ d :> 0

Two   == [rows |-> <<b, c>>, named |-> {b}, bans |-> <<TRUE>>]
Stray == [rows |-> <<a, d, b>>, named |-> {a, c}, bans |-> <<FALSE, TRUE>>]

MCDatabases == {Two, Stray}

(* A database that nobody changes, without mistakes in it.                 *)
Sound == {[rows |-> <<b, c, a>>, named |-> {a, c}, bans |-> <<TRUE>>]}
=============================================================================
