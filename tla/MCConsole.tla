----------------------------- MODULE MCConsole -----------------------------
(***************************************************************************)
(* Instances of Console: four files, one of them a broken profile, the     *)
(* names of four scripts, two search paths, suites of two names.           *)
(***************************************************************************)
EXTENDS Console, TLC

File(kind, parses, objects) == [kind |-> kind, parses |-> parses, objects |-> objects]

(* Sub-indices with these numbers, of any access type.                     *)
Subs(numbers) == [k \in DOMAIN numbers |-> [sub |-> numbers[k], access |-> k]]

Schema  == File("schema", TRUE, <<>>)
CiA301  == File("ds301", TRUE, (1 :> Subs(<<0, 1>>)) @@ (2 :> Subs(<<0, 1, 2>>)))
Broken  == File("profile", FALSE, <<>>)

(* The profile redefines a shorter object 2 and adds object 3.             *)
MCFiles == <<File("profile", TRUE, (2 :> Subs(<<0, 1>>)) @@ (3 :> Subs(<<0>>))),
             Schema, CiA301, Broken>>

(* As in export/codb/ds302.json: an object with sub-indices 0, 1 and 128,  *)
(* here 3.                                                                 *)
MCGapFiles == <<File("profile", TRUE, 3 :> Subs(<<0, 1, 3>>)), Schema, CiA301, Broken>>

Script(opens, at) == [opens |-> opens, at |-> at]
MCShelf == ("here" :> Script(TRUE, {0})) @@ ("bare" :> Script(TRUE, {}))
              @@ ("twice" :> Script(FALSE, {1, 3})) @@ ("absent" :> Script(FALSE, {}))

MCHash == ("generic" :> 2) @@ ("other" :> 1)
=============================================================================
