--------------------------- MODULE MCPatchEditor ---------------------------
(* TLC instances of PatchEditor: two jobs, two workspaces with a file of *)
(* the same name, and answers of every kind.                               *)
EXTENDS PatchEditor

CONSTANTS j1, j2, w1, w2, t, u

Cast(w, x) == [ws |-> [j \in {j1, j2} |-> IF j = j1 THEN w1 ELSE w],
               task |-> [j \in {j1, j2} |-> IF j = j1 THEN t ELSE x]]

(* Tasks of their own in one workspace, and a task that comes again, from  *)
(* the same workspace and from another.                                    *)
MCCasts == {Cast(w1, u), Cast(w1, t), Cast(w2, t)}

MCOriginal == [w \in {w1, w2} |->
    IF w = w1 THEN [main |-> <<"a", "b">>, lib |-> <<"b", "b">>] ELSE [main |-> <<"a">>]]

Patch(file, operation, target, replacement) ==
    [file |-> file, operation |-> operation, target |-> target, replacement |-> replacement]

(* In order: a good patch, one that is good once, two files, a target that *)
(* is there twice, patches that undo each other, one that changes nothing, *)
(* one that leaves its target where it was, and one that needs another     *)
(* order.                                                                  *)
MCAnswers == {
    << Patch("main", "replace", "a", <<"c">>) >>,
    << Patch("main", "insert", "b", <<"a">>) >>,
    << Patch("main", "delete", "b", <<>>), Patch("lib", "insert", "c", <<"a">>) >>,
    << Patch("lib", "delete", "b", <<>>) >>,
    << Patch("main", "replace", "a", <<"c">>), Patch("main", "replace", "c", <<"a">>) >>,
    << Patch("main", "replace", "a", <<"a">>) >>,
    << Patch("main", "replace", "a", <<"b", "a">>) >>,
    << Patch("main", "replace", "c", <<"a", "b">>), Patch("main", "replace", "a", <<"c">>) >> }
=============================================================================
