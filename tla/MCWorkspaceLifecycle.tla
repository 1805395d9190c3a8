----------------------- MODULE MCWorkspaceLifecycle -----------------------
(* TLC instances of WorkspaceLifecycle: which operations meet. *)
EXTENDS WorkspaceLifecycle, TLC

CONSTANTS w1, w2, w3, w4, o1, o2, o3, o4, o5, o6, o7, o8, o9, o10, o11, o12, o13

(* Everything that can happen to w1 while it is cloned with an App and to  *)
(* w2, which may be there and has the name w1 wants; w3 is made by the     *)
(* agent, w4 is cloned with the key.                                       *)
AllKinds ==
    (o1 :> "create") @@ (o2 :> "delete") @@ (o3 :> "disconnect") @@ (o4 :> "forget")
        @@ (o5 :> "delete") @@ (o6 :> "forget") @@ (o7 :> "prompt") @@ (o8 :> "delete")
        @@ (o9 :> "connect") @@ (o10 :> "abandon") @@ (o11 :> "register")
        @@ (o12 :> "create") @@ (o13 :> "delete")
AllTargets ==
    (o1 :> w1) @@ (o2 :> w1) @@ (o3 :> w1) @@ (o4 :> w1)
        @@ (o5 :> w2) @@ (o6 :> w2) @@ (o7 :> w3) @@ (o8 :> w3)
        @@ (o9 :> w1) @@ (o10 :> w1) @@ (o11 :> w2) @@ (o12 :> w4) @@ (o13 :> w4)
=============================================================================
