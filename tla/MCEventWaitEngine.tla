------------------------- MODULE MCEventWaitEngine -------------------------
(***************************************************************************)
(* TLC instances of EventWaitEngine.  One job is enough: the bus keeps the *)
(* jobs apart by their id.                                                 *)
(***************************************************************************)
EXTENDS EventWaitEngine

=============================================================================
