-------------------------- MODULE MCApprovalEngine --------------------------
(* Two decisions and a reply on one pause, once with a skip among them;    *)
(* two pauses and the replies to them; two pauses, a rejection and the     *)
(* reply that says the same.  The requests start in every order.           *)
EXTENDS ApprovalEngine

MCCasts == {<<"pause", "approve", "reject", "reply">>,
            <<"pause", "skip", "reject", "reply">>,
            <<"pause", "pause", "reply", "reply">>,
            <<"pause", "pause", "reject", "refusal">>}
=============================================================================
