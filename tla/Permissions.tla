----------------------------- MODULE Permissions -----------------------------
(***************************************************************************)
(* PermissionService.check: whether a user may write to a workspace and to *)
(* a server.  It looks at a switch of the deployment and at the owners of  *)
(* the two rows, and denies what it cannot read.                           *)
(***************************************************************************)

(* Nobody is the empty user the executor asks for. *)
Owners == {"user", "other"}
Nobody == "nobody"

(* What the look-up of a row finds: nothing to look up, no row, an error,  *)
(* an owner.                                                               *)
Found == {"unasked", "missing", "unreadable"} \cup Owners

(* assert_owns *)
MayUse(found, caller) == found = "unasked" \/ (found \in Owners /\ found = caller)

(* "matches": the workspace is one of the server. *)
Requests(caller) ==
    [enabled : BOOLEAN, caller : {caller}, workspace : Found, server : Found,
     matches : BOOLEAN]

Permitted(q) ==
    /\ q.enabled
    /\ MayUse(q.workspace, q.caller)
    /\ q.workspace # "unasked" /\ q.server # "unasked" => q.matches
    /\ MayUse(q.server, q.caller)
=============================================================================
