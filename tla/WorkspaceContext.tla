-------------------------- MODULE WorkspaceContext --------------------------
(***************************************************************************)
(* What a job knows of the platform around its workspace, put together     *)
(* from Redis, the row and the server (capability_service.py).  A source   *)
(* that is down is not an error: what it would have said is left out.      *)
(***************************************************************************)

(* What the sources would say: is a port allocated, is the workspace in    *)
(* the set of the gateway, has its row a domain or a slug, has the server  *)
(* a certificate and can it be asked.  Redis may be cut between its two    *)
(* answers.                                                                *)
Surroundings ==
    [redis : {"none", "port", "both"}, allocated : BOOLEAN, active : BOOLEAN,
     named : BOOLEAN, reachable : BOOLEAN, cert : BOOLEAN]

(* load_workspace_context *)
Load(s) == [port |-> s.redis # "none" /\ s.allocated,
            gateway |-> s.redis = "both" /\ s.active,
            subdomain |-> s.named,
            ssl |-> s.named /\ s.reachable /\ s.cert]

Contexts == {Load(s) : s \in Surroundings}

(* base_url; it is https with a certificate and http without. *)
HasBaseUrl(c) == c.subdomain

(* The context a plan is made with: none if the row of the workspace could *)
(* not be read, and that is all that can stop it.                          *)
Preplanned(found, c) == IF found THEN {c} ELSE {}

(* check_platform_context looks for one value that is not null.  The id,   *)
(* the protocol and the flags never are, so every context will do, also    *)
(* one without a port.                                                     *)
KnownPlatform(contexts) == contexts # {}

(* _run_deployment_contract, whose steps are given: the port listens, the  *)
(* application answers; and if the gateway serves the workspace, the route *)
(* and then the public address answer.                                     *)
ContractProbes(c, listen, fetch) ==
    CASE ~c.port -> <<>>
      [] c.port /\ ~(c.gateway /\ c.subdomain) -> <<listen, fetch>>
      [] c.port /\ c.gateway /\ c.subdomain ->
            IF HasBaseUrl(c) THEN <<listen, fetch, fetch, fetch>> ELSE <<listen, fetch, fetch>>

(* An objective that only says "start" is probed at its port, if any. *)
LocalProbes(c, fetch) == IF c.port THEN <<fetch>> ELSE <<>>
=============================================================================
