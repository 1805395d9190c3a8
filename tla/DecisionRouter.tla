--------------------------- MODULE DecisionRouter ---------------------------
(***************************************************************************)
(* The decision engine of the agent pipeline: a pure function from the     *)
(* signals a job has collected to the next action and the kind of          *)
(* execution it believes in, and the router that turns its answer into the *)
(* kind the pipeline dispatches on.  The engine runs in one of four modes; *)
(* "shadow" and "weighted" only record how it compares with the classified *)
(* intent, "authoritative" lets it choose.                                 *)
(***************************************************************************)
EXTENDS Naturals

Kinds == {"chat", "code", "server"}

(* DecisionState, reduced to what decide() reads.  "asks" is a pending     *)
(* clarification with questions; "explores" a discovery that is needed and *)
(* has no specification yet; "vague" a specification of confidence below   *)
(* 0.5 with missing fields; "planned" a job past its first decision.       *)
Signals == [intent: Kinds \cup {"other"}, deployment: BOOLEAN,
            resuming: BOOLEAN, asks: BOOLEAN, explores: BOOLEAN,
            vague: BOOLEAN, context: BOOLEAN, planned: BOOLEAN,
            pending: BOOLEAN]

(* _PRIVILEGE *)
Privilege(kind) ==
    CASE kind = "chat" -> 0
      [] kind = "code" -> 1
      [] kind = "server" -> 2

-----------------------------------------------------------------------------
(* AgentDecisionEngine.                                                    *)

InferKind(s) ==
    IF s.deployment
    THEN IF s.intent = "code" THEN "code" ELSE "server"
    ELSE IF s.intent \in Kinds THEN s.intent ELSE "code"

NeedsApproval(s) ==
    \/ s.pending
    \/ InferKind(s) = "server" /\ s.deployment

(* The gates in the order decide() tries them; the first one that is shut  *)
(* is the next action.                                                     *)
NextAction(s) ==
    IF s.resuming THEN "resume"
    ELSE IF s.asks THEN "clarify"
    ELSE IF s.explores THEN "discover"
    ELSE IF s.vague THEN "clarify"
    ELSE IF InferKind(s) # "chat" /\ ~s.context THEN "load_context"
    ELSE IF InferKind(s) = "server" /\ ~s.planned THEN "plan"
    ELSE IF NeedsApproval(s) THEN "approve"
    ELSE "execute"

(* A question to the user has no execution kind. *)
DecidedKind(s) == IF NextAction(s) = "clarify" THEN "none" ELSE InferKind(s)

-----------------------------------------------------------------------------
(* resolve_route                                                           *)

(* _live_execution_kind: what the pipeline does without the engine. *)
LegacyKind(s) == IF s.intent \in Kinds THEN s.intent ELSE "code"

(* _infer_dispatch_kind *)
DispatchKind(s) ==
    IF DecidedKind(s) # "none" THEN DecidedKind(s)
    ELSE IF s.deployment /\ s.intent # "code" THEN "server"
    ELSE LegacyKind(s)

(* An engine that raises leaves the legacy kind. *)
ResolveRoute(s, raises) ==
    IF raises \/ Privilege(DispatchKind(s)) > Privilege(LegacyKind(s))
    THEN LegacyKind(s)
    ELSE DispatchKind(s)

-----------------------------------------------------------------------------
(* The classes "weighted" counts.                                          *)

Sensitive(s) == DecidedKind(s) = "server" \/ s.deployment

Classify(s) ==
    IF NextAction(s) # "execute" THEN "BLOCKED"
    ELSE IF DecidedKind(s) = LegacyKind(s) THEN "MATCH"
    ELSE IF Sensitive(s) \/ "server" \in {DecidedKind(s), LegacyKind(s)}
    THEN "UNSAFE_MISMATCH"
    ELSE "SAFE_MISMATCH"

-----------------------------------------------------------------------------
(* What the pipeline feeds the engine.                                     *)

(* The intent after the regular expressions: an objective that names a     *)
(* deployment is a server job, a server job whose words are about code is  *)
(* a code job, and what the model invents is a code job.                   *)
PipelineIntent(classified, deployment, aboutCode) ==
    IF deployment THEN "server"
    ELSE IF classified = "server" /\ aboutCode THEN "code"
    ELSE IF classified \in Kinds THEN classified ELSE "code"

(* The DecisionState of run_agent_pipeline: no question is pending, no     *)
(* discovery, no context, and the job is running without a decision.       *)
PipelineSignals(intent, deployment, resuming, vague) ==
    [intent |-> intent, deployment |-> deployment, resuming |-> resuming,
     asks |-> FALSE, explores |-> FALSE, vague |-> vague,
     context |-> FALSE, planned |-> FALSE, pending |-> FALSE]
=============================================================================
