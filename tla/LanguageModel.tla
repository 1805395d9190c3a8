---------------------------- MODULE LanguageModel ----------------------------
(***************************************************************************)
(* The language model as the pipeline sees it (structured_output.py and    *)
(* the callers of agent_llm.py): what becomes of the answers of a provider *)
(* that may be down, slow, or write something else than it was asked for,  *)
(* and what the words of the objective decide in its place.                *)
(***************************************************************************)
EXTENDS DecisionRouter

(* One completion:                                                         *)
(*   whole, partial   an object with, or without, all the required keys    *)
(*   list, scalar     other JSON                                           *)
(*   text, empty      no JSON                                              *)
(*   unsupported      the provider does not know the mode asked for        *)
Completions == {"whole", "partial", "list", "scalar", "text", "empty",
                "unsupported", "timeout", "error"}

(* _constrained_fallback takes what parses, whatever is missing in it.  The *)
(* keys of a number cannot be looked for, which is an error.               *)
Constrained(completion) ==
    IF completion \in {"whole", "partial", "list"} THEN completion ELSE "raised"

(* request_structured: the native mode first; what it does not understand  *)
(* is asked again in the words of the prompt.                              *)
Request(native, constrained) ==
    CASE native = "whole" -> "whole"
      [] native \in {"scalar", "timeout", "error"} -> "raised"
      [] OTHER -> Constrained(constrained)

(* _chat_json keeps what it has returned for five minutes, the best efforts *)
(* too, so that a reply is one of a request or an earlier one.             *)
ChatJson(cached, native, constrained) ==
    IF cached # "none" THEN cached ELSE Request(native, constrained)

Cached == {"none"} \cup {r \in {Request(n, c) : n, c \in Completions} : r # "raised"}

Replies == {ChatJson(k, n, c) : k \in Cached, n, c \in Completions}

-----------------------------------------------------------------------------
(* What kind of job it is.                                                 *)

(* The words the fallback looks for: a deployment, code, operations.       *)
Words == {"deploy", "code", "ops"}

(* fallback_intent *)
FallbackIntent(words) ==
    IF "deploy" \in words THEN "server"
    ELSE IF "code" \in words THEN "code"
    ELSE IF "ops" \in words THEN "server" ELSE "chat"

(* What the model invents is a conversation. *)
NormalizeIntent(guess) == IF guess \in Kinds THEN guess ELSE "chat"

(* classify_intent_with_confidence and classify_intent: a guess counts from *)
(* a confidence of 0.8 on ("sure"); without one, or without a reply that   *)
(* has keys, the words decide.  An intent that is missing is a guess.      *)
ClassifiedAs(reply, guess, sure, words) ==
    IF reply \in {"whole", "partial"} /\ sure THEN NormalizeIntent(guess)
                                              ELSE FallbackIntent(words)

(* The kinds a job may be classified as, given whether its words are of a  *)
(* deployment.                                                             *)
Classifications(deployment) ==
    {ClassifiedAs(reply, guess, sure, words) :
        reply \in Replies, guess \in Kinds \cup {"other"}, sure \in BOOLEAN,
        words \in {w \in SUBSET Words : "deploy" \in w <=> deployment}}

-----------------------------------------------------------------------------
(* How much of a job it is.                                                *)

TaskModes == {"simple", "complex"}

(* The rule without a model: an objective that goes on. *)
Heuristic(winding) == IF winding THEN "complex" ELSE "simple"

(* detect_task_mode; "brief" is below 200 characters on one line, "winding" *)
(* above 220, on several lines, or joined by "and".                        *)
TaskMode(intent, reply, guess, brief, winding) ==
    IF intent = "chat" /\ brief THEN "simple"
    ELSE IF reply = "whole" /\ guess \in TaskModes THEN guess
    ELSE Heuristic(winding)

DetectedModes(intent) ==
    {TaskMode(intent, reply, guess, brief, winding) :
        reply \in Replies, guess \in TaskModes \cup {"other"}, brief, winding \in BOOLEAN}

(* build_plan: the words of a deployment make it complex. *)
PlannedMode(mode, deployment) == IF deployment THEN "complex" ELSE mode

(* generate_plan: the model is asked if the platform of a deployment is    *)
(* known; steps that are not well formed are left out, maybe all of them.  *)
(* A reply that cannot be read is an exception, which leaves no plan.      *)
ModelPlans(reply, deployment, platform, drafts) ==
    IF deployment /\ ~platform THEN {<<>>}
    ELSE IF reply \in {"whole", "partial"} THEN drafts \cup {<<>>} ELSE {}

OrElse(plans, others) ==
    {p \in plans : p # <<>>} \cup (IF <<>> \in plans THEN others ELSE {})

(* The pipeline plans; if that is empty the executor, which always knows   *)
(* the platform, plans again; and if that is empty too it only looks.      *)
ServerPlans(mode, reply, again, deployment, platform, drafts, diagnoses) ==
    IF PlannedMode(mode, deployment) = "simple" THEN diagnoses
    ELSE OrElse(ModelPlans(reply, deployment, platform, drafts),
                OrElse(ModelPlans(again, deployment, TRUE, drafts), diagnoses))
=============================================================================
