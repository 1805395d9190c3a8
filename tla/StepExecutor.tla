---------------------------- MODULE StepExecutor ----------------------------
(***************************************************************************)
(* The server executor (executor.py): it runs the steps of a plan one by   *)
(* one through a gate (the on_step_start hook of the pipeline, which may   *)
(* suspend the job for an approval), a tool and a validation, retries what *)
(* changes the server, and closes with the success contract: probes that   *)
(* show that what was deployed answers.                                    *)
(*                                                                         *)
(* Three kinds of steps go through the same code: the version checks that  *)
(* precede a deployment ("preflight"), the plan, and the probes            *)
(* ("contract").  The workspace lock is not modelled: SET NX reports a     *)
(* refusal as None and only False is one (executor.py:394), so it refuses  *)
(* nobody.                                                                 *)
(***************************************************************************)
EXTENDS Naturals, Sequences, LanguageModel, Permissions, WorkspaceContext

CONSTANTS
    MaxPlan,        \* bound on the length of a plan (8 in the code)
    MaxTries,       \* MAX_STEP_RETRIES: executions of a step of type ACTION
    Toolset         \* the kinds of steps a plan is made of

ASSUME PlanAssumption == MaxPlan \in Nat \ {0}
ASSUME TriesAssumption == MaxTries \in Nat \ {0}

VARIABLES
    phase,          \* where the run is
    aim,            \* what the words of the objective ask for
    plan, probes,   \* the kinds of the steps of the plan and of the contract
    at, attempt,    \* the step that runs, how often it has been retried
    results,        \* every execution: step, attempt, exit code, validation
    swallowed,      \* the gated executions whose gate failed and was passed
    verdict         \* loop_result.success

execVars == <<phase, aim, plan, probes, at, attempt, results, swallowed, verdict>>

-----------------------------------------------------------------------------
(* Steps.                                                                  *)

(* What tells the steps apart: how an exit code is read, whether the       *)
(* approval policy asks for the step, whether there is a command that      *)
(* checks its effect, and whether it needs allow_write, as some actions do. *)
StepKind == {k \in [type : {"CHECK", "ACTION", "VERIFY"}, gated : BOOLEAN,
                    checked : BOOLEAN, writes : BOOLEAN] : k.writes => k.type = "ACTION"}

GitChanges == {"git_commit", "git_restore", "git_reset", "git_clean"}
EnvTools == {"config_set", "write_secret"}
FileWrites == {"write_file", "patch_file"}

(* supported_tools; the constitution refuses any other.                    *)
SupportedTools ==
    {"run_command", "check_disk", "check_memory", "read_logs", "restart_service",
     "deploy_app", "read_file", "list_files", "list_processes", "git_status",
     "git_diff", "git_branch"} \cup GitChanges \cup EnvTools \cup FileWrites

(* A command looks (grep, ss ...), fetches (curl, wget), makes something   *)
(* that can be tested for (mkdir, a redirect, a server on a port), or does *)
(* something else.                                                         *)
Commands == {"look", "fetch", "make", "other"}

(* _step_command_type *)
TypeOf(tool, command) ==
    CASE tool = "run_command" /\ command = "look" -> "CHECK"
      [] tool = "run_command" /\ command = "fetch" -> "VERIFY"
      [] tool \in {"read_file", "list_files", "list_processes"} -> "CHECK"
      [] OTHER -> "ACTION"

(* _map_tool_to_approval_type goes by parts of the name, "file" among them. *)
ApprovalTypeOf(tool) ==
    CASE tool = "write_secret" -> "secret"
      [] tool \in FileWrites \cup {"config_set", "read_file", "list_files"} -> "file_overwrite"
      [] tool = "deploy_app" -> "deployment"
      [] OTHER -> "command"

(* _resolve_policy: the risk does not matter. *)
Policy(approval) == IF approval = "file_overwrite" THEN "auto" ELSE "manual"

(* _action_validator_command *)
HasValidator(tool, command) ==
    \/ tool \in FileWrites \cup EnvTools \cup GitChanges \cup {"restart_service"}
    \/ tool \in {"run_command", "deploy_app"} /\ command = "make"

KindOf(tool, command) ==
    [type |-> TypeOf(tool, command),
     gated |-> Policy(ApprovalTypeOf(tool)) = "manual",
     checked |-> HasValidator(tool, command),
     writes |-> tool \in FileWrites \cup EnvTools]

Tools == {KindOf(t, c) : t \in SupportedTools, c \in Commands}

WriteFile == KindOf("write_file", "other")
Inspect == KindOf("run_command", "look")
Command == KindOf("run_command", "other")
Curl == KindOf("run_command", "fetch")

ASSUME ToolsetAssumption == Toolset \subseteq Tools

Plans == UNION {[1..n -> Toolset] : n \in 1..MaxPlan}

(* _build_fallback_tool: df, free, or a command that looks. *)
Diagnoses == {<<k>> : k \in Toolset \cap {Inspect, Command}}

PlansFor(a) ==
    {p \in Plans : \E mode \in DetectedModes("server"), reply, again \in Replies,
                      found \in BOOLEAN, c \in Contexts :
        p \in ServerPlans(mode, reply, again, a = "deploy",
                          KnownPlatform(Preplanned(found, c)), Plans, Diagnoses)}

(* _run_contract_preflight: node, python and npm. *)
Preflight == <<Command, Command, Command>>

(* The probes of a deployment, and of an objective that only says "start": *)
(* the context is loaded anew before.  Without a port there are none.      *)
DeployProbes == {ContractProbes(c, Inspect, Curl) : c \in Contexts}

StartProbes == {LocalProbes(c, Curl) : c \in Contexts}

Aims == {"plain", "start", "deploy"}

ProbesOf(a) ==
    CASE a = "deploy" -> DeployProbes
      [] a = "start" -> StartProbes
      [] a = "plain" -> {<<>>}

Parts == {"preflight", "plan", "contract"}

Place(part, n) == [part |-> part, n |-> n]

Places == [part: Parts, n: Nat \ {0}]

StepsOf(part) ==
    CASE part = "preflight" -> IF aim = "deploy" THEN Preflight ELSE <<>>
      [] part = "plan" -> plan
      [] part = "contract" -> probes

Current == StepsOf(at.part)[at.n]

Exits == {0, 1, 2}

(* The executor asks on behalf of a user without a name. *)
AllowWrite == \E q \in Requests(Nobody) : q.server # "unasked" /\ Permitted(q)

(* The exit codes that are told apart: 1 is "condition false" to a CHECK,  *)
(* and to the others one failure is like another, the refusal of a tool    *)
(* that needs allow_write included.                                        *)
ExitsOf(step) ==
    IF step.writes /\ ~AllowWrite THEN {1}
    ELSE IF step.type = "CHECK" THEN Exits ELSE {0, 1}

(* _validate_result and _set_step_status: success is validation_passed. *)
Valid(step, exit, confirmed) ==
    CASE step.type = "CHECK" -> exit \in {0, 1}
      [] step.type = "VERIFY" -> exit = 0
      [] step.type = "ACTION" -> exit = 0 /\ (step.checked => confirmed)

Result == [place: Places, attempt: Nat, exit: Exits, valid: BOOLEAN]

Last(s) == s[Len(s)]

AllValid == \A i \in 1..Len(results) : results[i].valid

Running == {"ready", "step", "gate", "tool", "judge", "closing"}
Ended == {"over", "raised", "suspended"}

ExecTypeOK ==
    /\ phase \in {"off"} \cup Running \cup Ended
    /\ aim \in Aims
    /\ plan \in Seq(StepKind)
    /\ probes \in Seq(StepKind)
    /\ at \in Places
    /\ attempt \in 0..(MaxTries - 1)
    /\ results \in Seq(Result)
    /\ swallowed \in Seq([place: Places, attempt: Nat])
    /\ verdict \in {"none", "success", "failure"}

ExecInit ==
    /\ phase = "off"
    /\ aim \in Aims
    /\ plan = <<>>
    /\ probes = <<>>
    /\ at = Place("plan", 1)
    /\ attempt = 0
    /\ results = <<>>
    /\ swallowed = <<>>
    /\ verdict = "none"

-----------------------------------------------------------------------------
(* The run up to its first step.                                           *)

Start ==
    /\ phase = "off"
    /\ phase' = "ready"
    /\ UNCHANGED <<aim, plan, probes, at, attempt, results, swallowed, verdict>>

(* The plan of the pipeline, or one of the executor's own; every tool is   *)
(* one the constitution knows.                                             *)
Begin ==
    /\ phase = "ready"
    /\ plan' \in PlansFor(aim)
    /\ phase' = "step"
    /\ at' = Place(IF aim = "deploy" THEN "preflight" ELSE "plan", 1)
    /\ UNCHANGED <<aim, probes, attempt, results, swallowed, verdict>>

(* Whatever raises outside a step: the permission check, the capabilities, *)
(* the context, the planner, an unknown tool.                              *)
BeginRaises ==
    /\ phase = "ready"
    /\ phase' = "raised"
    /\ UNCHANGED <<aim, plan, probes, at, attempt, results, swallowed, verdict>>

-----------------------------------------------------------------------------
(* A step: _run_validated_step.                                            *)

(* The checks of the constitution come before the gate. *)
CheckStep ==
    /\ phase = "step"
    /\ phase' \in {"gate", "raised"}
    /\ UNCHANGED <<aim, plan, probes, at, attempt, results, swallowed, verdict>>

(* Mutant: a retry is not asked for again and not recorded as such. *)
PassGateUnlessRetry ==
    /\ phase = "gate"
    /\ ~Current.gated \/ attempt > 0
    /\ phase' = "tool"
    /\ UNCHANGED <<aim, plan, probes, at, attempt, results, swallowed, verdict>>

(* The policy answers AUTO. *)
PassGate ==
    /\ phase = "gate"
    /\ ~Current.gated
    /\ phase' = "tool"
    /\ UNCHANGED <<aim, plan, probes, at, attempt, results, swallowed, verdict>>

(* The hook has paused the job; its signal is the one exception that       *)
(* leaves _exec_step.                                                      *)
SuspendAtGate ==
    /\ phase = "gate"
    /\ Current.gated
    /\ phase' = "suspended"
    /\ UNCHANGED <<aim, plan, probes, at, attempt, results, swallowed, verdict>>

(* Any other exception of the hook (the approval cannot be stored, the     *)
(* resume token cannot be signed) is logged, and the step runs.            *)
SwallowGate ==
    /\ phase = "gate"
    /\ phase' = "tool"
    /\ swallowed' = IF Current.gated
                    THEN Append(swallowed, [place |-> at, attempt |-> attempt])
                    ELSE swallowed
    /\ UNCHANGED <<aim, plan, probes, at, attempt, results, verdict>>

ToolRaises ==
    /\ phase = "tool"
    /\ phase' = "raised"
    /\ UNCHANGED <<aim, plan, probes, at, attempt, results, swallowed, verdict>>

(* execute_tool, the validator of an ACTION, and _record_result.           *)
RunTool(exit, confirmed) ==
    /\ phase = "tool"
    /\ exit \in ExitsOf(Current)
    /\ phase' = "judge"
    /\ results' = Append(results, [place |-> at, attempt |-> attempt, exit |-> exit,
                                   valid |-> Valid(Current, exit, confirmed)])
    /\ UNCHANGED <<aim, plan, probes, at, attempt, swallowed, verdict>>

-----------------------------------------------------------------------------
(* What follows a result.                                                  *)

(* The result of a preflight check is not looked at. *)
AfterPreflight ==
    /\ phase = "judge"
    /\ at.part = "preflight"
    /\ phase' = "step"
    /\ at' = IF at.n < Len(Preflight) THEN Place("preflight", at.n + 1)
                                      ELSE Place("plan", 1)
    /\ UNCHANGED <<aim, plan, probes, attempt, results, swallowed, verdict>>

(* DecisionAction.CONTINUE *)
Continue ==
    /\ phase = "judge"
    /\ at.part = "plan"
    /\ Last(results).valid
    /\ phase' = IF at.n < Len(plan) THEN "step" ELSE "closing"
    /\ at' = IF at.n < Len(plan) THEN Place("plan", at.n + 1) ELSE at
    /\ attempt' = 0
    /\ UNCHANGED <<aim, plan, probes, results, swallowed, verdict>>

MayRetry == Current.type = "ACTION" /\ attempt + 1 < MaxTries

(* DecisionAction.RETRY *)
Retry ==
    /\ phase = "judge"
    /\ at.part = "plan"
    /\ ~Last(results).valid
    /\ MayRetry
    /\ phase' = "step"
    /\ attempt' = attempt + 1
    /\ UNCHANGED <<aim, plan, probes, at, results, swallowed, verdict>>

(* Mutant: only an ACTION aborts. *)
AbortActionOnly ==
    /\ phase = "judge"
    /\ at.part = "plan"
    /\ ~Last(results).valid
    /\ Current.type = "ACTION" /\ attempt + 1 >= MaxTries
    /\ phase' = "closing"
    /\ UNCHANGED <<aim, plan, probes, at, attempt, results, swallowed, verdict>>

(* DecisionAction.ABORT: the loop ends, the success contract follows. *)
Abort ==
    /\ phase = "judge"
    /\ at.part = "plan"
    /\ ~Last(results).valid
    /\ ~MayRetry
    /\ phase' = "closing"
    /\ UNCHANGED <<aim, plan, probes, at, attempt, results, swallowed, verdict>>

-----------------------------------------------------------------------------
(* The success contract.                                                   *)

(* A run with a failed result, a retried one included, is over; one        *)
(* without is probed.  A deployment without a port to probe has failed.    *)
Close ==
    /\ phase = "closing"
    /\ probes' \in IF AllValid THEN ProbesOf(aim) ELSE {<<>>}
    /\ IF probes' # <<>>
       THEN /\ phase' = "step"
            /\ at' = Place("contract", 1)
            /\ attempt' = 0
            /\ UNCHANGED verdict
       ELSE /\ phase' = "over"
            /\ verdict' = IF AllValid /\ aim # "deploy" THEN "success" ELSE "failure"
            /\ UNCHANGED <<at, attempt>>
    /\ UNCHANGED <<aim, plan, results, swallowed>>

(* Mutant: the port is judged like any CHECK. *)
ProbePassedByValidation == Last(results).valid

(* The first two probes of a deployment look at the exit code itself: a    *)
(* CHECK that exits 1 is valid and still a port where nobody listens.      *)
ProbePassed ==
    IF aim = "deploy" /\ at.n <= 2 THEN Last(results).exit = 0
                                   ELSE Last(results).valid

AfterProbe ==
    /\ phase = "judge"
    /\ at.part = "contract"
    /\ IF ProbePassed /\ at.n < Len(probes)
       THEN /\ phase' = "step"
            /\ at' = Place("contract", at.n + 1)
            /\ UNCHANGED verdict
       ELSE /\ phase' = "over"
            /\ verdict' = IF ProbePassed THEN "success" ELSE "failure"
            /\ UNCHANGED at
    /\ UNCHANGED <<aim, plan, probes, attempt, results, swallowed>>

-----------------------------------------------------------------------------
(* Everything a run does by itself; the gate belongs to the pipeline.      *)
ExecStep ==
    \/ Begin
    \/ CheckStep
    \/ AfterPreflight
    \/ Continue
    \/ Retry
    \/ Abort
    \/ Close
    \/ AfterProbe

(* The three ways a run ends with an exception that is not a suspension. *)
ExecRaises == BeginRaises \/ ToolRaises

-----------------------------------------------------------------------------
(* What a run promises.                                                    *)

(* Where the steps of a part begin when all of them are counted through.   *)
Offset(part) ==
    CASE part = "preflight" -> 0
      [] part = "plan" -> Len(StepsOf("preflight"))
      [] part = "contract" -> Len(StepsOf("preflight")) + Len(plan)

(* The steps a successful run has to have behind it, in order. *)
Required ==
    [i \in 1..(Offset("contract") + Len(probes)) |->
        IF i <= Offset("plan") THEN Place("preflight", i)
        ELSE IF i <= Offset("contract") THEN Place("plan", i - Offset("plan"))
        ELSE Place("contract", i - Offset("contract"))]

(* loop_result.success is earned: each required step has run exactly once, *)
(* in order, and its result is valid (so a run that was saved by a retry   *)
(* is not a success); a deployment has been probed, and its port was       *)
(* listening, which a valid CHECK alone does not say.                      *)
SuccessIsEarned ==
    verdict = "success" =>
        /\ [i \in 1..Len(results) |-> results[i].place] = Required
        /\ AllValid
        /\ aim = "deploy" =>
              /\ probes # <<>>
              /\ \A i \in 1..Len(results) :
                    results[i].place = Place("contract", 1) => results[i].exit = 0

(* A step that needs an approval runs only in an execution whose gate      *)
(* failed (and was logged): never by way of a retry, a preflight check or  *)
(* a probe that goes around the gate.                                      *)
GatedStepsWait ==
    \A i \in 1..Len(results) :
        LET r == results[i]
            StepOf == StepsOf(r.place.part)[r.place.n]
        IN  StepOf.gated =>
                \E k \in 1..Len(swallowed) :
                    swallowed[k] = [place |-> r.place, attempt |-> r.attempt]

(* The executor asks for the permission of a user without a name, who owns *)
(* nothing: a plan with a step that needs allow_write never succeeds.      *)
NoPlanWrites ==
    verdict = "success" => \A i \in 1..Len(plan) : ~plan[i].writes

(* What changes the server is executed at most MaxTries times, again only  *)
(* after a failure, and nothing else is executed twice; the attempts are   *)
(* counted from 0 for each step.                                           *)
RetriesAreJustified ==
    \A i \in 1..Len(results) :
        LET r == results[i]
        IN  /\ r.attempt < MaxTries
            /\ r.attempt > 0 =>
                  /\ StepsOf(r.place.part)[r.place.n].type = "ACTION"
                  /\ i > 1
                  /\ results[i - 1].place = r.place
                  /\ results[i - 1].attempt = r.attempt - 1
                  /\ ~results[i - 1].valid
            /\ r.attempt = 0 => \A k \in 1..(i - 1) : results[k].place # r.place
=============================================================================
