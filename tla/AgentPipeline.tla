--------------------------- MODULE AgentPipeline ---------------------------
(***************************************************************************)
(* run_agent_pipeline: one job from the claim of a worker to what the      *)
(* worker writes when the pipeline is done with it.  The pipeline decides  *)
(* what kind of job it is, runs it as a conversation, as a program         *)
(* (CodeWriter, then SelfHealing) or as a plan on a server (StepExecutor), *)
(* keeps the status of the row and publishes events; the last of them      *)
(* ("completed", "failed", a question) is what the user is told.           *)
(*                                                                         *)
(* A status write may be lost (_db_update swallows an APIError), most      *)
(* calls may raise, and some of them outside of every handler: then the    *)
(* exception reaches the worker, which marks the job failed and publishes  *)
(* nothing.                                                                *)
(***************************************************************************)
EXTENDS StepExecutor, SelfHealing, DecisionRouter, CodeWriter

CONSTANT MaxLost        \* bound on lost status writes

ASSUME LostAssumption == MaxLost \in Nat

VARIABLES
    stage,      \* where the pipeline is
    row,        \* jobs.status
    wanted,     \* the intent of the classification and the words
    intent,     \* the intent the branches dispatch on
    vague,      \* a specification of low confidence with missing fields,
                \* until the route is chosen
    source,     \* what wrote the program of a code job
    report,     \* decide_strategy has produced a report
    told,       \* the final events published
    ended,      \* how run_job ended: "returned" or "raised"
    parked,     \* registered on the event bus, with a driver
    lost        \* status writes lost so far

pipeVars == <<stage, row, wanted, intent, vague, source, report, told, ended, parked, lost>>
vars == <<execVars, healVars, codeVars, pipeVars>>

-----------------------------------------------------------------------------
Stages == {"start", "permission", "classify", "clarify", "lookup", "workspace",
           "detect", "route", "chat", "code", "program", "server", "steps",
           "ended", "marked"}

Rows == {"running", "waiting", "completed", "failed"}

(* success/failure: "completed" with its flag; refused: "failed"; asked:   *)
(* "waiting_for_clarification"; waiting: "waiting_for_approval".           *)
FinalEvents == {"success", "failure", "refused", "asked", "waiting"}

Sources == {"none", "patch", "report", "template", "llm"}

Modes == {"off", "shadow", "weighted", "authoritative"}

PipeTypeOK ==
    /\ stage \in Stages
    /\ row \in Rows
    /\ wanted \in Kinds
    /\ intent \in Kinds
    /\ vague \in BOOLEAN
    /\ source \in Sources
    /\ report \in BOOLEAN
    /\ told \in Seq(FinalEvents)
    /\ ended \in {"no", "returned", "raised"}
    /\ parked \in BOOLEAN
    /\ lost \in 0..MaxLost

TypeOK == ExecTypeOK /\ HealTypeOK /\ CodeTypeOK /\ PipeTypeOK

(* The worker has claimed the job, which wrote "running". *)
Init ==
    /\ ExecInit
    /\ HealInit
    /\ CodeInit
    /\ stage = "start"
    /\ row = "running"
    /\ wanted = "code"
    /\ intent = "code"
    /\ vague = FALSE
    /\ source = "none"
    /\ report = FALSE
    /\ told = <<>>
    /\ ended = "no"
    /\ parked = FALSE
    /\ lost = 0

-----------------------------------------------------------------------------
(* Writes, events and ends.                                                *)

(* _db_update(job_id, {"status": s}) *)
Write(s) ==
    \/ row' = s /\ UNCHANGED lost
    \/ /\ lost < MaxLost
       /\ lost' = lost + 1
       /\ UNCHANGED row

(* The same status by two requests in a row, each of which may be lost. *)
WriteTwice(s) ==
    \E n \in 0..2 :
        /\ lost + n <= MaxLost
        /\ lost' = lost + n
        /\ row' = IF n = 2 THEN row ELSE s

Tell(event) == told' = Append(told, event)

(* The shape of every handler: status failed, "completed" with success     *)
(* false, return.                                                          *)
Fail ==
    /\ Write("failed")
    /\ Tell("failure")
    /\ ended' = "returned"
    /\ stage' = "ended"
    /\ UNCHANGED <<wanted, intent, vague, source, report, parked>>

Succeed ==
    /\ Write("completed")
    /\ Tell("success")
    /\ ended' = "returned"
    /\ stage' = "ended"
    /\ UNCHANGED <<wanted, intent, vague, source, report, parked>>

(* An exception that no handler of the pipeline catches. *)
Escape ==
    /\ ended' = "raised"
    /\ stage' = "ended"
    /\ UNCHANGED <<row, wanted, intent, vague, source, report, told, parked, lost>>

Advance(next) ==
    /\ stage' = next
    /\ UNCHANGED <<row, wanted, intent, vague, source, report, told, ended, parked, lost>>

-----------------------------------------------------------------------------
(* The stages every job goes through.                                      *)

(* The resume check is inside a handler of its own. *)
Activate ==
    /\ stage = "start"
    /\ Write("running")
    /\ stage' = "permission"
    /\ UNCHANGED <<wanted, intent, vague, source, report, told, ended, parked>>
    /\ UNCHANGED <<execVars, healVars, codeVars>>

Permit ==
    /\ stage = "permission"
    /\ \E q \in Requests("user") : Permitted(q)
    /\ Advance("classify")
    /\ UNCHANGED <<execVars, healVars, codeVars>>

Deny ==
    /\ stage = "permission"
    /\ \E q \in Requests("user") : ~Permitted(q)
    /\ Write("failed")
    /\ Tell("refused")
    /\ ended' = "returned"
    /\ stage' = "ended"
    /\ UNCHANGED <<wanted, intent, vague, source, report, parked>>
    /\ UNCHANGED <<execVars, healVars, codeVars>>

(* classify_intent, the regular expressions and the discovery. *)
ClassifyIntent(classified, aboutCode, v) ==
    /\ stage = "classify"
    /\ classified \in Classifications(aim = "deploy")
    /\ wanted' = PipelineIntent(classified, aim = "deploy", aboutCode)
    /\ intent' = wanted'
    /\ vague' = v
    /\ stage' = "clarify"
    /\ UNCHANGED <<row, source, report, told, ended, parked, lost>>
    /\ UNCHANGED <<execVars, healVars, codeVars>>

NoQuestion ==
    /\ stage = "clarify"
    /\ Advance("lookup")
    /\ UNCHANGED <<execVars, healVars, codeVars>>

(* The signal is raised and raised again outside of the try whose handler  *)
(* would park the job.                                                     *)
AskQuestion ==
    /\ stage = "clarify"
    /\ Write("waiting")
    /\ Tell("asked")
    /\ ended' = "raised"
    /\ stage' = "ended"
    /\ UNCHANGED <<wanted, intent, vague, source, report, parked>>
    /\ UNCHANGED <<execVars, healVars, codeVars>>

(* get_server, then resolve_workspace. *)
Resolve ==
    /\ \/ stage = "lookup" /\ Advance("workspace")
       \/ stage = "workspace" /\ Advance("detect")
    /\ UNCHANGED <<execVars, healVars, codeVars>>

ResolveFails ==
    /\ stage \in {"lookup", "workspace"}
    /\ Fail
    /\ UNCHANGED <<execVars, healVars, codeVars>>

(* The memory, the intent and the task mode, each with its status write.   *)
Detect ==
    /\ stage = "detect"
    /\ Write("running")
    /\ stage' = "route"
    /\ UNCHANGED <<wanted, intent, vague, source, report, told, ended, parked>>
    /\ UNCHANGED <<execVars, healVars, codeVars>>

(* Only the authoritative engine touches the intent. *)
Route(mode, raises) ==
    /\ stage = "route"
    /\ intent' = IF mode = "authoritative"
                 THEN ResolveRoute(PipelineSignals(intent, aim = "deploy", FALSE, vague), raises)
                 ELSE intent
    /\ stage' = intent'
    /\ vague' = FALSE
    /\ UNCHANGED <<row, wanted, source, report, told, ended, parked, lost>>
    /\ UNCHANGED <<execVars, healVars, codeVars>>

(* The calls that are outside of every handler: the permission service,    *)
(* the language model that classifies, detects the mode, answers and       *)
(* plans, the memory; and, anywhere, a status write that fails with        *)
(* anything but an APIError, those of the handlers included.               *)
CallRaises ==
    /\ \/ stage \in {"start", "permission", "classify", "lookup", "workspace",
                     "detect", "chat", "code", "program", "server"}
       \/ stage = "steps" /\ phase \in {"ready", "raised"}
       \/ stage = "steps" /\ phase = "over" /\ verdict = "failure"
    /\ Escape
    /\ UNCHANGED <<execVars, healVars, codeVars>>

-----------------------------------------------------------------------------
(* A conversation.                                                         *)

Answer ==
    /\ stage = "chat"
    /\ Succeed
    /\ UNCHANGED <<execVars, healVars, codeVars>>

-----------------------------------------------------------------------------
(* A program: _run_code_execution.                                         *)

WriteCode ==
    /\ stage = "code"
    /\ CodeStep
    /\ UNCHANGED <<execVars, healVars, pipeVars>>

(* Permission denied, code that is not valid, a patch that is not ready or *)
(* changes nothing: a result without success.                              *)
RefuseCode ==
    /\ stage = "code"
    /\ coding = "refused"
    /\ Fail
    /\ UNCHANGED <<execVars, healVars, codeVars>>

(* The workspace, the files, the model: any exception is handled. *)
CodeRaises ==
    /\ stage \in {"code", "program"}
    /\ coding \notin {"refused", "edited"}
    /\ Fail
    /\ UNCHANGED <<execVars, healVars, codeVars>>

(* The files of an existing project are edited; nothing is run. *)
Patch ==
    /\ stage = "code"
    /\ coding = "edited"
    /\ source' = "patch"
    /\ Write("completed")
    /\ Tell("success")
    /\ ended' = "returned"
    /\ stage' = "ended"
    /\ UNCHANGED <<wanted, intent, vague, report, parked>>
    /\ UNCHANGED <<execVars, healVars, codeVars>>

(* The program is there and compiles. *)
WriteProgram ==
    /\ stage = "code"
    /\ coding = "ready"
    /\ source' = author
    /\ report' = reported
    /\ stage' = "program"
    /\ UNCHANGED <<row, wanted, intent, vague, told, ended, parked, lost>>
    /\ StartHealing
    /\ UNCHANGED <<execVars, codeVars>>

RunProgram ==
    /\ stage = "program"
    /\ HealStep
    /\ UNCHANGED <<execVars, codeVars, pipeVars>>

(* Mutant: the flag of the result is not read. *)
SettleProgramBlindly ==
    /\ stage = "program"
    /\ healing = "over"
    /\ IF source = "template" /\ ~report THEN Fail ELSE Succeed
    /\ UNCHANGED <<execVars, healVars, codeVars>>

(* A template without a report trips over a variable that was never bound, *)
(* whatever the program did.                                               *)
SettleProgram ==
    /\ stage = "program"
    /\ healing = "over"
    /\ IF healed /\ (source = "template" => report) THEN Succeed ELSE Fail
    /\ UNCHANGED <<execVars, healVars, codeVars>>

-----------------------------------------------------------------------------
(* A plan on a server.                                                     *)

(* build_plan and its write are outside of every handler, what follows is  *)
(* inside of one.                                                          *)
StartSteps ==
    /\ stage = "server"
    /\ Advance("steps")
    /\ Start
    /\ UNCHANGED <<healVars, codeVars>>

PrepareFails ==
    /\ stage = "steps"
    /\ phase = "ready"
    /\ Fail
    /\ UNCHANGED <<execVars, healVars, codeVars>>

RunSteps ==
    /\ stage = "steps"
    /\ ExecStep \/ ExecRaises
    /\ UNCHANGED <<healVars, codeVars, pipeVars>>

(* on_step_result and on_decision write "running"; their exceptions are    *)
(* swallowed by the executor.                                              *)
ExecuteTool(exit, confirmed) ==
    /\ stage = "steps"
    /\ RunTool(exit, confirmed)
    /\ Write("running")
    /\ UNCHANGED <<stage, wanted, intent, vague, source, report, told, ended, parked>>
    /\ UNCHANGED <<healVars, codeVars>>

(* on_step_start of a step that needs no approval. *)
AllowStep ==
    /\ stage = "steps"
    /\ PassGate
    /\ Write("running")
    /\ UNCHANGED <<stage, wanted, intent, vague, source, report, told, ended, parked>>
    /\ UNCHANGED <<healVars, codeVars>>

(* The approval is stored, the job paused (which writes the status), the   *)
(* token signed, the status written again, the question published; both    *)
(* writes swallow their errors.  The handler of the signal registers the   *)
(* job on the bus, spawns the driver and returns.                          *)
SuspendJob ==
    /\ stage = "steps"
    /\ SuspendAtGate
    /\ WriteTwice("waiting")
    /\ Tell("waiting")
    /\ parked' = TRUE
    /\ ended' = "returned"
    /\ stage' = "ended"
    /\ UNCHANGED <<wanted, intent, vague, source, report>>
    /\ UNCHANGED <<healVars, codeVars>>

(* The hook fails somewhere before its event: pause may already have       *)
(* written the status.                                                     *)
GateFails ==
    /\ stage = "steps"
    /\ SwallowGate
    /\ row' \in IF Current.gated THEN {row, "waiting"} ELSE {row}
    /\ UNCHANGED <<stage, wanted, intent, vague, source, report, told, ended, parked, lost>>
    /\ UNCHANGED <<healVars, codeVars>>

(* check_success_contract is handed an attribute the result does not have, *)
(* outside of every handler: a success escapes.                            *)
SettleSteps ==
    /\ stage = "steps"
    /\ \/ phase = "over" /\ verdict = "success" /\ Escape
       \/ phase = "over" /\ verdict = "failure" /\ Fail
       \/ phase = "raised" /\ Fail
    /\ UNCHANGED <<execVars, healVars, codeVars>>

-----------------------------------------------------------------------------
(* The worker.                                                             *)

(* _mark_completed, which leaves a waiting job alone, and _mark_failed,    *)
(* which leaves none alone.                                                *)
Mark ==
    /\ stage = "ended"
    /\ stage' = "marked"
    /\ row' = IF ended = "raised" THEN "failed"
              ELSE IF row = "waiting" THEN row ELSE "completed"
    /\ UNCHANGED <<wanted, intent, vague, source, report, told, ended, parked, lost>>
    /\ UNCHANGED <<execVars, healVars, codeVars>>

Done == stage = "marked" /\ UNCHANGED vars

Next ==
    \/ Activate
    \/ Permit
    \/ Deny
    \/ \E c \in Kinds, aboutCode, v \in BOOLEAN : ClassifyIntent(c, aboutCode, v)
    \/ NoQuestion
    \/ AskQuestion
    \/ Resolve
    \/ ResolveFails
    \/ Detect
    \/ \E mode \in Modes, raises \in BOOLEAN : Route(mode, raises)
    \/ CallRaises
    \/ Answer
    \/ WriteCode
    \/ RefuseCode
    \/ CodeRaises
    \/ Patch
    \/ WriteProgram
    \/ RunProgram
    \/ SettleProgram
    \/ StartSteps
    \/ PrepareFails
    \/ RunSteps
    \/ \E exit \in Exits, confirmed \in BOOLEAN : ExecuteTool(exit, confirmed)
    \/ AllowStep
    \/ SuspendJob
    \/ GateFails
    \/ SettleSteps
    \/ Mark
    \/ Done

(* A pipeline that is awaiting nothing goes on; every call it makes has a  *)
(* timeout.                                                                *)
Spec == Init /\ [][Next]_vars /\ WF_vars(Next)

-----------------------------------------------------------------------------
(* What the pipeline promises.                                             *)

(* The authoritative engine never changes where a job goes, whatever it    *)
(* knows about it: the signals the pipeline builds always lead back to the *)
(* intent of the classification, and above all a job is never moved to the *)
(* server.                                                                 *)
RouteIsKept == intent = wanted

(* The row as the last event described it. *)
RowOf(event) ==
    CASE event = "success" -> "completed"
      [] event \in {"failure", "refused"} -> "failed"
      [] event \in {"asked", "waiting"} -> "waiting"

(* How often the status is written before that event. *)
Writes(event) == IF event = "waiting" THEN 2 ELSE 1

(* A pipeline that returned has told the user how the job ended, once; the *)
(* row says the same unless a write was lost, or two of a job that waits   *)
(* for an approval (which the worker then marks completed while its driver *)
(* is parked); a job is parked on the bus exactly if the user was asked    *)
(* for an approval; and "success" is told only of a conversation, of files *)
(* that were edited, or of a program that ran (or was left in the          *)
(* background).  A pipeline that raised has told nothing, or asked a       *)
(* question nobody waits for.                                              *)
OutcomeIsTold ==
    stage = "ended" =>
        /\ ended = "returned" =>
              /\ Len(told) = 1
              /\ told[1] # "asked"
              /\ lost < Writes(told[1]) => row = RowOf(told[1])
              /\ parked <=> told[1] = "waiting"
              /\ told[1] = "success" => intent = "chat" \/ source = "patch" \/ healed
        /\ ended = "raised" => told \in {<<>>, <<"asked">>} /\ ~parked

(* What is executed again is executed for a reason and not for ever: a     *)
(* step whose tool failed, a program that was fixed in a new way.          *)
TriesAreBounded == RetriesAreJustified /\ HealingIsBounded

(* Every job the worker runs comes to its mark. *)
RunsEnd == <>(stage = "marked")
=============================================================================
