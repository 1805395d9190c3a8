----------------------------- MODULE CodeWriter -----------------------------
(***************************************************************************)
(* _run_code_execution up to the moment its program is there: permission   *)
(* and workspace, the report of the implementation intelligence, the       *)
(* template of the old way, the edit of an existing project, or a program  *)
(* from the model.  Every program is looked at, written file by file and   *)
(* compiled; one from the report that does not pass makes way for the next *)
(* way, and leaves its files behind.                                       *)
(*                                                                         *)
(* What raises (a write that fails, a model that gives nothing) is up to   *)
(* the caller, which has one handler for all of it.                        *)
(***************************************************************************)
EXTENDS TemplateChoice

VARIABLES
    coding,     \* how far the job is
    reported,   \* decide_strategy returned
    choice,     \* the templates of the report and of the old way
    author,     \* where the program comes from
    left,       \* files still to be written
    disk        \* who wrote each file of the workspace

codeVars == <<coding, reported, choice, author, left, disk>>

-----------------------------------------------------------------------------
CodePhases ==
    {"permission", "workspace", "strategy", "validate", "write", "compile",
     "context", "edit", "generate", "regenerate",
     "refused", "edited", "ready"}

Authors == {"none", "report", "template", "llm"}

Files == {"main.py", "requirements.txt"}

NoChoice == [report |-> "none", first |-> "none"]

(* An implementation: where it comes from and its template. *)
By(a) ==
    <<a, CASE a = "report" -> choice.report
           [] a = "template" -> choice.first
           [] OTHER -> "none">>

Before == <<"none", "none">>

CodeTypeOK ==
    /\ coding \in CodePhases
    /\ reported \in BOOLEAN
    /\ choice \in [report : Templates \cup {"none"}, first : Templates \cup {"none"}]
    /\ author \in Authors
    /\ left \subseteq Files
    /\ disk \in [Files -> Authors \X (Templates \cup {"none"})]

CodeInit ==
    /\ coding = "permission"
    /\ reported = FALSE
    /\ choice = NoChoice
    /\ author = "none"
    /\ left = {}
    /\ disk = [f \in Files |-> Before]

-----------------------------------------------------------------------------
Enter(next) ==
    /\ coding' = next
    /\ UNCHANGED <<reported, choice, author, left, disk>>

CheckPermission ==
    /\ coding = "permission"
    /\ Enter("workspace") \/ Enter("refused")

(* It is looked up or created; its path has the form that is checked. *)
PrepareWorkspace == coding = "workspace" /\ Enter("strategy")

(* The next way: a template if one matches, else the model. *)
Turn(c) ==
    /\ author' = IF c.first # "none" THEN "template" ELSE "llm"
    /\ coding' = IF c.first # "none" THEN "validate" ELSE "context"

(* A report that cannot be had is as good as one without files. *)
DecideStrategy(c, works) ==
    /\ coding = "strategy"
    /\ reported' = works
    /\ choice' = c
    /\ \/ /\ works /\ c.report # "none"
          /\ author' = "report" /\ coding' = "validate"
       \/ /\ works => c.report = "none"
          /\ Turn(c)
    /\ UNCHANGED <<left, disk>>

(* Only the report has a way out. *)
Reject ==
    IF author = "report" THEN Turn(choice)
    ELSE coding' = "refused" /\ UNCHANGED author

FilesBy(a) ==
    CASE a = "report" -> FilesOf(choice.report)
      [] a = "template" -> FilesOf(choice.first)
      [] OTHER -> {"main.py"}

(* validate_code, of main.py alone; the other files are not looked at.     *)
ValidateCode ==
    /\ coding = "validate"
    /\ \/ coding' = "write" /\ left' = FilesBy(author) /\ UNCHANGED author
       \/ Reject /\ UNCHANGED left
    /\ UNCHANGED <<reported, choice, disk>>

(* main.py is the first file of every template. *)
WriteProjectFile(f) ==
    /\ coding = "write"
    /\ f \in left
    /\ "main.py" \in left => f = "main.py"
    /\ disk' = [disk EXCEPT ![f] = By(author)]
    /\ left' = left \ {f}
    /\ coding' = IF left = {f} THEN "compile" ELSE "write"
    /\ UNCHANGED <<reported, choice, author>>

(* validate_python_syntax *)
Compile ==
    /\ coding = "compile"
    /\ \/ coding' = "ready" /\ UNCHANGED author
       \/ Reject
    /\ UNCHANGED <<reported, choice, left, disk>>

(* Files that fit the objective make it an edit. *)
BuildContext ==
    /\ coding = "context"
    /\ Enter("edit") \/ Enter("generate")

(* run_safe_patch_edit and the writes of what it changed (PatchEditor).    *)
EditProject ==
    /\ coding = "edit"
    /\ Enter("edited") \/ Enter("refused")

(* validate_code_output: only a bot for Telegram can fail, for what the     *)
(* present version of the library has dropped or now needs.                *)
Presentable(bot, current) == bot => current

(* generate_code_response: an answer that fails its check is asked for     *)
(* once more, and whatever comes is taken.                                 *)
GenerateCode ==
    /\ coding = "generate"
    /\ \E bot, current \in BOOLEAN :
          Enter(IF Presentable(bot, current) THEN "validate" ELSE "regenerate")

RegenerateOnError == coding = "regenerate" /\ Enter("validate")

(* Whoever wrote a program, it is looked at, written and compiled. *)
Guardrails ==
    \/ ValidateCode
    \/ \E f \in Files : WriteProjectFile(f)
    \/ Compile

(* The three ways to a program. *)
FromReport == author = "report" /\ Guardrails

FromTemplate == author = "template" /\ Guardrails

FromModel ==
    /\ author = "llm"
    /\ BuildContext \/ EditProject \/ GenerateCode \/ RegenerateOnError \/ Guardrails

CodeStep ==
    \/ CheckPermission
    \/ PrepareWorkspace
    \/ \E c \in Choices, works \in BOOLEAN : DecideStrategy(c, works)
    \/ FromReport
    \/ FromTemplate
    \/ FromModel

-----------------------------------------------------------------------------
(* A program that may be run is of one piece: each file this job has       *)
(* written belongs to the implementation that main.py is from, although a  *)
(* report that was given up has written files before.                      *)
ProgramIsWhole ==
    coding = "ready" =>
        /\ disk["main.py"] = By(author)
        /\ \A f \in Files : disk[f] \in {Before, By(author)}
=============================================================================
