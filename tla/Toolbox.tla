------------------------------ MODULE Toolbox ------------------------------
(***************************************************************************)
(* The tools of an agent (tools.py) and the SSH service under them.        *)
(* execute_tool checks a call, the tool sends a script to the user's       *)
(* server and waits for its exit code, and the code becomes the result of  *)
(* a step.  A program takes a chain of scripts (universal_execute_python). *)
(* The workspace is one file the tools edit, one .env and, if it is a      *)
(* repository, what is committed; what a call asks for is a record, an     *)
(* order.                                                                  *)
(*                                                                         *)
(* A script goes on when its caller has given up on it.  Commands are told *)
(* apart by what the guards and the classification of exit codes make of   *)
(* them.  The .env is ignored by git, adding and committing are one write, *)
(* and the repository is private, on a server that is not the backend's.   *)
(* Outputs, redaction and the run log are left out.                        *)
(***************************************************************************)
EXTENDS TextPatches

CONSTANTS
    Jobs,
    Orders,      \* the calls each job may make
    Disk,        \* the workspace to begin with: its file, env and head
    MaxCalls,    \* bound on the calls of all the jobs
    MaxFaults    \* bound on the faults; no kind comes twice

ASSUME ToolboxAssumption ==
    /\ MaxCalls \in Nat /\ MaxFaults \in Nat
    /\ Disk = [file |-> Disk.file, env |-> Disk.env, head |-> Disk.head]
    /\ \A b, c \in Disk.file : b = c
    /\ \A b, c \in Disk.head : b = c
    /\ \A j \in Jobs : \A o \in Orders[j] : o.mode \in {"launch", "run"}

VARIABLES
    disk,      \* file, head: {} or {content}; env: the keys of .env
    doing,     \* what each job does
    order,     \* the call it has made
    calls,     \* how many calls there have been
    scripts,   \* the scripts on the server
    run,       \* of the program it runs: the code that was started, and success
    last,      \* the result of its last call, if that was a program
    faults,    \* which kinds of faults there have been
    owed,      \* what the workspace may be if every answer is true
    met        \* a call has met another one, or a script that was given up

client == <<doing, order, calls, run, last>>
toolVars == <<disk, client, scripts, faults, owed, met>>

-----------------------------------------------------------------------------
(* Orders.  A command is of a kind:                                        *)
(*   inspect, probe    grep, find ...; curl, wget                          *)
(*   redirect          a write the tool confirms by itself                 *)
(*   restart, remove   systemctl restart; rm                               *)
(*   blocked           what no confirmation lets pass                      *)
(* For git: a reset is hard or odd, a pull may be odd, a clean forced, and *)
(* a transport has the key of a user (ssh) or the token of an app.         *)
(* The path of the workspace is inside of the root of all workspaces, not  *)
(* in it, or a link that leads out of it.                                  *)
CommandTools == {"run_command", "deploy_app"}
EnvTools == {"config_set", "write_secret"}
WriteTools == {"write_file", "patch_file"} \cup EnvTools
PlainTools == {"check_disk", "check_memory", "read_logs", "restart_service",
               "list_files", "read_file", "list_processes"}
Disabled == {"deploy_nextjs_app"}
GitTools == {"git_status", "git_commit", "git_restore", "git_reset", "git_clean"}
GithubTools == {"github_pull", "github_push"}
ToolNames == CommandTools \cup WriteTools \cup PlainTools \cup Disabled
               \cup GitTools \cup GithubTools
Program == "program"   \* universal_execute_python; not a tool of a plan
FirstScript == "mkdir"

(* _classify_command_risk: what it does not know is dangerous. *)
Risk(kind) == IF kind = "restart" THEN "moderate" ELSE "dangerous"
IsWriteOp(kind) == kind = "redirect"

(* _validate_command. *)
Passes(kind, confirm) ==
    /\ kind # "blocked"
    /\ Risk(kind) = "dangerous" => confirm

Confirmed(o) == o.confirm \/ IsWriteOp(o.kind)

(* deploy_app confirms nothing by itself. *)
DeployPasses(o) == Passes(o.kind, o.confirm)

(* _scope_workspace_command, as far as it can tell from the words.         *)
InScope(o) == o.path # "outside"

(* _validate_env_key. *)
KeyFits(key) == key # "PATH"

MayWrite(o) == o.tool \in WriteTools => o.write

(* What the tool checks before it sends anything. *)
Accepts(o) ==
    /\ o.tool \in ToolNames \ Disabled
    /\ o.complete
    /\ InScope(o)
    /\ MayWrite(o)
    /\ o.tool = "write_file" => ~o.large
    /\ o.tool \in EnvTools => KeyFits(o.key)
    /\ o.tool = "run_command" => Passes(o.kind, Confirmed(o))
    /\ o.tool = "deploy_app" => DeployPasses(o)
    \* the tail of a file is a command read_logs does not know
    /\ o.tool = "read_logs" => o.kind # "path"

(* classify_command and _tool_command_type. *)
CommandType(o) ==
    CASE o.tool \in {"check_disk", "check_memory", "read_logs"} -> "CHECK"
      [] o.tool = "run_command" /\ o.kind = "inspect" -> "CHECK"
      [] o.tool = "run_command" /\ o.kind = "probe" -> "VERIFY"
      [] OTHER -> "ACTION"

(* command_success. *)
CommandSuccess(type, code) == IF type = "CHECK" THEN code \in {0, 1} ELSE code = 0

InRepo(o) == o.tool \in GitTools \cup GithubTools

(* A pull or push with a key runs git on the backend, where the directory  *)
(* of the workspace is not.                                                *)
FindsDirectory(o) == o.kind # "ssh"

PullPasses(o) == o.kind # "odd" /\ FindsDirectory(o)
PushPasses(o) == o.write /\ FindsDirectory(o)

(* What the tools for git check once they have seen a repository. *)
Carries(o) ==
    /\ o.tool = "git_reset" => o.kind # "odd"
    /\ o.tool = "github_pull" => PullPasses(o)
    /\ o.tool = "github_push" => PushPasses(o)

-----------------------------------------------------------------------------
(* What a script is about: the exit code, what it writes and where.        *)
Nothing(code) == [code |-> code, on |-> "nothing", value |-> {}]
Started(code) == [code |-> code, on |-> "nothing", value |-> disk.file]
Write(on, value) == [code |-> 0, on |-> on, value |-> value]

(* Mutant: of several places the first one will do. *)
PatchFirstPlace(o) ==
    IF \E c \in disk.file : Count(c, o.patch.target) >= 1
      THEN {Write("file", {Patched(c, o.patch) : c \in disk.file})}
      ELSE {Nothing(1)}

PatchScript(o) ==
    IF \E c \in disk.file : Count(c, o.patch.target) = 1
      THEN {Write("file", {Patched(c, o.patch) : c \in disk.file})}
      ELSE {Nothing(1)}

(* The script of set_env: a line of another key is a TypeError. *)
EnvScript(o) ==
    IF disk.env \subseteq {o.key} THEN {Write("env", {o.key})} ELSE {Nothing(1)}

(* Processes and what the server says of itself. *)
ReadScript == {Nothing(IF disk.file = {} THEN 1 ELSE 0)}
ListScript == {Nothing(0), Nothing(2)}
ProcessScript == {Nothing(0)}
DiagnosticScript == {Nothing(code) : code \in {0, 1}}

(* A program starts with what is in the file; what it needs is looked for, *)
(* and of what is missing one module counts.                               *)
LaunchScript == {Started(0)}
RunScript == {Started(code) : code \in {1} \cup (IF disk.file = {} THEN {} ELSE {0})}
ImportScript == {Nothing(code) : code \in {0, 1}}

CommandScript(o) ==
    CASE o.kind = "redirect" -> {Write("file", {o.content})}
      [] o.kind = "remove" -> IF disk.file = {} THEN {Nothing(1)} ELSE {Write("file", {})}
      [] o.kind = "inspect" -> {Nothing(code) : code \in 0..2}
      [] OTHER -> {Nothing(code) : code \in {0, 1}}

(* Without GIT_OK, or with nothing to commit, the code is 1. *)
RepoScript == {Nothing(0)} \cup (IF disk.head = {} THEN {Nothing(1)} ELSE {})
CommitScript == IF disk.file = disk.head THEN {Nothing(1)} ELSE {Write("head", disk.file)}
CheckoutScript(o) ==
    IF disk.head # {}
      THEN IF disk.file = disk.head THEN {Nothing(0)} ELSE {Write("file", disk.head)}
    ELSE {Nothing(1)} \cup (IF o.tool = "git_reset" THEN {Nothing(0)} ELSE {})

(* With a token git runs on the server, where neither the token nor the    *)
(* program that tells it is.                                               *)
TokenScript == {Nothing(1)}
Cleaned(d) == [file |-> IF d.head = {} THEN {} ELSE d.file, env |-> {}, head |-> d.head]
CleanScript(o) == IF o.kind = "force" THEN {Write("untracked", {})} ELSE {Nothing(0)}

(* A script is named after its tool, or after its place in a program. *)
InPlace(name, o) ==
    CASE name \in CommandTools -> CommandScript(o)
      [] name \in {"write_file", "write"} -> {Write("file", {o.content})}
      [] name = "patch_file" -> PatchScript(o)
      [] name = "read_file" -> ReadScript
      [] name = "list_files" -> ListScript
      [] name = "list_processes" -> ProcessScript
      [] name = "launch" -> LaunchScript
      [] name = "run" -> RunScript
      [] name = "import" -> ImportScript
      [] name \in EnvTools -> EnvScript(o)
      [] name = "test_repo" -> RepoScript
      [] name = "git_commit" -> CommitScript
      [] name = "git_restore" \/ (name = "git_reset" /\ o.kind = "hard") -> CheckoutScript(o)
      [] name = "git_clean" -> CleanScript(o)
      [] name \in GithubTools -> TokenScript
      [] OTHER -> DiagnosticScript

(* A script looks where it is before it does anything; only the directory  *)
(* of a program is made without.                                           *)
Script(name, o) ==
    IF o.path = "link" /\ name # FirstScript THEN {Nothing(13)} ELSE InPlace(name, o)

-----------------------------------------------------------------------------
(* A program: the script that follows an exit code.  What is not looked    *)
(* at does not matter; one module of the program may be missing.          *)
AfterWrite == "probe_pip"

(* Mutant: the program starts before its file is there. *)
NextScriptHastily(name, code, o) ==
    CASE name = "mkdir" -> o.mode
      [] name \in {"launch", "run"} -> "write"
      [] OTHER -> "tail"

NextScript(name, code, o) ==
    CASE name = "mkdir" -> IF o.large THEN AfterWrite ELSE "write"
      [] name = "write" -> AfterWrite
      [] name = "probe_pip" -> "find_pip"
      [] name = "find_pip" -> IF code = 0 THEN "find_reqs" ELSE "apt_update"
      [] name = "apt_update" -> "apt_install"
      [] name = "apt_install" -> "find_pip_again"
      [] name = "find_pip_again" -> IF code = 0 THEN "find_reqs" ELSE o.mode
      [] name = "find_reqs" -> IF code = 0 THEN "install_reqs" ELSE "import"
      [] name = "install_reqs" -> "import"
      [] name = "import" -> IF code = 0 THEN o.mode ELSE "install_module"
      [] name = "install_module" -> o.mode
      [] name \in {"launch", "run"} -> "tail"

ProgramScripts == {"mkdir", "write", "probe_pip", "find_pip", "apt_update", "apt_install",
    "find_pip_again", "find_reqs", "install_reqs", "import", "install_module",
    "launch", "run", "tail"}
ScriptNames == ProgramScripts \cup {"test_repo"} \cup (ToolNames \ Disabled)

-----------------------------------------------------------------------------
Kinds == {"connection", "timeout", "status", "death", "hang"}
Stages == {"sent", "ready", "cut", "done", "hung"}
NoCall == [tool |-> "none"]
NoResult == [order |-> NoCall, success |-> FALSE, ran |-> {}]

ToolTypeOK ==
    /\ DOMAIN disk = {"file", "env", "head"}
    /\ doing \in [Jobs -> {"idle"} \cup ScriptNames]
    /\ \A j \in Jobs : order[j] \in Orders[j] \cup {NoCall}
    /\ calls \in 0..MaxCalls
    /\ \A s \in scripts : s.by \in Jobs /\ s.stage \in Stages /\ s.name \in ScriptNames
    /\ faults \subseteq Kinds
    /\ met \in BOOLEAN

ToolInit ==
    /\ disk = Disk
    /\ doing = [j \in Jobs |-> "idle"]
    /\ order = [j \in Jobs |-> NoCall]
    /\ calls = 0
    /\ scripts = {}
    /\ run = [j \in Jobs |-> [ran |-> {}, success |-> FALSE]]
    /\ last = [j \in Jobs |-> NoResult]
    /\ faults = {} /\ owed = {Disk} /\ met = FALSE

Fault(kind) == /\ kind \notin faults /\ Cardinality(faults) < MaxFaults
               /\ faults' = faults \cup {kind}

Awaited(j) == {s \in scripts : s.by = j /\ s.awaited}
Unfinished == {s \in scripts : s.stage # "done"}

(* What an order that succeeds makes of a workspace. *)
Promise(o, d) ==
    CASE o.tool \in CommandTools /\ o.kind = "redirect" -> {[d EXCEPT !.file = {o.content}]}
      [] o.tool \in CommandTools /\ o.kind = "remove" -> {[d EXCEPT !.file = {}]}
      [] o.tool = "write_file" -> {[d EXCEPT !.file = {o.content}]}
      [] o.tool = Program ->
            IF o.large \/ o.path = "link" THEN {d} ELSE {[d EXCEPT !.file = {o.content}]}
      [] o.tool = "patch_file" ->
            {[d EXCEPT !.file = {Patched(c, o.patch)}] :
                c \in {x \in d.file : Count(x, o.patch.target) = 1}}
      [] o.tool \in {"config_set", "write_secret"} -> {[d EXCEPT !.env = @ \cup {o.key}]}
      [] o.tool = "git_commit" -> {[d EXCEPT !.head = d.file]}
      [] (o.tool = "git_restore" \/ (o.tool = "git_reset" /\ o.kind = "hard")) /\ d.head # {} ->
            {[d EXCEPT !.file = d.head]}
      [] o.tool = "git_clean" /\ o.kind = "force" -> {Cleaned(d)}
      [] OTHER -> {d}

(* The result of a call; a failure is sure if the server did not begin. *)
Return(j, o, success, sure, ran) ==
    LET kept == UNION {Promise(o, d) : d \in owed}
    IN /\ last' = [last EXCEPT ![j] = IF o.tool = Program
                      THEN [order |-> o, success |-> success, ran |-> ran] ELSE NoResult]
       /\ owed' = IF success THEN kept ELSE IF sure THEN owed ELSE owed \cup kept
       /\ doing' = [doing EXCEPT ![j] = "idle"]
       /\ order' = [order EXCEPT ![j] = NoCall]

Stay == UNCHANGED <<last, owed, order>>

-----------------------------------------------------------------------------
(* The client.  Nothing is awaited before the first command.               *)
Called(j) ==
    /\ doing[j] = "idle" /\ calls < MaxCalls
    /\ calls' = calls + 1
    /\ met' = (met \/ Unfinished # {} \/ \E k \in Jobs : doing[k] # "idle")
    /\ UNCHANGED <<disk, scripts, run, faults>>

(* Not for a server, or no such tool: a failure whatever the type. *)
Known(o) == o.tool = Program \/ (o.server /\ o.tool \in ToolNames)

Reject(j) ==
    /\ Called(j)
    /\ \E o \in Orders[j] : ~Known(o) /\ Return(j, o, FALSE, TRUE, {})

(* A guard of the tool answers for the server, with code 1. *)
Refuse(j) ==
    /\ Called(j)
    /\ \E o \in Orders[j] :
        /\ Known(o)
        /\ \/ o.tool # Program /\ ~Accepts(o)
              /\ Return(j, o, CommandSuccess(CommandType(o), 1), TRUE, {})
           \/ o.tool = Program /\ ~InScope(o) /\ Return(j, o, FALSE, TRUE, {})

BeginCall(j) ==
    /\ Called(j)
    /\ \E o \in Orders[j] :
        /\ Known(o) /\ IF o.tool = Program THEN InScope(o) ELSE Accepts(o)
        /\ order' = [order EXCEPT ![j] = o]
        /\ doing' = [doing EXCEPT ![j] = IF o.tool = Program THEN FirstScript
                                   ELSE IF InRepo(o) THEN "test_repo" ELSE o.tool]
    /\ UNCHANGED <<last, owed>>

(* SSHService.execute: a connection, and the command. *)
Send(j) ==
    /\ doing[j] \in ScriptNames /\ Awaited(j) = {} /\ ~order[j].plans
    /\ scripts' = scripts \cup
         {[by |-> j, name |-> doing[j], order |-> order[j], awaited |-> TRUE,
           stage |-> "sent", does |-> Nothing(1)]}
    /\ UNCHANGED <<disk, client, faults, owed, met>>

(* An exception: for a tool exit code 1, for a program the end. *)
GiveUp(j, sure) ==
    Return(j, order[j], order[j].tool # Program /\ CommandSuccess(CommandType(order[j]), 1), sure, {})

(* A job that only plans has no access to servers. *)
BlockedByMode(j) ==
    /\ doing[j] \in ScriptNames /\ order[j].plans
    /\ GiveUp(j, TRUE)
    /\ UNCHANGED <<disk, calls, scripts, run, faults, met>>

ConnectFails(j) ==
    /\ doing[j] \in ScriptNames /\ Awaited(j) = {}
    /\ Fault("connection")
    /\ GiveUp(j, doing[j] \notin ProgramScripts)
    /\ UNCHANGED <<disk, calls, scripts, run, met>>

(* The exit code of a script comes back. *)
Answered(j, s, code) ==
    IF s.name = "test_repo"
      THEN /\ IF code = 0 /\ Carries(order[j])
                THEN doing' = [doing EXCEPT ![j] = order[j].tool] /\ Stay
                ELSE Return(j, order[j], FALSE, TRUE, {})
           /\ UNCHANGED run
    ELSE IF order[j].tool # Program
      THEN Return(j, order[j], CommandSuccess(CommandType(order[j]), code), TRUE, {}) /\ UNCHANGED run
    ELSE IF s.name = "tail"
      THEN Return(j, order[j], run[j].success, FALSE, run[j].ran) /\ UNCHANGED run
      ELSE /\ run' = IF s.name \in {"launch", "run"}
                       THEN [run EXCEPT ![j] = [ran |-> s.does.value,
                               success |-> s.name = "launch" \/ code = 0]]
                       ELSE run
           /\ doing' = [doing EXCEPT ![j] = NextScript(s.name, code, order[j])]
           /\ Stay

Receive(j) ==
    /\ \E s \in Awaited(j) :
        /\ s.stage = "done"
        /\ Answered(j, s, s.does.code)
        /\ scripts' = scripts \ {s}
    /\ UNCHANGED <<disk, calls, faults, met>>

Abandon(s) == (scripts \ {s}) \cup (IF s.stage = "done" THEN {} ELSE {[s EXCEPT !.awaited = FALSE]})

(* The channel is closed without an exit status, which is taken for 0; of  *)
(* a repository only the output tells.                                     *)
LoseStatus(j) ==
    /\ Fault("status")
    /\ \E s \in Awaited(j) :
        /\ Answered(j, s, 0) \/ (s.name = "test_repo" /\ Answered(j, s, 1))
        /\ scripts' = Abandon(s)
    /\ UNCHANGED <<disk, calls, met>>

(* Mutant: the time is looked at when the server says something. *)
TimeOutOnOutput(j) ==
    /\ \E s \in Awaited(j) : s.stage # "hung" /\ Fault("timeout") /\ scripts' = Abandon(s)
    /\ GiveUp(j, FALSE)
    /\ UNCHANGED <<disk, calls, run, met>>

(* The time is up; the script goes on. *)
TimeOut(j) ==
    /\ \E s \in Awaited(j) :
        /\ IF s.stage = "hung" THEN UNCHANGED faults ELSE Fault("timeout")
        /\ scripts' = Abandon(s)
    /\ GiveUp(j, FALSE)
    /\ UNCHANGED <<disk, calls, run, met>>

(* A call of two scripts may also run out of its own time, thirty seconds  *)
(* more than that of one, at any point of the second.                      *)
OuterTimeOut(j) ==
    /\ InRepo(order[j]) /\ doing[j] \in GitTools \cup GithubTools
    /\ Fault("timeout")
    /\ scripts' = {s \in scripts : s \notin Awaited(j)} \cup
                    {[s EXCEPT !.awaited = FALSE] : s \in {x \in Awaited(j) : x.stage # "done"}}
    /\ GiveUp(j, FALSE)
    /\ UNCHANGED <<disk, calls, run, met>>

-----------------------------------------------------------------------------
(* The server.                                                             *)
Becomes(s, next) ==
    scripts' = (scripts \ {s}) \cup (IF next.stage = "done" /\ ~s.awaited THEN {} ELSE {next})

Look(s) ==
    /\ s.stage = "sent"
    /\ \E does \in Script(s.name, s.order) :
        Becomes(s, [s EXCEPT !.does = does,
                             !.stage = IF does.on = "nothing" THEN "done" ELSE "ready"])
    /\ UNCHANGED disk

(* A file is opened for writing, which empties it, and written; or removed. *)
Opened(does) ==
    CASE does.on = "env" -> [disk EXCEPT !.env = {}]
      [] does.on = "file" -> [disk EXCEPT !.file = IF does.value = {} THEN {} ELSE {<<>>}]
      [] does.on = "untracked" -> Cleaned(disk)
      [] does.on = "head" -> disk

Open(s) ==
    /\ s.stage = "ready"
    /\ disk' = Opened(s.does)
    /\ LET gone == s.does.on \in {"file", "untracked"} /\ s.does.value = {}
       IN Becomes(s, [s EXCEPT !.stage = IF gone THEN "done" ELSE "cut"])

Fill(s) ==
    /\ s.stage = "cut"
    /\ disk' = [disk EXCEPT ![s.does.on] = s.does.value]
    /\ Becomes(s, [s EXCEPT !.stage = "done"])

ScriptStep ==
    /\ \E s \in scripts : Look(s) \/ Open(s) \/ Fill(s)
    /\ UNCHANGED <<client, faults, owed, met>>

(* A full disk, or a restart of the server. *)
Die(s) ==
    /\ s.stage \in {"sent", "ready", "cut"} /\ Fault("death")
    /\ Becomes(s, [s EXCEPT !.stage = "done", !.does = [@ EXCEPT !.code = 1]])

Hang(s) ==
    /\ s.stage \in {"sent", "ready", "cut"} /\ Fault("hang")
    /\ Becomes(s, [s EXCEPT !.stage = "hung"])

ScriptFails ==
    /\ \E s \in scripts : Die(s) \/ Hang(s)
    /\ UNCHANGED <<disk, client, owed, met>>

-----------------------------------------------------------------------------
ClientStep(j) ==
    Send(j) \/ Receive(j) \/ TimeOut(j) \/ BlockedByMode(j)

ToolNext ==
    \/ \E j \in Jobs : \/ Reject(j) \/ Refuse(j) \/ BeginCall(j)
                       \/ ClientStep(j) \/ ConnectFails(j) \/ LoseStatus(j)
                       \/ OuterTimeOut(j)
    \/ ScriptStep \/ ScriptFails

ToolSpec == ToolInit /\ [][ToolNext]_toolVars

(* A coroutine goes on, a command of SSHService has a timeout, and the     *)
(* server runs what it was sent unless it hangs.                           *)
FairToolSpec == ToolSpec /\ (\A j \in Jobs : WF_toolVars(ClientStep(j))) /\ WF_toolVars(ScriptStep)

-----------------------------------------------------------------------------
Truthful == ~met /\ faults \cap {"death", "status"} = {}

(* When no call has met another one or a script it had been given up on,   *)
(* and no script died and no exit status was lost, the workspace is what   *)
(* the answers say: a success has done all it promises, a failure nothing, *)
(* and a call that timed out one or the other.  The executor relies on it  *)
(* when it tries a failed step again.                                      *)
WorkIsKept ==
    Truthful /\ Unfinished = {} /\ (\A j \in Jobs : doing[j] = "idle") => disk \in owed

(* Under the same premise, a program that is reported as started or as     *)
(* successful is the code the job was about, unless it was too large to be *)
(* written or the workspace has become a link that leads out of its root,  *)
(* although every exit code on the way to it is ignored.                   *)
RunsItsOwnCode ==
    \A j \in Jobs :
        LET r == last[j]
        IN Truthful /\ r.success /\ r.order.tool = Program /\ ~r.order.large /\ r.order.path = "inside"
             => r.ran = {r.order.content}

(* Every call comes to an end, whatever the server does. *)
CallsReturn == \A j \in Jobs : doing[j] # "idle" ~> doing[j] = "idle"
=============================================================================
