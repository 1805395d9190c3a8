------------------------- MODULE WorkspaceLifecycle -------------------------
(***************************************************************************)
(* What a user does to a server, to the workspaces on it and to the GitHub *)
(* connections they are cloned with.  A workspace is a row of workspaces,  *)
(* a directory on the server and, when it comes from GitHub, a link to a   *)
(* row of github_connections: one of its own with an App, one the user has *)
(* made with an SSH key.  Nothing spans the three: an operation is a list  *)
(* of steps that a CompensationLedger runs, and when a step fails the      *)
(* ledger undoes the steps before it, the last one first.  Every step is a *)
(* query or a command over SSH that is awaited, so that operations         *)
(* interleave between any two steps.                                       *)
(*                                                                         *)
(* There is one user with one server, one key and one installation of the  *)
(* App, and all workspaces have the same name.                             *)
(***************************************************************************)
EXTENDS Naturals, Sequences, FiniteSets

CONSTANTS
    Workspaces,  \* workspaces, one for each id that is ever made up
    App,         \* those that are cloned through a GitHub App
    Ssh,         \* those that are cloned with the user's key
    Existing,    \* those that may be there at the beginning
    Ops,         \* operations, each called once
    Kind,        \* Kind[o]: which operation it is
    Target,      \* Target[o]: the workspace it is about
    MaxOps,      \* bound on the operations that begin
    FaultKinds,  \* ways in which a query or a command may fail
    MaxTrouble,  \* bound on the kinds of failures and the restarts
    MaxCrashes   \* bound on restarts of the server

(* prompt: a workspace the agent makes for a job that names none; connect, *)
(* abandon: create and delete the server; register, forget: the connection *)
(* with the key (a forget may also be about the connection of an App).     *)
Kinds == {"create", "prompt", "delete", "disconnect",
          "connect", "abandon", "register", "forget"}

(* refused: nothing is done, the caller gets an error; lost: it is done,   *)
(* but the caller gets an error; silent: nothing is done and the caller    *)
(* gets no error; stuck: a step cannot be undone.                          *)
AllFaults == {"refused", "lost", "silent", "stuck"}

ASSUME WorkspacesAssumption ==
    App \subseteq Workspaces /\ Ssh \subseteq Workspaces \ App /\ Existing \subseteq Workspaces
ASSUME OpsAssumption == Kind \in [Ops -> Kinds] /\ Target \in [Ops -> Workspaces]
(* An id is made up once: a workspace is made by one operation and was not *)
(* there before it, and one operation connects the server.                 *)
ASSUME FreshAssumption ==
    /\ \A o, p \in Ops : Kind[o] \in {"create", "prompt"} /\ Kind[p] \in {"create", "prompt"}
                            /\ Target[o] = Target[p] => o = p
    /\ \A o \in Ops : Kind[o] \in {"create", "prompt"} => Target[o] \notin Existing
    /\ \A o, p \in Ops : Kind[o] = "connect" /\ Kind[p] = "connect" => o = p
ASSUME FaultsAssumption ==
    FaultKinds \subseteq AllFaults /\ MaxTrouble \in Nat /\ MaxCrashes \in Nat /\ MaxOps \in Nat

VARIABLES
    row,       \* workspaces: none, plain, linked to its App connection, or
               \* keyed: linked to the connection with the key
    conn,      \* github_connections: the App connection is there
    dir,       \* the directory is there
    server,    \* the row of the server: none, there or gone
    key,       \* the row of the connection with the key: none, there or gone
    phase, at, \* an operation: what it is doing, at which step of its plan
    link,      \* the row it creates, or the row that it found
    faults,    \* the kinds of failures there have been
    crashes

world == <<row, conn, dir, server, key>>
vars == <<world, phase, at, link, faults, crashes>>

Rows == {"none", "plain", "linked", "keyed"}
Lives == {"none", "there", "gone"}
Closed == {"ok", "failed", "refused", "cut"}
Phases == {"idle", "running", "undoing"} \cup Closed

RowOf(w) == CASE w \in App -> "linked" [] w \in Ssh -> "keyed" [] OTHER -> "plain"

(* A user with or without a server, a key and workspaces.  A linked or     *)
(* keyed one is what a restart has left of a create during the clone.      *)
Init ==
    /\ server \in {"none", "there"}
    /\ key \in {"none", "there"}
    /\ \E there \in SUBSET Existing :
        /\ there # {} => server = "there" /\ (there \cap Ssh # {} => key = "there")
        /\ row = [w \in Workspaces |-> IF w \in there THEN RowOf(w) ELSE "none"]
        /\ conn = [w \in Workspaces |-> w \in there \cap App]
        /\ dir = [w \in Workspaces |-> w \in there]
    /\ phase = [o \in Ops |-> "idle"]
    /\ at = [o \in Ops |-> 0]
    /\ link = [o \in Ops |-> "none"]
    /\ faults = {}
    /\ crashes = 0

-----------------------------------------------------------------------------
(* The plans.  The cleanup of a connection is one step of the ledger with  *)
(* two queries.                                                            *)

(* Mutant: the row comes before the directory. *)
CreateRowFirst(l) ==
    CASE l = "linked" -> <<"addConn", "addRow", "mkdir", "clone">>
      [] l = "keyed" -> <<"addRow", "mkdir", "clone">>
      [] OTHER -> <<"addRow", "mkdir">>

CreatePlan(l) ==
    CASE l = "linked" -> <<"mkdir", "addConn", "addRow", "clone">>
      [] l = "keyed" -> <<"mkdir", "addRow", "clone">>
      [] OTHER -> <<"mkdir", "addRow">>

(* The directory is made once more, and nobody asks whether it worked. *)
PromptPlan == <<"mkdir", "addRow", "ensure">>

DeletePlan(l) ==
    IF l = "linked" THEN <<"dropRow", "rmdir", "lookRefs", "dropConn">> ELSE <<"dropRow", "rmdir">>

DisconnectPlan(l) ==
    IF l = "linked" THEN <<"unlink", "lookRefs", "dropConn">> ELSE <<"unlink">>

ConnectPlan == <<"probe", "addServer">>
AbandonPlan == <<"dropServer">>
RegisterPlan == <<"makeKey", "addKey">>
ForgetPlan(w) == IF w \in App THEN <<"dropConn">> ELSE <<"dropKey">>

Plan(o) ==
    CASE Kind[o] = "create" -> CreatePlan(link[o])
      [] Kind[o] = "prompt" -> PromptPlan
      [] Kind[o] = "delete" -> DeletePlan(link[o])
      [] Kind[o] = "disconnect" -> DisconnectPlan(link[o])
      [] Kind[o] = "connect" -> ConnectPlan
      [] Kind[o] = "abandon" -> AbandonPlan
      [] Kind[o] = "register" -> RegisterPlan
      [] Kind[o] = "forget" -> ForgetPlan(Target[o])

(* Mutant: the connection that a create has made is not undone. *)
InverseButConn(step) ==
    CASE step = "mkdir" -> "rmdir"
      [] step = "addRow" -> "dropRow"
      [] step = "dropRow" -> "addRow"
      [] step = "unlink" -> "relink"
      [] OTHER -> "nothing"

(* What compensates a step. *)
Inverse(step) ==
    CASE step = "mkdir" -> "rmdir"
      [] step = "addConn" -> "dropConn"
      [] step = "addRow" -> "dropRow"
      [] step = "dropRow" -> "addRow"
      [] step = "unlink" -> "relink"
      [] OTHER -> "nothing"

(* The unique indexes on the name of a workspace and on that of an App     *)
(* connection, which is the installation's, and the foreign keys of the    *)
(* server and of the link.                                                 *)
Permitted(step, o) ==
    LET w == Target[o] IN
    /\ step = "addRow" => server = "there" /\ \A v \in Workspaces : row[v] = "none"
    /\ step = "addConn" => \A v \in Workspaces : ~conn[v]
    /\ step = "addRow" \/ (step = "relink" /\ row[w] # "none") =>
          (link[o] = "linked" => conn[w]) /\ (link[o] = "keyed" => key = "there")

(* A row that loses its connection becomes plain (ON DELETE SET NULL), one *)
(* that loses its server goes with it (ON DELETE CASCADE).                 *)
RowAfter(step, o, w) ==
    LET r == row[w] own == w = Target[o] IN
    CASE step = "addRow" /\ own -> link[o]
      [] (step = "dropRow" /\ own) \/ step = "dropServer" -> "none"
      [] step \in {"unlink", "dropConn"} /\ own /\ r = "linked" -> "plain"
      [] step = "unlink" /\ own /\ r = "keyed" -> "plain"
      [] step = "dropKey" /\ r = "keyed" -> "plain"
      [] step = "relink" /\ own /\ r # "none" -> link[o]
      [] OTHER -> r

Effect(step, o) ==
    LET w == Target[o] IN
    /\ row' = [v \in Workspaces |-> RowAfter(step, o, v)]
    /\ conn' = [conn EXCEPT ![w] = step = "addConn" \/ (@ /\ step # "dropConn")]
    /\ dir' = [dir EXCEPT ![w] = step \in {"mkdir", "ensure", "clone"} \/ (@ /\ step # "rmdir")]
    /\ server' = CASE step = "addServer" -> "there" [] step = "dropServer" -> "gone" [] OTHER -> server
    /\ key' = CASE step = "addKey" -> "there" [] step = "dropKey" -> "gone" [] OTHER -> key

(* A deletion looks the server up when it is about to remove the           *)
(* directory, and so does what makes it once more; both pass over a server *)
(* that is not found.                                                      *)
Skips(step, o) ==
    /\ step = "ensure" \/ (step = "rmdir" /\ Kind[o] = "delete")
    /\ server # "there"

-----------------------------------------------------------------------------
(* What an operation looks up first: the row of the server, of the         *)
(* workspace or of the connection.  The slug a workspace is looked up by   *)
(* is one that only old rows have, so that one whose name is taken is not  *)
(* found but refused, by the agent too.                                    *)
NameIsFree == \A w \in Workspaces : row[w] = "none"
Listed(w) == row[w] # "none"
ServerFound == server = "there"
Connected(w) == IF w \in App THEN conn[w] ELSE key = "there"

Valid(o) ==
    LET w == Target[o] IN
    CASE Kind[o] \in {"create", "prompt"} -> ServerFound /\ NameIsFree
      [] Kind[o] \in {"delete", "disconnect"} -> Listed(w)
      [] Kind[o] = "abandon" -> ServerFound
      [] Kind[o] = "forget" -> Connected(w)
      [] Kind[o] = "connect" -> server = "none"
      [] Kind[o] = "register" -> key = "none"

Begin(o) ==
    LET w == Target[o]
        l == CASE Kind[o] = "create" -> RowOf(w) [] Kind[o] = "prompt" -> "plain" [] OTHER -> row[w]
    IN  /\ phase[o] = "idle"
        /\ Cardinality({p \in Ops : phase[p] # "idle"}) < MaxOps
        /\ phase' = [phase EXCEPT ![o] = IF Valid(o) THEN "running" ELSE "refused"]
        /\ at' = [at EXCEPT ![o] = 1]
        /\ link' = [link EXCEPT ![o] = l]
        /\ UNCHANGED <<world, faults, crashes>>

Running(o) == phase[o] = "running"
Step(o) == Plan(o)[at[o]]

(* A connection that a row is linked to is kept: the cleanup ends. *)
NextStep(o) == IF Step(o) = "lookRefs" /\ row[Target[o]] = "linked" THEN at[o] + 2 ELSE at[o] + 1

(* The ledger goes on to the next step; after the last one it is done. *)
Continue(o) ==
    /\ at' = [at EXCEPT ![o] = NextStep(o)]
    /\ phase' = [phase EXCEPT ![o] = IF NextStep(o) > Len(Plan(o)) THEN "ok" ELSE "running"]
    /\ UNCHANGED link

(* The ledger turns back, to the step before the one that failed. *)
TurnTo(o, n) ==
    /\ at' = [at EXCEPT ![o] = n]
    /\ phase' = [phase EXCEPT ![o] = IF n = 0 THEN "failed" ELSE "undoing"]
    /\ UNCHANGED link

Do(o) ==
    /\ Running(o)
    /\ Step(o) # "clone"
    /\ Permitted(Step(o), o)
    /\ IF Skips(Step(o), o) THEN UNCHANGED world ELSE Effect(Step(o), o)
    /\ Continue(o)
    /\ UNCHANGED <<faults, crashes>>

(* The database refuses the row. *)
Forbidden(o) ==
    /\ Running(o)
    /\ ~Permitted(Step(o), o)
    /\ TurnTo(o, at[o] - 1)
    /\ UNCHANGED <<world, faults, crashes>>

(* The clone makes the directory once more and waits for an archive on the *)
(* standard input of the remote tar.  Nothing writes it there, and the     *)
(* step fails.                                                             *)
Ship(o) ==
    /\ Running(o)
    /\ Step(o) = "clone"
    /\ link[o] = "linked"
    /\ Effect("clone", o)
    /\ TurnTo(o, at[o] - 1)
    /\ UNCHANGED <<faults, crashes>>

(* The same with the key, which is looked up first. *)
ShipWithKey(o) ==
    /\ Running(o)
    /\ Step(o) = "clone"
    /\ link[o] = "keyed"
    /\ IF key = "there" THEN Effect("clone", o) ELSE UNCHANGED world
    /\ TurnTo(o, at[o] - 1)
    /\ UNCHANGED <<faults, crashes>>

(* A server that cannot be reached with what the user has given. *)
Unreachable(o) ==
    /\ Running(o)
    /\ Step(o) = "probe"
    /\ TurnTo(o, 0)
    /\ UNCHANGED <<world, faults, crashes>>

(* A key that ssh-keygen does not make. *)
KeyNotMade(o) ==
    /\ Running(o)
    /\ Step(o) = "makeKey"
    /\ TurnTo(o, 0)
    /\ UNCHANGED <<world, faults, crashes>>

Fault(kind) ==
    /\ kind \in FaultKinds
    /\ Cardinality(faults \cup {kind}) + crashes <= MaxTrouble
    /\ faults' = faults \cup {kind}
    /\ UNCHANGED crashes

(* Nobody asks whether the last step of a prompt worked. *)
Heeded(step) == step # "ensure"

Refused(o) ==
    /\ Running(o)
    /\ Heeded(Step(o))
    /\ Fault("refused")
    /\ TurnTo(o, at[o] - 1)
    /\ UNCHANGED world

(* The answer is lost: the ledger does not count the step as executed. *)
Lost(o) ==
    /\ Running(o)
    /\ Heeded(Step(o))
    /\ Fault("lost")
    /\ Permitted(Step(o), o)
    /\ IF Skips(Step(o), o) THEN UNCHANGED world ELSE Effect(Step(o), o)
    /\ TurnTo(o, at[o] - 1)

(* SSHService.execute does not raise on an exit code, and a server that is *)
(* not found is passed over.                                               *)
Silent(o) ==
    /\ Running(o)
    /\ Step(o) \in {"mkdir", "ensure", "rmdir"}
    /\ Fault("silent")
    /\ Continue(o)
    /\ UNCHANGED world

(* _compensate: a step that the database refuses to undo is passed over.   *)
Undo(o) ==
    LET step == Inverse(Step(o)) IN
    /\ phase[o] = "undoing"
    /\ IF Permitted(step, o) THEN Effect(step, o) ELSE UNCHANGED world
    /\ TurnTo(o, at[o] - 1)
    /\ UNCHANGED <<faults, crashes>>

Stuck(o) ==
    /\ phase[o] = "undoing"
    /\ Inverse(Step(o)) # "nothing"
    /\ Fault("stuck")
    /\ TurnTo(o, at[o] - 1)
    /\ UNCHANGED world

Open == {o \in Ops : phase[o] \in {"running", "undoing"}}

Crash ==
    /\ crashes < MaxCrashes
    /\ Cardinality(faults) + crashes < MaxTrouble
    /\ crashes' = crashes + 1
    /\ phase' = [o \in Ops |-> IF o \in Open THEN "cut" ELSE phase[o]]
    /\ UNCHANGED <<world, at, link, faults>>

-----------------------------------------------------------------------------
Ledger(o) ==
    \/ Do(o) \/ Forbidden(o) \/ Undo(o)
    \/ Ship(o) \/ ShipWithKey(o) \/ Unreachable(o) \/ KeyNotMade(o)
Failure(o) == Refused(o) \/ Lost(o) \/ Silent(o) \/ Stuck(o)

Next ==
    \/ \E o \in Ops : Begin(o) \/ Ledger(o) \/ Failure(o)
    \/ Crash

Spec == Init /\ [][Next]_vars

-----------------------------------------------------------------------------
(* Safety.                                                                 *)
(* The types of the state; an operation never leaves its plan. *)
TypeOK ==
    /\ row \in [Workspaces -> Rows]
    /\ conn \in [Workspaces -> BOOLEAN]
    /\ dir \in [Workspaces -> BOOLEAN]
    /\ server \in Lives /\ key \in Lives
    /\ phase \in [Ops -> Phases]
    /\ at \in [Ops -> Nat]
    /\ link \in [Ops -> Rows]
    /\ \A o \in Ops : at[o] <= Len(Plan(o)) + 1
    /\ faults \subseteq FaultKinds
    /\ crashes \in 0..MaxCrashes

Answered(kind, answer, w) ==
    \E o \in Ops : Kind[o] = kind /\ Target[o] = w /\ phase[o] = answer

(* Nothing but creates has begun on w, and failures were clean. *)
OnlyCreated(w) ==
    /\ faults \subseteq {"refused"}
    /\ \A o \in Ops : Target[o] = w /\ phase[o] # "idle" => Kind[o] = "create"

(* A workspace that is listed has its directory at every moment of its     *)
(* create and of the undoing of it, restarts included.                     *)
RowHasDir == \A w \in Workspaces : OnlyCreated(w) /\ row[w] # "none" => dir[w]

(* A create that fails leaves nothing behind, whatever happens to the      *)
(* workspace whose name it wanted.                                         *)
CreateAllOrNothing ==
    \A w \in Workspaces :
        OnlyCreated(w) /\ Answered("create", "failed", w)
            => row[w] = "none" /\ ~conn[w] /\ ~dir[w]

(* When no operation is in progress and nothing has failed, the rows of    *)
(* workspaces, connections, server and key and the directories agree, and  *)
(* what was confirmed as deleted is not listed, however the operations     *)
(* have met.  Two things are left over and said here: a prompt whose       *)
(* workspace is deleted before it ends makes the directory again, and a    *)
(* server that is given up takes the rows of its workspaces, not their     *)
(* directories and App connections.                                        *)
Consistent ==
    Open = {} /\ faults = {} /\ crashes = 0 => \A w \in Workspaces :
        /\ row[w] # "none" => server = "there" /\ dir[w]
        /\ server # "gone" /\ dir[w] => row[w] # "none" \/ Answered("prompt", "ok", w)
        /\ row[w] = "linked" => conn[w]
        /\ server # "gone" /\ conn[w] => row[w] = "linked"
        /\ row[w] = "keyed" => key = "there"
        /\ Answered("delete", "ok", w) => row[w] = "none"
=============================================================================
