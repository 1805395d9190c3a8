-------------------------- MODULE EventWaitEngine --------------------------
(***************************************************************************)
(* Suspended jobs and the event bus that is meant to wake them.  The bus   *)
(* is four dictionaries of one process: the asyncio.Event of a registered  *)
(* wait, the first signal, the timeout task and the conversation.  A run   *)
(* of a job that needs an approval writes WAITING_FOR_USER, registers a    *)
(* wait on the bus of its own process and leaves a driver task behind,     *)
(* await_and_resume, parked on the Event.  HTTP handlers of the API        *)
(* server post signals on the bus of the API server.                       *)
(*                                                                         *)
(* An asyncio process switches tasks at an await only, so an action is the *)
(* code between two awaits.                                                *)
(*                                                                         *)
(* At this commit nothing fills jobs.conversation_id, the column the       *)
(* conversation is looked up by (Filled): verify_resume_safety fails for   *)
(* every job, no run is a resumed one, and continue_conversation gets no   *)
(* further than its CANCEL, RESTART and CLARIFY branches.                  *)
(***************************************************************************)
EXTENDS Naturals

CONSTANTS
    Jobs,       \* job ids
    Procs,      \* the processes whose workers run jobs
    Api,        \* those that serve HTTP
    None,
    MaxRuns,    \* bound on the runs of a job, and so on its registrations
    MaxEvents,  \* bound on the HTTP requests about suspended jobs
    MaxCrashes  \* bound on restarts of a process

ASSUME ProcsAssumption == Api \subseteq Procs /\ None \notin Procs
ASSUME BoundsAssumption == {MaxRuns, MaxEvents, MaxCrashes} \subseteq Nat

VARIABLES
    row,                    \* jobs.status
    runner, stage, runs,    \* the run of a job: its process, where it is,
                            \* how many waits it has registered
    waits, signals, timer,  \* the bus of a process, per job
    fired,                  \* the Events that are set
    host, driver, hears,    \* a driver: its process, where it is, its Event
    replies,                \* replies that are reading their context
    answering,              \* clarifications between their row and their signal
    events, crashes

runVars    == <<runner, stage, runs>>
busVars    == <<waits, signals, timer, fired>>
driverVars == <<host, driver, hears>>
replyVars  == <<replies, answering>>
vars == <<row, runVars, busVars, driverVars, replyVars, events, crashes>>

-----------------------------------------------------------------------------
Rows == {"queued", "running", "waiting", "resumed", "completed", "failed"}

(* The event types as await_and_resume tells them apart: APPROVAL_RECEIVED, *)
(* USER_REPLY, RESUME_REQUEST, CLARIFICATION_REPLY and any unknown string   *)
(* are "answer".                                                            *)
EventTypes == {"answer", "cancel", "timeout"}

(* What the words of a reply amount to: APPROVE and REJECT are "decide",   *)
(* CANCEL and RESTART, which finds no session to archive, are "cancel".    *)
Intents == {"continue", "decide", "cancel", "modify", "clarify"}

(* The n-th registration of a job makes its n-th asyncio.Event. *)
Registrations == 1..MaxRuns

(* "verifying", "closing": the driver has its signal and awaits the        *)
(* database, in verify_resume_safety or for the session of a conversation  *)
(* that was cancelled.                                                     *)
DriverStates == {"none", "spawned", "parked", "verifying", "closing", "ended"}

(* "claimed": the pipeline has not looked at the row yet; "saving": the    *)
(* cursor of a step that needs an approval is written.                     *)
Stages == {"idle", "claimed", "running", "saving", "pausing", "returned", "marking"}

TypeOK ==
    /\ row \in [Jobs -> Rows]
    /\ runner \in [Jobs -> Procs \cup {None}]
    /\ stage \in [Jobs -> Stages]
    /\ runs \in [Jobs -> 0..MaxRuns]
    /\ waits \in [Procs -> [Jobs -> 0..MaxRuns]]
    /\ signals \in [Procs -> [Jobs -> EventTypes \cup {None}]]
    /\ timer \in [Procs -> [Jobs -> BOOLEAN]]
    /\ fired \in [Jobs -> SUBSET Registrations]
    /\ host \in [Jobs -> [Registrations -> Procs \cup {None}]]
    /\ driver \in [Jobs -> [Registrations -> DriverStates]]
    /\ hears \in [Jobs -> [Registrations -> 0..MaxRuns]]
    /\ replies \subseteq Api \X Jobs \X Intents
    /\ answering \subseteq Api \X Jobs
    /\ events \in 0..MaxEvents
    /\ crashes \in 0..MaxCrashes

Init ==
    /\ row = [j \in Jobs |-> "queued"]
    /\ runner = [j \in Jobs |-> None]
    /\ stage = [j \in Jobs |-> "idle"]
    /\ runs = [j \in Jobs |-> 0]
    /\ waits = [p \in Procs |-> [j \in Jobs |-> 0]]
    /\ signals = [p \in Procs |-> [j \in Jobs |-> None]]
    /\ timer = [p \in Procs |-> [j \in Jobs |-> FALSE]]
    /\ fired = [j \in Jobs |-> {}]
    /\ host = [j \in Jobs |-> [n \in Registrations |-> None]]
    /\ driver = [j \in Jobs |-> [n \in Registrations |-> "none"]]
    /\ hears = [j \in Jobs |-> [n \in Registrations |-> 0]]
    /\ replies = {}
    /\ answering = {}
    /\ events = 0
    /\ crashes = 0

-----------------------------------------------------------------------------
(* The class methods of the engine, on the bus of process p.               *)

(* Mutant: the new wait starts without looking for an earlier signal. *)
RegisterForgetful(p, j, n) ==
    /\ waits' = [waits EXCEPT ![p][j] = n]
    /\ timer' = [timer EXCEPT ![p][j] = signals[p][j] = None]
    /\ UNCHANGED <<signals, fired>>

(* register: a signal that is already there sets the new Event at once. *)
Register(p, j, n) ==
    /\ waits' = [waits EXCEPT ![p][j] = n]
    /\ timer' = [timer EXCEPT ![p][j] = signals[p][j] = None]
    /\ fired' = IF signals[p][j] = None THEN fired ELSE [fired EXCEPT ![j] = @ \cup {n}]
    /\ UNCHANGED signals

(* Mutant: a signal takes its wait off the bus. *)
SignalUnregisters(p, j, type) ==
    /\ signals' = [signals EXCEPT ![p][j] = IF @ = None THEN type ELSE @]
    /\ waits' = [waits EXCEPT ![p][j] = 0]
    /\ timer' = [timer EXCEPT ![p][j] = FALSE]
    /\ UNCHANGED fired

(* signal: the first one is authoritative, each one sets the Event of the  *)
(* wait that is registered, if there is one.                               *)
Signal(p, j, type) ==
    /\ signals' = [signals EXCEPT ![p][j] = IF @ = None THEN type ELSE @]
    /\ IF waits[p][j] = 0
       THEN UNCHANGED <<fired, timer>>
       ELSE /\ fired' = [fired EXCEPT ![j] = @ \cup {waits[p][j]}]
            /\ timer' = [timer EXCEPT ![p][j] = FALSE]
    /\ UNCHANGED waits

(* The finally of wait: whatever wait is registered goes, and its timer. *)
Unregister(p, j) ==
    /\ waits' = [waits EXCEPT ![p][j] = 0]
    /\ timer' = [timer EXCEPT ![p][j] = FALSE]

Clear(p, j) == Unregister(p, j) /\ signals' = [signals EXCEPT ![p][j] = None]

-----------------------------------------------------------------------------
(* The run of a job, as far as the bus and the row see it.  One process    *)
(* runs a job at a time (WorkerService!SoleExecutor).                      *)

(* The columns of a row, among those a conversation needs, that any code   *)
(* fills.  create_job leaves all of them out.                              *)
Filled == {"plan", "execution_cursor", "interaction_state"}

(* load_resume_bundle finds the job by its conversation, and takes no      *)
(* RESUMED one.                                                            *)
LoadsResumeBundle(j) == "conversation_id" \in Filled /\ row[j] = "waiting"

ToRunning(j) == row' = [row EXCEPT ![j] = "running"]

(* A worker claims the job and the pipeline starts. *)
Run(p, j) ==
    /\ row[j] = "queued"
    /\ runner[j] = None
    /\ runs[j] < MaxRuns
    /\ ToRunning(j)
    /\ runner' = [runner EXCEPT ![j] = p]
    /\ stage' = [stage EXCEPT ![j] = "claimed"]
    /\ UNCHANGED <<runs, busVars, driverVars, replyVars, events, crashes>>

(* Whether a job that was answered meanwhile has a bundle or not, the run  *)
(* goes on as RUNNING.                                                     *)
Start(j) ==
    /\ stage[j] = "claimed"
    /\ ToRunning(j)
    /\ stage' = [stage EXCEPT ![j] = "running"]
    /\ UNCHANGED <<runner, runs, busVars, driverVars, replyVars, events, crashes>>

(* on_step_start writes RUNNING before a step, whatever the row says, ... *)
Progress(j) ==
    /\ stage[j] = "running"
    /\ ToRunning(j)
    /\ UNCHANGED <<runVars, busVars, driverVars, replyVars, events, crashes>>

(* ... or, when the step needs an approval, saves the cursor ...           *)
SaveCursor(j) ==
    /\ stage[j] = "running"
    /\ stage' = [stage EXCEPT ![j] = "saving"]
    /\ UNCHANGED <<row, runner, runs, busVars, driverVars, replyVars, events, crashes>>

(* ... and persists the wait, before the bus knows of it. *)
Pause(j) ==
    /\ stage[j] = "saving"
    /\ row' = [row EXCEPT ![j] = "waiting"]
    /\ stage' = [stage EXCEPT ![j] = "pausing"]
    /\ UNCHANGED <<runner, runs, busVars, driverVars, replyVars, events, crashes>>

(* The handler of ApprovalSuspendSignal: register, spawn the driver,       *)
(* return from run_job.                                                    *)
Suspend(j) ==
    LET n == runs[j] + 1 IN
    /\ stage[j] = "pausing"
    /\ Register(runner[j], j, n)
    /\ runs' = [runs EXCEPT ![j] = n]
    /\ host' = [host EXCEPT ![j][n] = runner[j]]
    /\ driver' = [driver EXCEPT ![j][n] = "spawned"]
    /\ stage' = [stage EXCEPT ![j] = "returned"]
    /\ UNCHANGED <<row, runner, hears, replyVars, events, crashes>>

(* The run ends without a suspension. *)
Conclude(j, outcome) ==
    /\ stage[j] = "running"
    /\ row' = [row EXCEPT ![j] = outcome]
    /\ stage' = [stage EXCEPT ![j] = "returned"]
    /\ UNCHANGED <<runner, runs, busVars, driverVars, replyVars, events, crashes>>

Release(j) ==
    /\ runner' = [runner EXCEPT ![j] = None]
    /\ stage' = [stage EXCEPT ![j] = "idle"]

(* _mark_completed: the read, and the write unless the job is suspended. *)
ReadStatus(j) ==
    /\ stage[j] = "returned"
    /\ IF row[j] \in {"waiting", "resumed"}
       THEN Release(j)
       ELSE stage' = [stage EXCEPT ![j] = "marking"] /\ UNCHANGED runner
    /\ UNCHANGED <<row, runs, busVars, driverVars, replyVars, events, crashes>>

MarkCompleted(j) ==
    /\ stage[j] = "marking"
    /\ row' = [row EXCEPT ![j] = "completed"]
    /\ Release(j)
    /\ UNCHANGED <<runs, busVars, driverVars, replyVars, events, crashes>>

(* The row of a job that is not being run goes back to the queue: the      *)
(* mark-recoverable route, whatever the status, or a recovery pass.        *)
MarkRecoverable(j) ==
    /\ runner[j] = None
    /\ runs[j] < MaxRuns
    /\ row' = [row EXCEPT ![j] = "queued"]
    /\ UNCHANGED <<runVars, busVars, driverVars, replyVars, events, crashes>>

-----------------------------------------------------------------------------
(* The driver, await_and_resume.                                           *)

MoveDriver(j, n, state) == driver' = [driver EXCEPT ![j][n] = state]

(* wait looks up the Event when the task gets its turn. *)
StartWait(j, n) ==
    LET e == waits[host[j][n]][j] IN
    /\ driver[j][n] = "spawned"
    /\ MoveDriver(j, n, IF e = 0 THEN "ended" ELSE "parked")
    /\ hears' = [hears EXCEPT ![j][n] = e]
    /\ UNCHANGED <<row, runVars, busVars, host, replyVars, events, crashes>>

(* Mutant: without the timeout of wait_for, a wait ends by its Event only. *)
EndWaitByEvent(j, n) ==
    LET p == host[j][n] IN
    /\ driver[j][n] = "parked"
    /\ hears[j][n] \in fired[j]
    /\ IF signals[p][j] \in {"answer", "cancel"}
       THEN MoveDriver(j, n, "closing") /\ Unregister(p, j) /\ UNCHANGED signals
       ELSE MoveDriver(j, n, "ended") /\ Clear(p, j)
    /\ UNCHANGED <<row, runVars, fired, host, hears, replyVars, events, crashes>>

(* wait returns: the Event is set, or its own timeout_seconds are over.    *)
(* Without a signal the driver just ends.  After a TIMEOUT it calls        *)
(* TimeoutManager.expire, which does not exist, and clears the bus.        *)
EndWait(j, n) ==
    LET p == host[j][n] IN
    /\ driver[j][n] = "parked"
    /\ CASE signals[p][j] = None ->
              MoveDriver(j, n, "ended") /\ Unregister(p, j) /\ UNCHANGED signals
         [] signals[p][j] = "timeout" ->
              MoveDriver(j, n, "ended") /\ Clear(p, j)
         [] signals[p][j] = "cancel" ->
              MoveDriver(j, n, "closing") /\ Unregister(p, j) /\ UNCHANGED signals
         [] OTHER ->
              MoveDriver(j, n, "verifying") /\ Unregister(p, j) /\ UNCHANGED signals
    /\ UNCHANGED <<row, runVars, fired, host, hears, replyVars, events, crashes>>

(* A cancelled wait is torn down, and so is one whose verification fails,  *)
(* which it does at once: the bundle is what it asks for first.            *)
Abort(j, n) ==
    /\ \/ driver[j][n] = "closing"
       \/ driver[j][n] = "verifying" /\ ~LoadsResumeBundle(j)
    /\ MoveDriver(j, n, "ended")
    /\ Clear(host[j][n], j)
    /\ UNCHANGED <<row, runVars, fired, host, hears, replyVars, events, crashes>>

(* _fire: the sleep of the timeout task is over. *)
TimerFires(p, j) ==
    /\ timer[p][j]
    /\ IF signals[p][j] = None /\ waits[p][j] # 0
       THEN Signal(p, j, "timeout")
       ELSE timer' = [timer EXCEPT ![p][j] = FALSE] /\ UNCHANGED <<waits, signals, fired>>
    /\ UNCHANGED <<row, runVars, driverVars, replyVars, events, crashes>>

-----------------------------------------------------------------------------
(* HTTP requests.                                                          *)

CountEvent == events < MaxEvents /\ events' = events + 1

(* POST /event takes any type. *)
PostEvent(p, j, type) ==
    /\ CountEvent
    /\ Signal(p, j, type)
    /\ UNCHANGED <<row, runVars, driverVars, replyVars, crashes>>

(* POST /reply, which reads what there is about the conversation first. *)
PostReply(p, j, intent) ==
    /\ CountEvent
    /\ replies' = replies \cup {<<p, j, intent>>}
    /\ UNCHANGED <<row, runVars, busVars, driverVars, answering, crashes>>

(* POST /clarification-reply: a form that is not filled in well is refused. *)
PostClarification(p, j) ==
    \/ PostReply(p, j, "clarify")
    \/ CountEvent /\ UNCHANGED <<row, runVars, busVars, driverVars, replyVars, crashes>>

(* get_continuation_context: each part that cannot be read is left out.    *)
(* No engine puts an approval into the state it saves.                     *)
Context(j) ==
    [waiting  |-> "conversation_id" \in Filled /\ row[j] = "waiting",
     approval |-> FALSE]

(* MODIFY wakes the job with the patched specification. *)
Modify(p, j) ==
    IF "spec" \in Filled THEN Signal(p, j, "answer") ELSE UNCHANGED busVars

(* continue_conversation for all but CLARIFY: a reply that is accepted     *)
(* becomes a signal, one that is not raises.                               *)
Continue(p, j, intent) ==
    /\ <<p, j, intent>> \in replies
    /\ intent # "clarify"
    /\ replies' = replies \ {<<p, j, intent>>}
    /\ CASE intent = "cancel" -> Signal(p, j, "cancel")
         [] intent = "modify" -> Modify(p, j)
         [] \/ intent = "continue" /\ ~Context(j).waiting
            \/ intent = "decide" /\ ~Context(j).approval -> UNCHANGED busVars
         [] OTHER -> Signal(p, j, "answer")
    /\ UNCHANGED <<row, runVars, driverVars, answering, events, crashes>>

(* CLARIFY: record_clarification_answer writes RESUMED, whatever the state *)
(* of the job, ...                                                         *)
RecordClarification(p, j) ==
    /\ <<p, j, "clarify">> \in replies
    /\ replies' = replies \ {<<p, j, "clarify">>}
    /\ row' = [row EXCEPT ![j] = "resumed"]
    /\ answering' = answering \cup {<<p, j>>}
    /\ UNCHANGED <<runVars, busVars, driverVars, events, crashes>>

(* ... and then the bus is told. *)
SignalClarification(p, j) ==
    /\ <<p, j>> \in answering
    /\ answering' = answering \ {<<p, j>>}
    /\ Signal(p, j, "answer")
    /\ UNCHANGED <<row, runVars, driverVars, replies, events, crashes>>

-----------------------------------------------------------------------------
(* A process restarts: its bus, its drivers, its runs and its requests are *)
(* gone.                                                                   *)
Restart(p) ==
    /\ crashes < MaxCrashes
    /\ crashes' = crashes + 1
    /\ waits' = [waits EXCEPT ![p] = [j \in Jobs |-> 0]]
    /\ signals' = [signals EXCEPT ![p] = [j \in Jobs |-> None]]
    /\ timer' = [timer EXCEPT ![p] = [j \in Jobs |-> FALSE]]
    /\ driver' = [j \in Jobs |-> [n \in Registrations |->
                    IF host[j][n] = p THEN "ended" ELSE driver[j][n]]]
    /\ runner' = [j \in Jobs |-> IF runner[j] = p THEN None ELSE runner[j]]
    /\ stage' = [j \in Jobs |-> IF runner[j] = p THEN "idle" ELSE stage[j]]
    /\ replies' = {r \in replies : r[1] # p}
    /\ answering' = {r \in answering : r[1] # p}
    /\ UNCHANGED <<row, runs, fired, host, hears, events>>

-----------------------------------------------------------------------------
RunStep(j) ==
    \/ Start(j) \/ SaveCursor(j) \/ Pause(j) \/ Suspend(j)
    \/ ReadStatus(j) \/ MarkCompleted(j)

ReplyStep(p, j) ==
    \/ \E intent \in Intents : Continue(p, j, intent)
    \/ RecordClarification(p, j)
    \/ SignalClarification(p, j)

DriverStep(j, n) == StartWait(j, n) \/ EndWait(j, n) \/ Abort(j, n)

Next ==
    \/ \E j \in Jobs :
          \/ RunStep(j)
          \/ Progress(j)
          \/ \E outcome \in {"completed", "failed"} : Conclude(j, outcome)
          \/ MarkRecoverable(j)
          \/ \E n \in Registrations : DriverStep(j, n)
    \/ \E p \in Procs, j \in Jobs : Run(p, j) \/ TimerFires(p, j)
    \/ \E p \in Api, j \in Jobs :
          \/ \E type \in EventTypes : PostEvent(p, j, type)
          \/ \E intent \in Intents : PostReply(p, j, intent)
          \/ PostClarification(p, j)
          \/ ReplyStep(p, j)
    \/ \E p \in Procs : Restart(p)

Spec == Init /\ [][Next]_vars

(* Workers poll the queue, a run goes on, the event loop gives every task  *)
(* its turn, sleeps end.                                                   *)
Fairness ==
    /\ \A j \in Jobs : WF_vars(\E p \in Procs : Run(p, j))
    /\ \A j \in Jobs : WF_vars(RunStep(j))
    /\ \A j \in Jobs, n \in Registrations : WF_vars(DriverStep(j, n))
    /\ \A p \in Procs, j \in Jobs : WF_vars(TimerFires(p, j))
    /\ \A p \in Api, j \in Jobs : WF_vars(ReplyStep(p, j))

FairSpec == Spec /\ Fairness

-----------------------------------------------------------------------------
(* Safety.                                                                 *)

(* No wake is lost: once a signal is recorded, before or after the wait is *)
(* registered, the Event of the registered wait is set; and until then a   *)
(* timer is running that will set it.                                      *)
NoLostWake ==
    \A p \in Procs, j \in Jobs : waits[p][j] # 0 =>
        /\ signals[p][j] # None => waits[p][j] \in fired[j]
        /\ waits[p][j] \in fired[j] \/ timer[p][j]

(* The driver of a job that was suspended once can be reached while it is  *)
(* parked: the Event it hears is the one a signal on its bus sets.  (A     *)
(* second suspension of the job registers a wait that the driver of the    *)
(* first one removes on its way out.)                                      *)
ParkedIsReachable ==
    \A j \in Jobs : runs[j] = 1 /\ driver[j][1] = "parked"
        => hears[j][1] = 1 /\ waits[host[j][1]][j] = 1

-----------------------------------------------------------------------------
(* Liveness.                                                               *)

(* Every driver ends, with or without a signal: no task is parked for good. *)
DriversEnd ==
    \A j \in Jobs, n \in Registrations : driver[j][n] = "spawned" ~> driver[j][n] = "ended"
=============================================================================
