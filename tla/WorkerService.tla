--------------------------- MODULE WorkerService ---------------------------
(***************************************************************************)
(* The durable job queue of the backend: the jobs table, the               *)
(* worker_heartbeats table, the worker processes that claim jobs, run the  *)
(* agent pipeline on them and heartbeat, and the recovery pass that looks  *)
(* for stale jobs and dead workers.                                        *)
(*                                                                         *)
(* A worker process is either the API server (main.py: the worker loop and *)
(* a recovery loop as tasks of one process) or a standalone worker         *)
(* (run_worker: one recovery pass, then the worker loop).  Every UPDATE of *)
(* a table is one action, because nothing spans two of them: a recovery    *)
(* pass reads a snapshot and writes row by row, and _mark_completed reads  *)
(* the status and writes the row in two requests.                          *)
(*                                                                         *)
(* Clock readings are abstracted to what the cutoffs tell apart: a         *)
(* heartbeat is fresh, or older than the cutoff of the query that reads    *)
(* it.                                                                     *)
(***************************************************************************)
EXTENDS Naturals, FiniteSets

CONSTANTS
    Jobs,           \* job ids
    Workers,        \* worker ids, one per process
    Standalone,     \* the workers started with "python -m services.worker_service"
    None,           \* SQL NULL, Python None
    Timely,         \* the heartbeat of a live worker never passes a cutoff
    Serial,         \* two recovery passes never overlap
    Interruptible,  \* a stop may reach a process that has a job
    MaxCrashes,     \* bound on crashes (SIGKILL, power, out of memory)
    MaxStops,       \* bound on stop requests
    MaxMarks,       \* bound on the marks users put on their jobs
    MaxFaults       \* bound on crashes, stop requests and marks together

ASSUME WorkersAssumption == Standalone \subseteq Workers
ASSUME NoneAssumption == None \notin Jobs \cup Workers
ASSUME SwitchesAssumption == {Timely, Serial, Interruptible} \subseteq BOOLEAN
ASSUME BoundsAssumption == {MaxCrashes, MaxStops, MaxMarks, MaxFaults} \subseteq Nat

VARIABLES
    status, owner, hb,          \* table jobs: status, worker_id, heartbeat_at
    wstate, wjob,               \* table worker_heartbeats: status, job_id
    pc, cur, asked,             \* a process: where it is, _current_job_id,
                                \* whether it has been asked to stop
    phase, snap, dead, freeing, \* its recovery pass
    crashes, stops, marks       \* faults and marks so far

jobVars  == <<status, owner, hb>>
rowVars  == <<wstate, wjob>>
procVars == <<pc, cur, asked>>
passVars == <<phase, snap, dead, freeing>>
faults   == <<crashes, stops, marks>>
vars     == <<jobVars, rowVars, procVars, passVars, faults>>

-----------------------------------------------------------------------------
(* The values of the two tables and of a process.                          *)

(* JobStatus; the worker never meets the other values of the enum, and     *)
(* "absent" is a row that is not there yet.                                *)
Statuses == {"absent", "queued", "running", "waiting", "completed", "failed"}

(* What a run of a job may come to. *)
Settled == {"waiting", "completed", "failed"}

(* heartbeat_at: NULL, within JOB_STALE_SECONDS, or older. *)
Heartbeats == {"null", "fresh", "old"}

(* worker_heartbeats.status; "overdue" is an active row whose              *)
(* last_heartbeat is older than HEARTBEAT_TIMEOUT_SECONDS.                 *)
RowStates == {"absent", "active", "overdue", "stale", "shutdown"}

(* Where a process is.  "executing" is run_job; "returned" is run_job past *)
(* its last status write; "marking" lies between the read and the write of *)
(* _mark_completed; "settled" is the job marked and _current_job_id still  *)
(* set; "cancelled" and "exited" follow the CancelledError of a shutdown.  *)
Busy == {"claimed", "executing", "returned", "raised", "marking", "settled"}
Stopping == {"cancelled", "exited"}
PCs == {"off", "recovering", "polling"} \cup Busy \cup Stopping

(* The heartbeat task lives from the claim to the finally of _execute_job. *)
Beating == {"claimed", "executing", "returned", "raised"}

Holds(w, j) == cur[w] = j /\ pc[w] \in Busy
Held(j) == \E w \in Workers : Holds(w, j)

TypeOK ==
    /\ status \in [Jobs -> Statuses]
    /\ owner \in [Jobs -> Workers \cup {None}]
    /\ hb \in [Jobs -> Heartbeats]
    /\ wstate \in [Workers -> RowStates]
    /\ wjob \in [Workers -> Jobs \cup {None}]
    /\ pc \in [Workers -> PCs]
    /\ cur \in [Workers -> Jobs \cup {None}]
    /\ asked \in [Workers -> BOOLEAN]
    /\ phase \in [Workers -> {"rest", "stale", "dead"}]
    /\ snap \in [Workers -> SUBSET Jobs]
    /\ dead \in [Workers -> SUBSET (Workers \X (Jobs \cup {None}))]
    /\ freeing \in [Workers -> Jobs \cup {None}]
    /\ crashes \in 0..MaxCrashes
    /\ stops \in 0..MaxStops
    /\ marks \in 0..MaxMarks

Init ==
    /\ status = [j \in Jobs |-> "absent"]
    /\ owner = [j \in Jobs |-> None]
    /\ hb = [j \in Jobs |-> "null"]
    /\ wstate = [w \in Workers |-> "absent"]
    /\ wjob = [w \in Workers |-> None]
    /\ pc = [w \in Workers |-> "off"]
    /\ cur = [w \in Workers |-> None]
    /\ asked = [w \in Workers |-> FALSE]
    /\ phase = [w \in Workers |-> "rest"]
    /\ snap = [w \in Workers |-> {}]
    /\ dead = [w \in Workers |-> {}]
    /\ freeing = [w \in Workers |-> None]
    /\ crashes = 0
    /\ stops = 0
    /\ marks = 0

-----------------------------------------------------------------------------
(* The writes several actions share.                                       *)

(* The UPDATE of _mark_abandoned, _release_job, recover_stale_jobs and     *)
(* cleanup_dead_workers: by id alone, whatever the row says.               *)
Requeue(j) ==
    /\ status' = [status EXCEPT ![j] = "queued"]
    /\ owner' = [owner EXCEPT ![j] = None]
    /\ hb' = [hb EXCEPT ![j] = "null"]

(* The UPDATE of _mark_completed and of _mark_failed. *)
Mark(j, outcome) ==
    /\ status' = [status EXCEPT ![j] = outcome]
    /\ owner' = [owner EXCEPT ![j] = None]
    /\ hb' = [hb EXCEPT ![j] = "null"]

(* _db_update(job_id, {"status": s}) of the pipeline: the status alone. *)
WriteStatus(j, s) ==
    /\ status' = [status EXCEPT ![j] = s]
    /\ UNCHANGED <<owner, hb>>

(* The upsert of _heartbeat_worker, and of _register_worker with no job. *)
WriteRow(w, j) ==
    /\ wstate' = [wstate EXCEPT ![w] = "active"]
    /\ wjob' = [wjob EXCEPT ![w] = j]

(* _mark_worker_shutdown. *)
ShutRow(w) ==
    /\ wstate' = [wstate EXCEPT ![w] = "shutdown"]
    /\ wjob' = [wjob EXCEPT ![w] = None]

Goto(w, label) == pc' = [pc EXCEPT ![w] = label]

(* Mutants of detect_stale_jobs: without the cutoff, without the status    *)
(* filter, and with only the status "claimed", which no claim ever writes. *)
StaleJobsAnyAge == {j \in Jobs : status[j] = "running"}
StaleJobsAnyStatus == {j \in Jobs : hb[j] = "old"}
StaleJobsClaimed == {j \in Jobs : status[j] = "claimed" /\ hb[j] = "old"}

(* The rows detect_stale_jobs selects: heartbeat_at < cutoff is not true   *)
(* of NULL.                                                                *)
StaleJobs == {j \in Jobs : status[j] = "running" /\ hb[j] = "old"}

(* The rows detect_dead_workers selects. *)
DeadWorkers == {<<w, wjob[w]>> : w \in {v \in Workers : wstate[v] = "overdue"}}

(* The rows the UPDATE of _claim_next_job matches. *)
Claimable == {j \in Jobs : status[j] = "queued"}

(* Mutant: the claim does not start the heartbeat. *)
ClaimRowsSilent(w) ==
    /\ status' = [j \in Jobs |-> IF j \in Claimable THEN "running" ELSE status[j]]
    /\ owner' = [j \in Jobs |-> IF j \in Claimable THEN w ELSE owner[j]]
    /\ UNCHANGED hb

(* What that UPDATE writes. *)
ClaimRows(w) ==
    /\ status' = [j \in Jobs |-> IF j \in Claimable THEN "running" ELSE status[j]]
    /\ owner' = [j \in Jobs |-> IF j \in Claimable THEN w ELSE owner[j]]
    /\ hb' = [j \in Jobs |-> IF j \in Claimable THEN "fresh" ELSE hb[j]]

-----------------------------------------------------------------------------
(* The API: create_job inserts a row, and a user may mark a job as         *)
(* recoverable or as orphaned, which writes the status by id alone: the    *)
(* job was read before, but its status is not looked at.                   *)

Submit(j) ==
    /\ status[j] = "absent"
    /\ status' = [status EXCEPT ![j] = "queued"]
    /\ UNCHANGED <<owner, hb, rowVars, procVars, passVars, faults>>

UserMarks(j, s) ==
    /\ status[j] # "absent"
    /\ marks < MaxMarks /\ crashes + stops + marks < MaxFaults
    /\ marks' = marks + 1
    /\ WriteStatus(j, s)
    /\ UNCHANGED <<crashes, stops, rowVars, procVars, passVars>>

MarkJobRecoverable(j) == UserMarks(j, "queued")

MarkJobOrphaned(j) == UserMarks(j, "failed")

-----------------------------------------------------------------------------
(* The recovery pass: recover_stale_jobs, then cleanup_dead_workers.       *)

MayStartPass == Serial => \A v \in Workers : phase[v] = "rest"

DetectStaleJobs(w) ==
    /\ phase[w] = "rest"
    /\ MayStartPass
    /\ phase' = [phase EXCEPT ![w] = "stale"]
    /\ snap' = [snap EXCEPT ![w] = StaleJobs]
    /\ UNCHANGED <<dead, freeing>>

(* _recovery_loop of the API server wakes up; its task ends with the       *)
(* cancellation of the lifespan.                                           *)
BeginRecovery(w) ==
    /\ w \notin Standalone
    /\ pc[w] \notin {"off"} \cup Stopping
    /\ DetectStaleJobs(w)
    /\ UNCHANGED <<jobVars, rowVars, procVars, faults>>

RecoverStaleJob(w, j) ==
    /\ phase[w] = "stale"
    /\ j \in snap[w]
    /\ snap' = [snap EXCEPT ![w] = @ \ {j}]
    /\ Requeue(j)
    /\ UNCHANGED <<phase, dead, freeing, rowVars, procVars, faults>>

(* recover_stale_jobs runs in the thread pool: it returns after the        *)
(* lifespan has been cancelled too, but then nobody calls                  *)
(* cleanup_dead_workers.                                                   *)
DetectDeadWorkers(w) ==
    /\ phase[w] = "stale"
    /\ snap[w] = {}
    /\ IF pc[w] \in {"off"} \cup Stopping
       THEN /\ phase' = [phase EXCEPT ![w] = "rest"]
            /\ UNCHANGED dead
       ELSE /\ phase' = [phase EXCEPT ![w] = "dead"]
            /\ dead' = [dead EXCEPT ![w] = DeadWorkers]
    /\ UNCHANGED <<snap, freeing, jobVars, rowVars, procVars, faults>>

MarkWorkerStale(w, v, j) ==
    /\ phase[w] = "dead"
    /\ freeing[w] = None
    /\ <<v, j>> \in dead[w]
    /\ dead' = [dead EXCEPT ![w] = @ \ {<<v, j>>}]
    /\ wstate' = [wstate EXCEPT ![v] = "stale"]
    /\ wjob' = [wjob EXCEPT ![v] = None]
    /\ freeing' = [freeing EXCEPT ![w] = j]
    /\ UNCHANGED <<phase, snap, jobVars, procVars, faults>>

ReleaseDeadJob(w) ==
    /\ freeing[w] # None
    /\ Requeue(freeing[w])
    /\ freeing' = [freeing EXCEPT ![w] = None]
    /\ UNCHANGED <<phase, snap, dead, rowVars, procVars, faults>>

EndRecovery(w) ==
    /\ phase[w] = "dead"
    /\ dead[w] = {}
    /\ freeing[w] = None
    /\ phase' = [phase EXCEPT ![w] = "rest"]
    /\ UNCHANGED <<snap, dead, freeing, jobVars, rowVars, procVars, faults>>

-----------------------------------------------------------------------------
(* The worker loop.                                                        *)

(* A process comes up: the API server registers its worker at once, a      *)
(* standalone worker enters the recovery pass first.                       *)
Launch(w) ==
    /\ pc[w] = "off"
    /\ phase[w] = "rest"
    /\ IF w \in Standalone
       THEN /\ Goto(w, "recovering")
            /\ DetectStaleJobs(w)
            /\ UNCHANGED rowVars
       ELSE /\ Goto(w, "polling")
            /\ WriteRow(w, None)
            /\ UNCHANGED passVars
    /\ UNCHANGED <<jobVars, cur, asked, faults>>

RegisterWorker(w) ==
    /\ pc[w] = "recovering"
    /\ phase[w] = "rest"
    /\ Goto(w, "polling")
    /\ WriteRow(w, None)
    /\ UNCHANGED <<jobVars, cur, asked, passVars, faults>>

(* The top of the loop: _heartbeat_worker, then _claim_next_job.  The      *)
(* UPDATE has no limit: it takes every queued row, and the first row of    *)
(* its result, in no particular order, is the job that is executed.  Only  *)
(* a stop by signal sets the event the loop tests.                         *)
ClaimNextJob(w) ==
    /\ pc[w] = "polling"
    /\ ~ (w \in Standalone /\ asked[w])
    /\ WriteRow(w, None)
    /\ ClaimRows(w)
    /\ \/ /\ Claimable = {}
          /\ UNCHANGED <<pc, cur>>
       \/ \E j \in Claimable :
             /\ cur' = [cur EXCEPT ![w] = j]
             /\ Goto(w, "claimed")
    /\ UNCHANGED <<asked, passVars, faults>>

(* The heartbeat task of a job: both writes are unconditional and either   *)
(* may be the next of the two.                                             *)
HeartbeatJob(w) ==
    /\ pc[w] \in Beating
    /\ hb' = [hb EXCEPT ![cur[w]] = "fresh"]
    /\ UNCHANGED <<status, owner, rowVars, procVars, passVars, faults>>

HeartbeatWorker(w) ==
    /\ pc[w] \in Beating
    /\ WriteRow(w, cur[w])
    /\ UNCHANGED <<jobVars, procVars, passVars, faults>>

-----------------------------------------------------------------------------
(* The agent pipeline, as far as it touches the row.                       *)

(* run_agent_pipeline writes RUNNING before anything else. *)
Begin(w) ==
    /\ pc[w] = "claimed"
    /\ WriteStatus(cur[w], "running")
    /\ Goto(w, "executing")
    /\ UNCHANGED <<cur, asked, rowVars, passVars, faults>>

(* It writes RUNNING again around every step, whatever the row says. *)
Progress(w) ==
    /\ pc[w] = "executing"
    /\ WriteStatus(cur[w], "running")
    /\ UNCHANGED <<procVars, rowVars, passVars, faults>>

(* The last write of a run that returns: the outcome of the pipeline, or   *)
(* WAITING_FOR_USER when a step needs an approval.                         *)
Conclude(w, outcome) ==
    /\ pc[w] = "executing"
    /\ WriteStatus(cur[w], outcome)
    /\ Goto(w, "returned")
    /\ UNCHANGED <<cur, asked, rowVars, passVars, faults>>

(* run_job raises: an exception before the pipeline, or one nothing in it  *)
(* catches.                                                                *)
Raise(w) ==
    /\ pc[w] \in {"claimed", "executing"}
    /\ Goto(w, "raised")
    /\ UNCHANGED <<cur, asked, jobVars, rowVars, passVars, faults>>

(* ClarificationSuspendSignal is raised outside the try whose handler      *)
(* parks the job.                                                          *)
SuspendForClarification(w) ==
    /\ pc[w] = "executing"
    /\ WriteStatus(cur[w], "waiting")
    /\ Goto(w, "raised")
    /\ UNCHANGED <<cur, asked, rowVars, passVars, faults>>

-----------------------------------------------------------------------------
(* The end of _execute_job.                                                *)

(* Mutant: the guard for suspended jobs is gone. *)
ReadStatusUnguarded(w) ==
    /\ pc[w] = "returned"
    /\ Goto(w, "marking")
    /\ UNCHANGED <<cur, asked, jobVars, rowVars, passVars, faults>>

(* _mark_completed reads the status and leaves a suspended job alone. *)
ReadStatus(w) ==
    /\ pc[w] = "returned"
    /\ Goto(w, IF status[cur[w]] = "waiting" THEN "settled" ELSE "marking")
    /\ UNCHANGED <<cur, asked, jobVars, rowVars, passVars, faults>>

MarkCompleted(w) ==
    /\ pc[w] = "marking"
    /\ Mark(cur[w], "completed")
    /\ Goto(w, "settled")
    /\ UNCHANGED <<cur, asked, rowVars, passVars, faults>>

MarkFailed(w) ==
    /\ pc[w] = "raised"
    /\ Mark(cur[w], "failed")
    /\ Goto(w, "settled")
    /\ UNCHANGED <<cur, asked, rowVars, passVars, faults>>

(* The heartbeat task has ended; the loop forgets the job. *)
ClearCurrentJob(w) ==
    /\ pc[w] = "settled"
    /\ Goto(w, "polling")
    /\ cur' = [cur EXCEPT ![w] = None]
    /\ UNCHANGED <<asked, jobVars, rowVars, passVars, faults>>

-----------------------------------------------------------------------------
(* Stopping a process.                                                     *)

CountStop(w) ==
    /\ stops < MaxStops /\ crashes + stops + marks < MaxFaults
    /\ pc[w] # "off"
    /\ cur[w] # None => Interruptible
    /\ ~asked[w]
    /\ stops' = stops + 1

(* SIGTERM or SIGINT at a standalone worker: the handler calls stop()      *)
(* between any two steps; the job is released and still runs.              *)
StopSignal(w) ==
    /\ w \in Standalone
    /\ CountStop(w)
    /\ asked' = [asked EXCEPT ![w] = TRUE]
    /\ IF cur[w] # None THEN Requeue(cur[w]) ELSE UNCHANGED jobVars
    /\ UNCHANGED <<pc, cur, rowVars, passVars, crashes, marks>>

(* The lifespan of the API server ends and cancels the worker task.  While *)
(* a job runs, the CancelledError abandons it; a cancellation that arrives *)
(* while the loop awaits the heartbeat task is swallowed there.            *)
CancelJob(w) ==
    /\ w \notin Standalone
    /\ pc[w] \in Beating
    /\ CountStop(w)
    /\ asked' = [asked EXCEPT ![w] = TRUE]
    /\ Requeue(cur[w])
    /\ Goto(w, "cancelled")
    /\ UNCHANGED <<cur, rowVars, passVars, crashes, marks>>

CancelIdle(w) ==
    /\ w \notin Standalone
    /\ pc[w] = "polling"
    /\ CountStop(w)
    /\ asked' = [asked EXCEPT ![w] = TRUE]
    /\ Goto(w, "cancelled")
    /\ UNCHANGED <<cur, jobVars, rowVars, passVars, crashes, marks>>

CancelSwallowed(w) ==
    /\ w \notin Standalone
    /\ pc[w] = "settled"
    /\ CountStop(w)
    /\ asked' = [asked EXCEPT ![w] = TRUE]
    /\ UNCHANGED <<pc, cur, jobVars, rowVars, passVars, crashes, marks>>

(* The finally of run.  A standalone process ends here; the lifespan goes  *)
(* on to call stop() on the worker it has cancelled.                       *)
MarkWorkerShutdown(w) ==
    /\ \/ pc[w] = "cancelled" /\ Goto(w, "exited") /\ UNCHANGED <<cur, asked>>
       \/ /\ pc[w] = "polling" /\ w \in Standalone /\ asked[w]
          /\ Goto(w, "off")
          /\ asked' = [asked EXCEPT ![w] = FALSE]
          /\ UNCHANGED cur
    /\ ShutRow(w)
    /\ UNCHANGED <<jobVars, passVars, faults>>

(* stop() of the lifespan: _current_job_id still names an abandoned job.   *)
LifespanStop(w) ==
    /\ pc[w] = "exited"
    /\ IF cur[w] # None THEN Requeue(cur[w]) ELSE UNCHANGED jobVars
    /\ Goto(w, "off")
    /\ cur' = [cur EXCEPT ![w] = None]
    /\ asked' = [asked EXCEPT ![w] = FALSE]
    /\ UNCHANGED <<rowVars, passVars, faults>>

-----------------------------------------------------------------------------
(* Faults and time.                                                        *)

(* A process is gone, with its recovery pass. *)
Crash(w) ==
    /\ crashes < MaxCrashes /\ crashes + stops + marks < MaxFaults
    /\ pc[w] # "off"
    /\ crashes' = crashes + 1
    /\ Goto(w, "off")
    /\ cur' = [cur EXCEPT ![w] = None]
    /\ asked' = [asked EXCEPT ![w] = FALSE]
    /\ phase' = [phase EXCEPT ![w] = "rest"]
    /\ snap' = [snap EXCEPT ![w] = {}]
    /\ dead' = [dead EXCEPT ![w] = {}]
    /\ freeing' = [freeing EXCEPT ![w] = None]
    /\ UNCHANGED <<stops, marks, jobVars, rowVars>>

(* JOB_STALE_SECONDS pass without a heartbeat of the job. *)
JobHeartbeatExpires(j) ==
    /\ hb[j] = "fresh"
    /\ Timely => ~Held(j)
    /\ hb' = [hb EXCEPT ![j] = "old"]
    /\ UNCHANGED <<status, owner, rowVars, procVars, passVars, faults>>

(* HEARTBEAT_TIMEOUT_SECONDS pass without a heartbeat of the worker. *)
WorkerHeartbeatExpires(w) ==
    /\ wstate[w] = "active"
    /\ Timely => pc[w] \in {"off", "recovering"}
    /\ wstate' = [wstate EXCEPT ![w] = "overdue"]
    /\ UNCHANGED <<wjob, jobVars, procVars, passVars, faults>>

-----------------------------------------------------------------------------
RecoveryStep(w) ==
    \/ BeginRecovery(w)
    \/ \E j \in Jobs : RecoverStaleJob(w, j)
    \/ DetectDeadWorkers(w)
    \/ \E v \in Workers, j \in Jobs \cup {None} : MarkWorkerStale(w, v, j)
    \/ ReleaseDeadJob(w)
    \/ EndRecovery(w)

PipelineStep(w) ==
    \/ Begin(w)
    \/ \E outcome \in Settled : Conclude(w, outcome)
    \/ Raise(w)
    \/ SuspendForClarification(w)

LoopStep(w) ==
    \/ RegisterWorker(w)
    \/ ClaimNextJob(w)
    \/ ReadStatus(w)
    \/ MarkCompleted(w)
    \/ MarkFailed(w)
    \/ ClearCurrentJob(w)
    \/ MarkWorkerShutdown(w)
    \/ LifespanStop(w)

StopStep(w) == StopSignal(w) \/ CancelJob(w) \/ CancelIdle(w) \/ CancelSwallowed(w)

Next ==
    \/ \E j \in Jobs :
          \/ Submit(j) \/ JobHeartbeatExpires(j)
          \/ MarkJobRecoverable(j) \/ MarkJobOrphaned(j)
    \/ \E w \in Workers :
          \/ Launch(w) \/ RecoveryStep(w) \/ PipelineStep(w) \/ LoopStep(w)
          \/ HeartbeatJob(w) \/ HeartbeatWorker(w) \/ Progress(w)
          \/ StopStep(w) \/ Crash(w) \/ WorkerHeartbeatExpires(w)

Spec == Init /\ [][Next]_vars

(* A process that is up goes on with its loop, its job ends, its recovery  *)
(* loop turns, time passes, and the service manager restarts the API       *)
(* server.                                                                 *)
Fairness ==
    /\ \A w \in Workers :
          /\ WF_vars(LoopStep(w) \/ PipelineStep(w))
          /\ WF_vars(RecoveryStep(w))
          /\ WF_vars(WorkerHeartbeatExpires(w))
          /\ w \notin Standalone => WF_vars(Launch(w))
    /\ \A j \in Jobs : WF_vars(JobHeartbeatExpires(j))

FairSpec == Spec /\ Fairness

-----------------------------------------------------------------------------
(* Safety.                                                                 *)

(* Two processes never execute the same job.  Nothing in a job row fences  *)
(* a worker off: run_job never looks at worker_id, so this rests on the    *)
(* row being requeued only when nobody executes it.                        *)
SoleExecutor ==
    \A j \in Jobs : \A v, w \in Workers : Holds(v, j) /\ Holds(w, j) => v = w

(* A job that a process executes is not up for a claim, and while its row  *)
(* says running the row names that process: every write of the pipeline,   *)
(* the heartbeat, the recovery pass and the claim that lands on the row    *)
(* meanwhile keeps it so.                                                  *)
RowMatchesExecutor ==
    \A j \in Jobs, w \in Workers :
        Holds(w, j) => /\ status[j] # "queued"
                       /\ status[j] = "running" => owner[j] = w

(* What a recovery pass is about to requeue, from a snapshot it read       *)
(* earlier, is not being executed by the time it gets there.               *)
RecoveryTargetsIdle ==
    \A w \in Workers :
        /\ \A j \in snap[w] : ~Held(j)
        /\ freeing[w] # None => ~Held(freeing[w])

(* A job that says running and that no process executes can be seen by     *)
(* detect_stale_jobs, now or later: its heartbeat is not NULL.  (A crash,  *)
(* a stop or a mark may have happened, not two of them: a job that SIGTERM *)
(* released and that writes running again has a NULL heartbeat if it is    *)
(* killed.  Two overlapping recovery passes that both list a job make room *)
(* for it as well: the second one requeues what has just been claimed.)    *)
OrphanVisible ==
    crashes + stops + marks <= 1 =>
        \A j \in Jobs : status[j] = "running" /\ ~Held(j) => hb[j] # "null"

(* Nobody but the process that executes a job overwrites what it came to,  *)
(* and that process does so in two cases only: _mark_completed makes       *)
(* "completed" of the "failed" its own pipeline wrote, and _mark_failed    *)
(* makes "failed" of a wait for a clarification, which leaves run_job as   *)
(* an exception.  So a completed job stays completed, a job that waits for *)
(* an approval goes on waiting, and once the process has let go of a job   *)
(* no claim and no recovery pass changes its outcome.  What is not kept is *)
(* the failure of the pipeline: the row ends as "completed".               *)
OnlyExecutorOverwrites ==
    [][\A j \in Jobs :
          status[j] \in Settled /\ status'[j] # status[j] =>
              \E w \in Workers :
                  /\ Holds(w, j)
                  /\ \/ pc[w] = "marking" /\ status[j] = "failed" /\ status'[j] = "completed"
                     \/ pc[w] = "raised" /\ status[j] = "waiting" /\ status'[j] = "failed"]_vars

(* The queue as its users see it. *)
Lease == INSTANCE JobLease WITH
    holders <- [j \in Jobs |-> {w \in Workers : Holds(w, j)}],
    closed <- [j \in Jobs |-> status[j] \in Settled /\ ~Held(j)]

LeaseSpec == Lease!Spec

-----------------------------------------------------------------------------
(* The inductive invariant behind the safety properties, under Calm: no    *)
(* crash, no stop of a process that has a job, no mark of a user,          *)
(* heartbeats in time, and one recovery pass at a time.                    *)

Calm == Timely /\ Serial /\ ~Interruptible /\ MaxCrashes = 0 /\ MaxMarks = 0

(* A process remembers a job exactly while it is busy with it. *)
JobWhileBusy == \A w \in Workers : pc[w] \in Busy <=> cur[w] # None

OneHolder == \A v, w \in Workers : cur[v] = cur[w] /\ cur[v] # None => v = w

(* The row of a held job is past the queue, says running until the         *)
(* pipeline has an outcome and that outcome from then on, names its holder *)
(* while it says running, and has had its heartbeat in time.               *)
HolderOwnsRow ==
    \A w \in Workers : cur[w] # None =>
        /\ status[cur[w]] \notin {"absent", "queued"}
        /\ pc[w] \in {"claimed", "executing"} => status[cur[w]] = "running"
        /\ pc[w] \in {"returned", "settled"} => status[cur[w]] \in Settled
        /\ pc[w] = "marking" => status[cur[w]] \in {"completed", "failed"}
        /\ pc[w] = "raised" => status[cur[w]] \in {"running", "waiting"}
        /\ status[cur[w]] = "running" => owner[cur[w]] = w
        /\ hb[cur[w]] # "old"

OnePass == \A v, w \in Workers : phase[v] # "rest" /\ phase[w] # "rest" => v = w

(* The snapshot of a pass lists running rows whose holder is gone. *)
SnapshotOfOrphans ==
    \A w \in Workers :
        /\ snap[w] # {} => phase[w] = "stale"
        /\ \A j \in snap[w] : status[j] = "running" /\ hb[j] = "old"

(* Only a process that has shut down is without a heartbeat, and its row   *)
(* says so: no pass ever finds a dead worker.                              *)
NobodyDead ==
    \A w \in Workers :
        /\ wstate[w] \in {"absent", "active", "shutdown"}
        /\ pc[w] \in {"off", "recovering", "exited"} => wstate[w] # "active"
        /\ dead[w] = {}
        /\ freeing[w] = None

QueueInv ==
    /\ TypeOK
    /\ JobWhileBusy
    /\ OneHolder
    /\ HolderOwnsRow
    /\ OnePass
    /\ SnapshotOfOrphans
    /\ NobodyDead

-----------------------------------------------------------------------------
(* Liveness.                                                               *)

(* Every submitted job ends up completed, failed or waiting for its user,  *)
(* and stays there, whatever crashed, was stopped or was marked by its     *)
(* user on the way.                                                        *)
EveryJobSettles ==
    \A j \in Jobs : status[j] = "queued" ~> [](status[j] \in Settled)
=============================================================================
