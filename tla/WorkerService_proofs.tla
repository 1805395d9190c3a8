------------------------ MODULE WorkerService_proofs ------------------------
(***************************************************************************)
(* What is proved of WorkerService for every set of jobs and workers.      *)
(***************************************************************************)
EXTENDS WorkerService, TLAPS

(* The part of TypeOK that the table jobs has. *)
JobTypes ==
    /\ status \in [Jobs -> Statuses]
    /\ owner \in [Jobs -> Workers \cup {None}]
    /\ hb \in [Jobs -> Heartbeats]

(* A requeue keeps it, whatever row it names. *)
LEMMA RequeueTypes ==
    ASSUME TypeOK, NEW j, Requeue(j)
    PROVE  JobTypes'
  BY DEF TypeOK, Requeue, JobTypes, Statuses, Heartbeats

LEMMA TypeInit == Init => TypeOK
  BY BoundsAssumption DEF Init, TypeOK, Statuses, Heartbeats, RowStates, PCs

LEMMA TypeStep == TypeOK /\ [Next]_vars => TypeOK'
<1> SUFFICES ASSUME TypeOK, [Next]_vars PROVE TypeOK'
  OBVIOUS
<1> USE WorkersAssumption, NoneAssumption, BoundsAssumption
    DEF TypeOK, Statuses, Settled, Heartbeats, RowStates, PCs, Busy, Stopping,
        Beating, jobVars, rowVars, procVars, passVars, faults, Goto, WriteRow,
        WriteStatus, Requeue, Mark, ShutRow
<1>1. ASSUME NEW j \in Jobs, Submit(j) PROVE TypeOK'
  BY <1>1 DEF Submit
<1>2. ASSUME NEW j \in Jobs, JobHeartbeatExpires(j) PROVE TypeOK'
  BY <1>2 DEF JobHeartbeatExpires
<1>3. ASSUME NEW w \in Workers, Launch(w) PROVE TypeOK'
  BY <1>3 DEF Launch, DetectStaleJobs, StaleJobs
<1>4. ASSUME NEW w \in Workers, RecoveryStep(w) PROVE TypeOK'
  <2>1. CASE BeginRecovery(w)
    BY <2>1 DEF BeginRecovery, DetectStaleJobs, StaleJobs
  <2>2. ASSUME NEW j \in Jobs, RecoverStaleJob(w, j) PROVE TypeOK'
    BY <2>2 DEF RecoverStaleJob
  <2>3. CASE DetectDeadWorkers(w)
    <3>1. DeadWorkers \in SUBSET (Workers \X (Jobs \cup {None}))
      BY DEF DeadWorkers
    <3> QED BY <2>3, <3>1 DEF DetectDeadWorkers
  <2>4. ASSUME NEW v \in Workers, NEW j \in Jobs \cup {None}, MarkWorkerStale(w, v, j)
        PROVE  TypeOK'
    BY <2>4 DEF MarkWorkerStale
  <2>5. CASE ReleaseDeadJob(w)
    BY <2>5 DEF ReleaseDeadJob
  <2>6. CASE EndRecovery(w)
    BY <2>6 DEF EndRecovery
  <2> QED BY <1>4, <2>1, <2>2, <2>3, <2>4, <2>5, <2>6 DEF RecoveryStep
<1>5. ASSUME NEW w \in Workers, PipelineStep(w) PROVE TypeOK'
  <2>1. CASE Begin(w) \/ Raise(w) \/ SuspendForClarification(w)
    BY <2>1 DEF Begin, Raise, SuspendForClarification
  <2>2. ASSUME NEW outcome \in Settled, Conclude(w, outcome) PROVE TypeOK'
    BY <2>2 DEF Conclude
  <2> QED BY <1>5, <2>1, <2>2 DEF PipelineStep
<1>6. ASSUME NEW w \in Workers, LoopStep(w) PROVE TypeOK'
  <2>1. CASE RegisterWorker(w) \/ ReadStatus(w)
    BY <2>1 DEF RegisterWorker, ReadStatus
  <2>2. CASE ClaimNextJob(w)
    BY <2>2 DEF ClaimNextJob, ClaimRows, Claimable
  <2>3. CASE MarkCompleted(w) \/ MarkFailed(w) \/ ClearCurrentJob(w)
    BY <2>3 DEF MarkCompleted, MarkFailed, ClearCurrentJob
  <2>4. CASE MarkWorkerShutdown(w)
    <3>1. CASE pc[w] = "cancelled"
      BY <2>4, <3>1 DEF MarkWorkerShutdown
    <3>2. CASE pc[w] = "polling"
      <4>1. asked' = [asked EXCEPT ![w] = FALSE]
        BY <2>4, <3>2 DEF MarkWorkerShutdown
      <4>2. pc' = [pc EXCEPT ![w] = "off"] /\ cur' = cur
        BY <2>4, <3>2 DEF MarkWorkerShutdown
      <4>3. ShutRow(w) /\ UNCHANGED <<jobVars, passVars, faults>>
        BY <2>4 DEF MarkWorkerShutdown
      <4> QED BY <4>1, <4>2, <4>3
    <3> QED BY <2>4, <3>1, <3>2 DEF MarkWorkerShutdown
  <2>5. CASE LifespanStop(w)
    BY <2>5 DEF LifespanStop
  <2> QED BY <1>6, <2>1, <2>2, <2>3, <2>4, <2>5 DEF LoopStep
<1>7. ASSUME NEW w \in Workers, HeartbeatJob(w) PROVE TypeOK'
  BY <1>7 DEF HeartbeatJob
<1>8. ASSUME NEW w \in Workers, HeartbeatWorker(w) PROVE TypeOK'
  BY <1>8 DEF HeartbeatWorker
<1>9. ASSUME NEW w \in Workers, Progress(w) PROVE TypeOK'
  BY <1>9 DEF Progress
<1>10. ASSUME NEW w \in Workers, StopStep(w) PROVE TypeOK'
  <2>1. CASE StopSignal(w)
    <3>1. asked' = [asked EXCEPT ![w] = TRUE]
      BY <2>1 DEF StopSignal
    <3>2. stops < MaxStops /\ stops' = stops + 1
      BY <2>1 DEF StopSignal, CountStop
    <3>3. JobTypes'
      BY <2>1, RequeueTypes DEF StopSignal, JobTypes
    <3>4. UNCHANGED <<pc, cur, rowVars, passVars, crashes, marks>>
      BY <2>1 DEF StopSignal
    <3> QED BY <3>1, <3>2, <3>3, <3>4 DEF JobTypes
  <2>2. CASE CancelJob(w)
    <3>1. asked' = [asked EXCEPT ![w] = TRUE]
      BY <2>2 DEF CancelJob
    <3>2. stops < MaxStops /\ stops' = stops + 1
      BY <2>2 DEF CancelJob, CountStop
    <3>3. JobTypes'
      BY <2>2, RequeueTypes DEF CancelJob
    <3>4. Goto(w, "cancelled") /\ UNCHANGED <<cur, rowVars, passVars, crashes, marks>>
      BY <2>2 DEF CancelJob
    <3> QED BY <3>1, <3>2, <3>3, <3>4 DEF JobTypes
  <2>3. CASE CancelIdle(w)
    BY <2>3 DEF CancelIdle, CountStop
  <2>4. CASE CancelSwallowed(w)
    BY <2>4 DEF CancelSwallowed, CountStop
  <2> QED BY <1>10, <2>1, <2>2, <2>3, <2>4 DEF StopStep
<1>11. ASSUME NEW w \in Workers, Crash(w) PROVE TypeOK'
  BY <1>11 DEF Crash
<1>12. ASSUME NEW w \in Workers, WorkerHeartbeatExpires(w) PROVE TypeOK'
  BY <1>12 DEF WorkerHeartbeatExpires
<1>13. ASSUME NEW j \in Jobs, MarkJobRecoverable(j) \/ MarkJobOrphaned(j) PROVE TypeOK'
  BY <1>13 DEF MarkJobRecoverable, MarkJobOrphaned, UserMarks
<1>14. CASE UNCHANGED vars
  BY <1>14 DEF vars
<1> QED
  BY <1>1, <1>2, <1>3, <1>4, <1>5, <1>6, <1>7, <1>8, <1>9, <1>10, <1>11, <1>12, <1>13,
     <1>14
     DEF Next

(* Every variable keeps to its values, whatever crashes, stops, marks and  *)
(* overlapping recovery passes do to the two tables.                       *)
THEOREM TypeCorrect == Spec => []TypeOK
  BY TypeInit, TypeStep, PTL DEF Spec

-----------------------------------------------------------------------------
(* The inductive invariant of the queue.                                   *)

(* A step in which no user marks a job, no process crashes and none that   *)
(* has a job is stopped.                                                   *)
Peaceful ==
    /\ \A j \in Jobs : ~MarkJobRecoverable(j) /\ ~MarkJobOrphaned(j)
    /\ \A w \in Workers : ~Crash(w) /\ (StopStep(w) => cur[w] = None)

LEMMA CalmIsPeaceful == ASSUME Calm, TypeOK PROVE Peaceful
<1> USE DEF Calm, TypeOK
<1>1. ASSUME NEW j \in Jobs PROVE ~MarkJobRecoverable(j) /\ ~MarkJobOrphaned(j)
  BY DEF MarkJobRecoverable, MarkJobOrphaned, UserMarks
<1>2. ASSUME NEW w \in Workers PROVE ~Crash(w)
  BY DEF Crash
<1>3. ASSUME NEW w \in Workers, StopStep(w) PROVE cur[w] = None
  BY <1>3 DEF StopStep, StopSignal, CancelJob, CancelIdle, CancelSwallowed, CountStop
<1> QED BY <1>1, <1>2, <1>3 DEF Peaceful

LEMMA QueueInvInit == Init => QueueInv
  BY TypeInit, NoneAssumption
     DEF Init, QueueInv, JobWhileBusy, OneHolder, HolderOwnsRow, OnePass,
         SnapshotOfOrphans, NobodyDead, Busy

LEMMA QueueInvStep ==
    ASSUME Timely, Serial, Peaceful, QueueInv, [Next]_vars
    PROVE  QueueInv'
<1>1. TypeOK'
  BY TypeStep DEF QueueInv
<1> USE <1>1, NoneAssumption, WorkersAssumption
    DEF QueueInv, JobWhileBusy, OneHolder, HolderOwnsRow, OnePass, SnapshotOfOrphans,
        NobodyDead, Busy, Settled, Stopping, Beating, jobVars, rowVars, procVars, passVars,
        faults, Goto, WriteRow, WriteStatus, Requeue, Mark, ShutRow, TypeOK
<1>2. ASSUME NEW j \in Jobs, Submit(j) PROVE QueueInv'
  BY <1>2 DEF Submit
<1>3. ASSUME NEW j \in Jobs, JobHeartbeatExpires(j) PROVE QueueInv'
  BY <1>3 DEF JobHeartbeatExpires, Held, Holds
<1>4. ASSUME NEW w \in Workers, Launch(w) PROVE QueueInv'
  <2>1. CASE w \in Standalone
    <3>1. /\ \A v \in Workers : phase[v] = "rest"
          /\ phase' = [phase EXCEPT ![w] = "stale"]
          /\ snap' = [snap EXCEPT ![w] = StaleJobs]
          /\ pc' = [pc EXCEPT ![w] = "recovering"]
          /\ UNCHANGED <<dead, freeing, rowVars, jobVars, cur, asked, faults>>
      BY <1>4, <2>1 DEF Launch, DetectStaleJobs, MayStartPass
    <3>2. pc[w] = "off"
      BY <1>4 DEF Launch
    <3> QED BY <3>1, <3>2 DEF StaleJobs
  <2>2. CASE w \notin Standalone
    BY <1>4, <2>2, SMTT(30) DEF Launch
  <2> QED BY <2>1, <2>2
<1>5. ASSUME NEW w \in Workers, RecoveryStep(w) PROVE QueueInv'
  <2>1. CASE BeginRecovery(w)
    BY <2>1, SMTT(30) DEF BeginRecovery, DetectStaleJobs, StaleJobs, MayStartPass
  <2>2. ASSUME NEW j \in Jobs, RecoverStaleJob(w, j) PROVE QueueInv'
    BY <2>2 DEF RecoverStaleJob
  <2>3. CASE DetectDeadWorkers(w)
    <3>1. {v \in Workers : wstate[v] = "overdue"} = {}
      OBVIOUS
    <3>2. DeadWorkers = {}
      BY <3>1 DEF DeadWorkers
    <3> QED BY <2>3, <3>2, SMTT(30) DEF DetectDeadWorkers
  <2>4. ASSUME NEW v \in Workers, NEW j \in Jobs \cup {None}, MarkWorkerStale(w, v, j)
        PROVE  FALSE
    BY <2>4 DEF MarkWorkerStale
  <2>5. CASE ReleaseDeadJob(w)
    BY <2>5 DEF ReleaseDeadJob
  <2>6. CASE EndRecovery(w)
    BY <2>6 DEF EndRecovery
  <2> QED BY <1>5, <2>1, <2>2, <2>3, <2>4, <2>5, <2>6 DEF RecoveryStep
<1>6. ASSUME NEW w \in Workers, PipelineStep(w) PROVE QueueInv'
  <2>1. CASE Begin(w)
    BY <2>1 DEF Begin
  <2>2. ASSUME NEW outcome \in Settled, Conclude(w, outcome) PROVE QueueInv'
    BY <2>2 DEF Conclude
  <2>3. CASE Raise(w)
    BY <2>3 DEF Raise
  <2>4. CASE SuspendForClarification(w)
    BY <2>4 DEF SuspendForClarification
  <2> QED BY <1>6, <2>1, <2>2, <2>3, <2>4 DEF PipelineStep
<1>7. ASSUME NEW w \in Workers, LoopStep(w) PROVE QueueInv'
  <2>1. CASE RegisterWorker(w)
    BY <2>1 DEF RegisterWorker
  <2>2. CASE ClaimNextJob(w)
    <3>1. /\ pc[w] = "polling"
          /\ cur[w] = None
          /\ wstate' = [wstate EXCEPT ![w] = "active"]
          /\ ClaimRows(w)
          /\ UNCHANGED <<passVars, faults>>
      BY <2>2 DEF ClaimNextJob
    <3>2. \A j \in Jobs : status[j] # "queued" =>
             status'[j] = status[j] /\ owner'[j] = owner[j] /\ hb'[j] = hb[j]
      BY <3>1 DEF ClaimRows, Claimable
    <3>3. \A j \in Jobs : status[j] = "queued" =>
             status'[j] = "running" /\ owner'[j] = w /\ hb'[j] = "fresh"
      BY <3>1 DEF ClaimRows, Claimable
    <3>4. CASE UNCHANGED <<pc, cur>>
      BY <3>1, <3>2, <3>4
    <3>5. ASSUME NEW j \in Claimable,
                 cur' = [cur EXCEPT ![w] = j],
                 pc' = [pc EXCEPT ![w] = "claimed"]
          PROVE  QueueInv'
      <4>1. j \in Jobs /\ status[j] = "queued"
        BY <3>5 DEF Claimable
      <4>2. \A v \in Workers : cur[v] # j
        BY <4>1
      <4>3. JobWhileBusy' /\ OneHolder'
        BY <3>1, <3>5, <4>1, <4>2
      <4>4. HolderOwnsRow'
        BY <3>1, <3>2, <3>3, <3>5, <4>1
      <4>5. OnePass' /\ SnapshotOfOrphans' /\ NobodyDead'
        BY <3>1, <3>2, <3>5, <4>1
      <4> QED BY <4>3, <4>4, <4>5
    <3> QED BY <2>2, <3>4, <3>5 DEF ClaimNextJob
  <2>3. CASE ReadStatus(w)
    BY <2>3 DEF ReadStatus
  <2>4. CASE MarkCompleted(w)
    BY <2>4 DEF MarkCompleted
  <2>5. CASE MarkFailed(w)
    BY <2>5 DEF MarkFailed
  <2>6. CASE ClearCurrentJob(w)
    BY <2>6 DEF ClearCurrentJob
  <2>7. CASE MarkWorkerShutdown(w)
    BY <2>7 DEF MarkWorkerShutdown
  <2>8. CASE LifespanStop(w)
    BY <2>8 DEF LifespanStop
  <2> QED BY <1>7, <2>1, <2>2, <2>3, <2>4, <2>5, <2>6, <2>7, <2>8 DEF LoopStep
<1>8. ASSUME NEW w \in Workers, HeartbeatJob(w) PROVE QueueInv'
  BY <1>8 DEF HeartbeatJob
<1>9. ASSUME NEW w \in Workers, HeartbeatWorker(w) PROVE QueueInv'
  BY <1>9 DEF HeartbeatWorker
<1>10. ASSUME NEW w \in Workers, Progress(w) PROVE QueueInv'
  BY <1>10 DEF Progress
<1>11. ASSUME NEW w \in Workers, StopStep(w) PROVE QueueInv'
  <2>1. cur[w] = None
    BY <1>11 DEF Peaceful
  <2>2. CASE StopSignal(w)
    BY <2>1, <2>2 DEF StopSignal
  <2>3. CASE CancelIdle(w)
    BY <2>1, <2>3 DEF CancelIdle
  <2> QED BY <1>11, <2>1, <2>2, <2>3 DEF StopStep, CancelJob, CancelSwallowed
<1>12. ASSUME NEW w \in Workers, Crash(w) PROVE FALSE
  BY <1>12 DEF Peaceful
<1>13. ASSUME NEW w \in Workers, WorkerHeartbeatExpires(w) PROVE FALSE
  BY <1>13 DEF WorkerHeartbeatExpires
<1>14. CASE UNCHANGED vars
  BY <1>14 DEF vars
<1> QED
  BY <1>2, <1>3, <1>4, <1>5, <1>6, <1>7, <1>8, <1>9, <1>10, <1>11, <1>12, <1>13, <1>14
     DEF Next, Peaceful

LEMMA QueueInvariant == ASSUME Calm PROVE Spec => []QueueInv
<1>1. QueueInv /\ [Next]_vars => QueueInv'
  BY QueueInvStep, CalmIsPeaceful DEF QueueInv, Calm
<1> QED BY QueueInvInit, <1>1, PTL DEF Spec

(* Under Calm, no two processes ever execute the same job, however many    *)
(* jobs and workers there are: worker ids, the claim and the heartbeats    *)
(* suffice as long as no recovery pass acts on a row that has moved on.    *)
THEOREM MutualExclusion == ASSUME Calm PROVE Spec => []SoleExecutor
<1>1. QueueInv => SoleExecutor
  BY NoneAssumption DEF QueueInv, OneHolder, SoleExecutor, Holds
<1> QED BY QueueInvariant, <1>1, PTL

(* Under Calm, the row of a job under execution is never up for a claim    *)
(* and names its executor, and what a recovery pass read earlier is still  *)
(* nobody's when it writes.                                                *)
THEOREM RowsFollowExecutors ==
    ASSUME Calm PROVE Spec => [](RowMatchesExecutor /\ RecoveryTargetsIdle)
<1>1. QueueInv => RowMatchesExecutor /\ RecoveryTargetsIdle
  <2> SUFFICES ASSUME QueueInv PROVE RowMatchesExecutor /\ RecoveryTargetsIdle
    OBVIOUS
  <2>1. RowMatchesExecutor
    BY NoneAssumption DEF QueueInv, HolderOwnsRow, RowMatchesExecutor, Holds
  <2>2. RecoveryTargetsIdle
    BY NoneAssumption
       DEF QueueInv, TypeOK, HolderOwnsRow, SnapshotOfOrphans, NobodyDead,
           RecoveryTargetsIdle, Held, Holds
  <2> QED BY <2>1, <2>2
<1> QED BY QueueInvariant, <1>1, PTL

(* Under Calm only the executor of a job touches a settled row, and only   *)
(* to mark a failure completed or a suspension failed.                     *)
Overwrites(w, j) ==
    /\ Holds(w, j)
    /\ \/ pc[w] = "marking" /\ status[j] = "failed" /\ status'[j] = "completed"
       \/ pc[w] = "raised" /\ status[j] = "waiting" /\ status'[j] = "failed"

LEMMA SettledRows ==
    ASSUME Calm, QueueInv, Next, NEW j \in Jobs, status[j] \in Settled
    PROVE  \/ status'[j] = status[j]
           \/ \E w \in Workers : Overwrites(w, j)
<1> USE NoneAssumption
    DEF QueueInv, TypeOK, JobWhileBusy, HolderOwnsRow, SnapshotOfOrphans, NobodyDead,
        Settled, Busy, Beating, jobVars, Requeue, Mark, WriteStatus
<1>1. ASSUME NEW k \in Jobs, Submit(k) \/ JobHeartbeatExpires(k) PROVE status'[j] = status[j]
  BY <1>1 DEF Submit, JobHeartbeatExpires
<1>2. ASSUME NEW w \in Workers, Launch(w) \/ HeartbeatJob(w) \/ HeartbeatWorker(w)
      PROVE  status'[j] = status[j]
  BY <1>2 DEF Launch, HeartbeatJob, HeartbeatWorker
<1>3. ASSUME NEW w \in Workers, RecoveryStep(w) PROVE status'[j] = status[j]
  <2>1. ASSUME NEW k \in Jobs, RecoverStaleJob(w, k) PROVE status'[j] = status[j]
    BY <2>1 DEF RecoverStaleJob
  <2>2. CASE ReleaseDeadJob(w)
    BY <2>2 DEF ReleaseDeadJob
  <2>3. CASE BeginRecovery(w) \/ DetectDeadWorkers(w) \/ EndRecovery(w)
    BY <2>3 DEF BeginRecovery, DetectDeadWorkers, EndRecovery
  <2>4. ASSUME NEW v \in Workers, NEW k \in Jobs \cup {None}, MarkWorkerStale(w, v, k)
        PROVE  status'[j] = status[j]
    BY <2>4 DEF MarkWorkerStale
  <2> QED BY <1>3, <2>1, <2>2, <2>3, <2>4 DEF RecoveryStep
<1>4. ASSUME NEW w \in Workers, PipelineStep(w) \/ Progress(w) PROVE status'[j] = status[j]
  <2>1. pc[w] \in {"claimed", "executing"}
    BY <1>4 DEF PipelineStep, Progress, Begin, Conclude, Raise, SuspendForClarification
  <2>2. cur[w] # j
    BY <2>1
  <2>3. CASE Begin(w) \/ Progress(w) \/ Raise(w) \/ SuspendForClarification(w)
    BY <2>2, <2>3 DEF Begin, Progress, Raise, SuspendForClarification
  <2>4. ASSUME NEW outcome \in Settled, Conclude(w, outcome) PROVE status'[j] = status[j]
    BY <2>2, <2>4 DEF Conclude
  <2> QED BY <1>4, <2>3, <2>4 DEF PipelineStep
<1>5. ASSUME NEW w \in Workers, MarkCompleted(w) \/ MarkFailed(w)
      PROVE  status'[j] = status[j] \/ Overwrites(w, j)
  <2>1. CASE cur[w] # j
    BY <1>5, <2>1 DEF MarkCompleted, MarkFailed
  <2>2. CASE cur[w] = j /\ MarkCompleted(w)
    BY <2>2 DEF MarkCompleted, Overwrites, Holds
  <2>3. CASE cur[w] = j /\ MarkFailed(w)
    BY <2>3 DEF MarkFailed, Overwrites, Holds
  <2> QED BY <1>5, <2>1, <2>2, <2>3
<1>6. ASSUME NEW w \in Workers, ClaimNextJob(w) PROVE status'[j] = status[j]
  BY <1>6 DEF ClaimNextJob, ClaimRows, Claimable
<1>7. ASSUME NEW w \in Workers,
             RegisterWorker(w) \/ ReadStatus(w) \/ ClearCurrentJob(w) \/ MarkWorkerShutdown(w)
      PROVE  status'[j] = status[j]
  BY <1>7 DEF RegisterWorker, ReadStatus, ClearCurrentJob, MarkWorkerShutdown
<1>8. ASSUME NEW w \in Workers, LifespanStop(w) PROVE status'[j] = status[j]
  BY <1>8 DEF LifespanStop
<1>9. ASSUME NEW w \in Workers, StopStep(w) PROVE status'[j] = status[j]
  <2>1. cur[w] = None
    BY <1>9 DEF Calm, StopStep, StopSignal, CancelJob, CancelIdle, CancelSwallowed, CountStop
  <2> QED BY <1>9, <2>1 DEF StopStep, StopSignal, CancelJob, CancelIdle, CancelSwallowed
<1>10. ASSUME NEW w \in Workers, Crash(w) \/ WorkerHeartbeatExpires(w)
       PROVE  status'[j] = status[j]
  BY <1>10 DEF Crash, WorkerHeartbeatExpires
<1>20. ASSUME NEW k \in Jobs PROVE ~MarkJobRecoverable(k) /\ ~MarkJobOrphaned(k)
  BY CalmIsPeaceful DEF Peaceful, QueueInv
<1> QED
  BY <1>1, <1>2, <1>3, <1>4, <1>5, <1>6, <1>7, <1>8, <1>9, <1>10, <1>20 DEF Next, LoopStep

(* Under Calm an outcome is overwritten by nobody but the executor of the  *)
(* job, and by it only where a failure of the pipeline is marked completed *)
(* or a suspension for a clarification failed.                             *)
THEOREM OnlyTheExecutorOverwrites == ASSUME Calm PROVE Spec => OnlyExecutorOverwrites
<1>1. QueueInv /\ [Next]_vars =>
        [\A j \in Jobs :
            status[j] \in Settled /\ status'[j] # status[j] => \E w \in Workers : Overwrites(w, j)]_vars
  BY SettledRows
<1> QED BY QueueInvariant, <1>1, PTL DEF Spec, OnlyExecutorOverwrites, Overwrites

-----------------------------------------------------------------------------
(* The queue implements the abstract one.                                  *)

(* A job gets its outcome from its executor alone. *)
LEMMA UnsettledRows ==
    ASSUME Calm, QueueInv, Next, NEW j \in Jobs, status[j] \notin Settled, ~Held(j)
    PROVE  status'[j] \notin Settled
<1> USE NoneAssumption
    DEF QueueInv, TypeOK, JobWhileBusy, NobodyDead, Settled, Busy, Held, Holds, jobVars,
        Requeue, Mark, WriteStatus
<1>1. ASSUME NEW w \in Workers, pc[w] \in Busy PROVE cur[w] # j
  BY <1>1
<1>2. ASSUME NEW k \in Jobs, Submit(k) \/ JobHeartbeatExpires(k) PROVE status'[j] \notin Settled
  BY <1>2 DEF Submit, JobHeartbeatExpires
<1>3. ASSUME NEW w \in Workers,
             Launch(w) \/ HeartbeatJob(w) \/ HeartbeatWorker(w) \/ Crash(w) \/ WorkerHeartbeatExpires(w)
      PROVE  status'[j] \notin Settled
  BY <1>3 DEF Launch, HeartbeatJob, HeartbeatWorker, Crash, WorkerHeartbeatExpires
<1>4. ASSUME NEW w \in Workers, RecoveryStep(w) PROVE status'[j] \notin Settled
  <2>1. ASSUME NEW k \in Jobs, RecoverStaleJob(w, k) PROVE status'[j] \notin Settled
    BY <2>1 DEF RecoverStaleJob
  <2>2. CASE ReleaseDeadJob(w)
    BY <2>2 DEF ReleaseDeadJob
  <2>3. CASE BeginRecovery(w) \/ DetectDeadWorkers(w) \/ EndRecovery(w)
    BY <2>3 DEF BeginRecovery, DetectDeadWorkers, EndRecovery
  <2>4. ASSUME NEW v \in Workers, NEW k \in Jobs \cup {None}, MarkWorkerStale(w, v, k)
        PROVE  status'[j] \notin Settled
    BY <2>4 DEF MarkWorkerStale
  <2> QED BY <1>4, <2>1, <2>2, <2>3, <2>4 DEF RecoveryStep
<1>5. ASSUME NEW w \in Workers, PipelineStep(w) \/ Progress(w) PROVE status'[j] \notin Settled
  <2>1. cur[w] # j
    BY <1>1, <1>5 DEF PipelineStep, Progress, Begin, Conclude, Raise, SuspendForClarification
  <2>2. CASE Begin(w) \/ Progress(w) \/ Raise(w) \/ SuspendForClarification(w)
    BY <2>1, <2>2 DEF Begin, Progress, Raise, SuspendForClarification
  <2>3. ASSUME NEW outcome \in Settled, Conclude(w, outcome) PROVE status'[j] \notin Settled
    BY <2>1, <2>3 DEF Conclude
  <2> QED BY <1>5, <2>2, <2>3 DEF PipelineStep
<1>6. ASSUME NEW w \in Workers, LoopStep(w) PROVE status'[j] \notin Settled
  <2>1. CASE MarkCompleted(w) \/ MarkFailed(w)
    BY <1>1, <2>1 DEF MarkCompleted, MarkFailed
  <2>2. CASE ClaimNextJob(w)
    BY <2>2 DEF ClaimNextJob, ClaimRows, Claimable
  <2>3. CASE RegisterWorker(w) \/ ReadStatus(w) \/ ClearCurrentJob(w) \/ MarkWorkerShutdown(w)
    BY <2>3 DEF RegisterWorker, ReadStatus, ClearCurrentJob, MarkWorkerShutdown
  <2>4. CASE LifespanStop(w)
    BY <2>4 DEF LifespanStop
  <2> QED BY <1>6, <2>1, <2>2, <2>3, <2>4 DEF LoopStep
<1>7. ASSUME NEW w \in Workers, StopStep(w) PROVE status'[j] \notin Settled
  BY <1>7 DEF StopStep, StopSignal, CancelJob, CancelIdle, CancelSwallowed
<1>20. ASSUME NEW k \in Jobs PROVE ~MarkJobRecoverable(k) /\ ~MarkJobOrphaned(k)
  BY CalmIsPeaceful DEF Peaceful, QueueInv
<1> QED BY <1>2, <1>3, <1>4, <1>5, <1>6, <1>7, <1>20 DEF Next

(* A process takes a job in a claim and lets go of it when the loop clears *)
(* it; no other step changes who executes what.                            *)
LEMMA HoldersStep ==
    ASSUME Calm, QueueInv, Next
    PROVE  \/ \E w \in Workers, j \in Claimable : cur' = [cur EXCEPT ![w] = j] /\ ClaimNextJob(w)
           \/ \E w \in Workers : ClearCurrentJob(w)
           \/ \A w \in Workers, j \in Jobs : Holds(w, j)' <=> Holds(w, j)
<1> USE NoneAssumption
    DEF QueueInv, TypeOK, JobWhileBusy, Busy, Stopping, Beating, Holds, procVars, Goto
<1>1. ASSUME NEW k \in Jobs, Submit(k) \/ JobHeartbeatExpires(k)
      PROVE  \A w \in Workers, j \in Jobs : Holds(w, j)' <=> Holds(w, j)
  BY <1>1 DEF Submit, JobHeartbeatExpires
<1>2. ASSUME NEW w \in Workers,
             Launch(w) \/ HeartbeatJob(w) \/ HeartbeatWorker(w) \/ Progress(w)
      PROVE  \A v \in Workers, j \in Jobs : Holds(v, j)' <=> Holds(v, j)
  BY <1>2 DEF Launch, HeartbeatJob, HeartbeatWorker, Progress
<1>3. ASSUME NEW w \in Workers, RecoveryStep(w) PROVE UNCHANGED <<pc, cur>>
  BY <1>3 DEF RecoveryStep, BeginRecovery, RecoverStaleJob, DetectDeadWorkers,
              MarkWorkerStale, ReleaseDeadJob, EndRecovery
<1>4. ASSUME NEW w \in Workers, PipelineStep(w)
      PROVE  \A v \in Workers, j \in Jobs : Holds(v, j)' <=> Holds(v, j)
  <2>1. pc[w] \in Busy /\ cur' = cur
    BY <1>4 DEF PipelineStep, Begin, Conclude, Raise, SuspendForClarification
  <2>2. \E l \in Busy : pc' = [pc EXCEPT ![w] = l]
    BY <1>4 DEF PipelineStep, Begin, Conclude, Raise, SuspendForClarification
  <2> QED BY <2>1, <2>2
<1>5. ASSUME NEW w \in Workers, ReadStatus(w) \/ MarkCompleted(w) \/ MarkFailed(w)
      PROVE  \A v \in Workers, j \in Jobs : Holds(v, j)' <=> Holds(v, j)
  BY <1>5 DEF ReadStatus, MarkCompleted, MarkFailed
<1>6. ASSUME NEW w \in Workers, RegisterWorker(w) \/ LifespanStop(w) \/ MarkWorkerShutdown(w)
      PROVE  \A v \in Workers, j \in Jobs : Holds(v, j)' <=> Holds(v, j)
  <2>1. CASE RegisterWorker(w)
    BY <2>1 DEF RegisterWorker
  <2>2. CASE LifespanStop(w)
    BY <2>2 DEF LifespanStop
  <2>3. CASE MarkWorkerShutdown(w)
    BY <2>3 DEF MarkWorkerShutdown
  <2> QED BY <1>6, <2>1, <2>2, <2>3
<1>7. ASSUME NEW w \in Workers, StopStep(w)
      PROVE  \A v \in Workers, j \in Jobs : Holds(v, j)' <=> Holds(v, j)
  <2>1. cur[w] = None
    BY <1>7 DEF Calm, StopStep, StopSignal, CancelJob, CancelIdle, CancelSwallowed, CountStop
  <2> QED BY <1>7, <2>1 DEF StopStep, StopSignal, CancelJob, CancelIdle, CancelSwallowed
<1>8. ASSUME NEW w \in Workers, ClaimNextJob(w)
      PROVE  \/ \E j \in Claimable : cur' = [cur EXCEPT ![w] = j]
             \/ UNCHANGED <<pc, cur>>
  BY <1>8 DEF ClaimNextJob
<1>9. ASSUME NEW w \in Workers, Crash(w) \/ WorkerHeartbeatExpires(w) PROVE UNCHANGED <<pc, cur>>
  BY <1>9 DEF Crash, WorkerHeartbeatExpires, Calm
<1>20. ASSUME NEW k \in Jobs PROVE ~MarkJobRecoverable(k) /\ ~MarkJobOrphaned(k)
  BY CalmIsPeaceful DEF Peaceful, QueueInv
<1> QED
  BY <1>1, <1>2, <1>3, <1>4, <1>5, <1>6, <1>7, <1>8, <1>9, <1>20 DEF Next, LoopStep

(* Under Calm, the tables, the processes and the recovery passes together  *)
(* do what JobLease says: a job is open, or held by one worker, or settled *)
(* for good.                                                               *)
THEOREM LeaseImplemented == ASSUME Calm PROVE Spec => LeaseSpec
<1>1. Init => Lease!Init
  <2> SUFFICES ASSUME Init PROVE Lease!Init
    OBVIOUS
  <2>1. \A j \in Jobs : {w \in Workers : Holds(w, j)} = {}
    BY DEF Init, Holds, Busy
  <2>2. \A j \in Jobs : (status[j] \in Settled /\ ~Held(j)) = FALSE
    BY DEF Init, Settled
  <2> QED BY <2>1, <2>2 DEF Lease!Init
<1>2. QueueInv /\ [Next]_vars => [Lease!Next]_(Lease!vars)
  <2> SUFFICES ASSUME QueueInv, [Next]_vars PROVE [Lease!Next]_(Lease!vars)
    OBVIOUS
  <2>1. CASE UNCHANGED vars
    BY <2>1 DEF vars, jobVars, procVars, Lease!vars, Holds, Held
  <2>2. ASSUME Next, \A w \in Workers, j \in Jobs : Holds(w, j)' <=> Holds(w, j)
        PROVE  UNCHANGED Lease!vars
    <3>1. \A j \in Jobs : {w \in Workers : Holds(w, j)}' = {w \in Workers : Holds(w, j)}
      BY <2>2
    <3>2. ASSUME NEW j \in Jobs
          PROVE  (status[j] \in Settled /\ ~Held(j))' = (status[j] \in Settled /\ ~Held(j))
      <4>1. Held(j)' <=> Held(j)
        BY <2>2 DEF Held
      <4>2. ~Held(j) => (status'[j] \in Settled <=> status[j] \in Settled)
        BY <2>2, SettledRows, UnsettledRows DEF Held, Overwrites
      <4> QED BY <4>1, <4>2
    <3> QED BY <3>1, <3>2 DEF Lease!vars
  <2>3. ASSUME NEW w \in Workers, NEW j \in Claimable, cur' = [cur EXCEPT ![w] = j],
               ClaimNextJob(w)
        PROVE  Lease!Acquire(j, w)
    <3> USE NoneAssumption DEF Busy
    <3>1. /\ j \in Jobs /\ status[j] = "queued"
          /\ cur \in [Workers -> Jobs \cup {None}] /\ pc \in [Workers -> PCs]
          /\ cur[w] = None /\ pc[w] = "polling"
      BY <2>3 DEF Claimable, ClaimNextJob, QueueInv, TypeOK, JobWhileBusy
    <3>2. pc' = [pc EXCEPT ![w] = "claimed"]
      BY <2>3, <3>1 DEF ClaimNextJob, Goto, Claimable
    <3>3. \A v \in Workers : ~Holds(v, j)
      BY <3>1 DEF QueueInv, HolderOwnsRow, Holds
    <3>4. \A k \in Jobs, v \in Workers : Holds(v, k)' <=> Holds(v, k) \/ (v = w /\ k = j)
      BY <2>3, <3>1, <3>2 DEF Holds
    <3>5. \A k \in Jobs : ~Holds(w, k)
      BY <3>1 DEF Holds
    <3>6. \A k \in Jobs :
             {v \in Workers : Holds(v, k)}' = IF k = j THEN {w} ELSE {v \in Workers : Holds(v, k)}
      BY <3>3, <3>4
    <3>7. \A k \in Jobs : status'[k] \in Settled <=> status[k] \in Settled
      BY <2>3 DEF ClaimNextJob, ClaimRows, Claimable, Settled
    <3>8. \A k \in Jobs : (status[k] \in Settled /\ ~Held(k))' = (status[k] \in Settled /\ ~Held(k))
      <4> SUFFICES ASSUME NEW k \in Jobs
                   PROVE  (status[k] \in Settled /\ ~Held(k))' <=> (status[k] \in Settled /\ ~Held(k))
        OBVIOUS
      <4>1. CASE k = j
        BY <3>1, <3>7, <4>1 DEF Settled
      <4>2. CASE k # j
        BY <3>4, <3>7, <4>2 DEF Held
      <4> QED BY <4>1, <4>2
    <3>9. ~(status[j] \in Settled /\ ~Held(j))
      BY <3>1 DEF Settled
    <3>10. {v \in Workers : Holds(v, j)} = {}
      BY <3>3
    <3>11. \A k \in Jobs : w \notin {v \in Workers : Holds(v, k)}
      BY <3>5
    <3> QED BY <3>1, <3>6, <3>8, <3>9, <3>10, <3>11 DEF Lease!Acquire
  <2>4. ASSUME NEW w \in Workers, ClearCurrentJob(w) PROVE Lease!Settle(cur[w], w) /\ cur[w] \in Jobs
    <3> USE NoneAssumption DEF Busy
    <3>1. /\ cur \in [Workers -> Jobs \cup {None}] /\ pc \in [Workers -> PCs]
          /\ cur[w] \in Jobs /\ pc[w] = "settled" /\ status[cur[w]] \in Settled
          /\ pc' = [pc EXCEPT ![w] = "polling"] /\ cur' = [cur EXCEPT ![w] = None]
          /\ status' = status
      BY <2>4 DEF ClearCurrentJob, QueueInv, TypeOK, JobWhileBusy, HolderOwnsRow, Goto, jobVars
    <3> DEFINE j == cur[w]
    <3>2. \A v \in Workers : Holds(v, j) <=> v = w
      BY <3>1 DEF QueueInv, OneHolder, Holds
    <3>3. \A k \in Jobs, v \in Workers : Holds(v, k)' <=> Holds(v, k) /\ ~(v = w /\ k = j)
      BY <3>1 DEF Holds
    <3> HIDE DEF j
    <3>4. \A k \in Jobs :
             {v \in Workers : Holds(v, k)}' = IF k = j THEN {} ELSE {v \in Workers : Holds(v, k)}
      BY <3>2, <3>3
    <3>5. {v \in Workers : Holds(v, j)} = {w}
      BY <3>2
    <3>6. \A k \in Jobs : (status[k] \in Settled /\ ~Held(k))'
                          = IF k = j THEN TRUE ELSE (status[k] \in Settled /\ ~Held(k))
      <4> SUFFICES ASSUME NEW k \in Jobs
                   PROVE  (status[k] \in Settled /\ ~Held(k))'
                          <=> (k = j \/ (status[k] \in Settled /\ ~Held(k)))
        BY Zenon
      <4>1. CASE k = j
        BY <3>1, <3>2, <3>3, <4>1 DEF Held, j
      <4>2. CASE k # j
        BY <3>1, <3>3, <4>2 DEF Held
      <4> QED BY <4>1, <4>2
    <3>7. j \in Jobs
      BY <3>1 DEF j
    <3> QED BY <3>4, <3>5, <3>6, <3>7 DEF Lease!Settle, j
  <2> QED
    <3>1. \A j \in Claimable : j \in Jobs
      BY DEF Claimable
    <3> QED BY <2>1, <2>2, <2>3, <2>4, <3>1, HoldersStep DEF Lease!Next
<1> QED BY QueueInvariant, <1>1, <1>2, PTL DEF Spec, LeaseSpec, Lease!Spec

-----------------------------------------------------------------------------
(* A crash is survived.                                                    *)

Disturbances == crashes + stops + marks

RunningBeats == \A j \in Jobs : status[j] = "running" => hb[j] # "null"

(* A running row without a heartbeat belongs to a process that has still   *)
(* to read or to write the outcome of the job.                             *)
NullIsAhead ==
    \A j \in Jobs : status[j] = "running" /\ hb[j] = "null" =>
        \E w \in Workers : Holds(w, j) /\ pc[w] # "settled"

(* Before the first disturbance the queue is as under Calm, and no running *)
(* row is without a heartbeat; after it only such rows are as somebody is  *)
(* at work on, and nothing may stop him any more.                          *)
VisibleInv ==
    /\ TypeOK
    /\ Disturbances = 0 => QueueInv /\ RunningBeats
    /\ Disturbances <= 1 => NullIsAhead

(* What a step does to the count of disturbances. *)
LEMMA DisturbancesGrow ==
    ASSUME TypeOK, [Next]_vars
    PROVE  /\ Disturbances \in Nat /\ Disturbances' \in Nat
           /\ Disturbances' = 0 => Disturbances = 0 /\ Peaceful
           /\ Disturbances' <= 1 /\ ~Peaceful => Disturbances = 0
           /\ Disturbances <= Disturbances'
<1>1. /\ crashes \in Nat /\ stops \in Nat /\ marks \in Nat
      /\ crashes' \in Nat /\ stops' \in Nat /\ marks' \in Nat
  BY BoundsAssumption, TypeStep DEF TypeOK
<1>2. ASSUME NEW j \in Jobs, MarkJobRecoverable(j) \/ MarkJobOrphaned(j)
      PROVE  Disturbances' = Disturbances + 1
  <2>1. marks' = marks + 1 /\ crashes' = crashes /\ stops' = stops
    BY <1>2 DEF MarkJobRecoverable, MarkJobOrphaned, UserMarks
  <2> QED BY <1>1, <2>1 DEF Disturbances
<1>3. ASSUME NEW w \in Workers, Crash(w) \/ StopStep(w) PROVE Disturbances' = Disturbances + 1
  <2>1. CASE Crash(w)
    BY <1>1, <2>1 DEF Crash, Disturbances
  <2>2. CASE StopStep(w)
    <3>1. stops' = stops + 1 /\ crashes' = crashes /\ marks' = marks
      BY <2>2 DEF StopStep, StopSignal, CancelJob, CancelIdle, CancelSwallowed, CountStop
    <3> QED BY <1>1, <3>1 DEF Disturbances
  <2> QED BY <1>3, <2>1, <2>2
<1>4. ASSUME NEW w \in Workers,
             \/ Launch(w) \/ RecoveryStep(w) \/ PipelineStep(w) \/ LoopStep(w)
             \/ HeartbeatJob(w) \/ HeartbeatWorker(w) \/ Progress(w) \/ WorkerHeartbeatExpires(w)
      PROVE  UNCHANGED faults
  BY <1>4 DEF Launch, RecoveryStep, BeginRecovery, RecoverStaleJob, DetectDeadWorkers, MarkWorkerStale,
     ReleaseDeadJob, EndRecovery, PipelineStep, Begin, Conclude, Raise, SuspendForClarification,
     LoopStep, RegisterWorker, ClaimNextJob, ReadStatus, MarkCompleted, MarkFailed, ClearCurrentJob,
     MarkWorkerShutdown, LifespanStop, HeartbeatJob, HeartbeatWorker, Progress, WorkerHeartbeatExpires
<1>5. ASSUME NEW j \in Jobs, Submit(j) \/ JobHeartbeatExpires(j) PROVE UNCHANGED faults
  BY <1>5 DEF Submit, JobHeartbeatExpires
<1>6. Disturbances' = Disturbances \/ Disturbances' = Disturbances + 1
  <2>1. CASE UNCHANGED faults
    BY <2>1 DEF faults, Disturbances
  <2> QED BY <2>1, <1>2, <1>3, <1>4, <1>5 DEF Next, vars
<1>7. ~Peaceful => Disturbances' = Disturbances + 1
  BY <1>2, <1>3 DEF Peaceful
<1>8. Disturbances \in Nat /\ Disturbances' \in Nat
  <2>1. \A a, b, c \in Nat : a + b + c \in Nat
    OBVIOUS
  <2> QED BY <1>1, <2>1, Zenon DEF Disturbances
<1> QED BY <1>6, <1>7, <1>8

LEMMA RunningBeatsStep ==
    ASSUME QueueInv, RunningBeats, Peaceful, [Next]_vars
    PROVE  RunningBeats'
<1> USE NoneAssumption
    DEF RunningBeats, QueueInv, TypeOK, JobWhileBusy, Busy, Settled, jobVars, Requeue, Mark,
        WriteStatus
<1>1. ASSUME UNCHANGED <<status, hb>> PROVE RunningBeats'
  BY <1>1
<1>2. ASSUME NEW j \in Jobs, Submit(j) \/ JobHeartbeatExpires(j) PROVE RunningBeats'
  BY <1>2 DEF Submit, JobHeartbeatExpires
<1>3. ASSUME NEW w \in Workers, HeartbeatJob(w) PROVE RunningBeats'
  BY <1>3 DEF HeartbeatJob
<1>4. ASSUME NEW w \in Workers, RecoveryStep(w) PROVE RunningBeats'
  <2>1. ASSUME NEW k \in Jobs, RecoverStaleJob(w, k) PROVE RunningBeats'
    BY <2>1 DEF RecoverStaleJob
  <2>2. CASE ReleaseDeadJob(w)
    BY <2>2 DEF ReleaseDeadJob
  <2>3. CASE BeginRecovery(w) \/ DetectDeadWorkers(w) \/ EndRecovery(w)
    BY <1>1, <2>3 DEF BeginRecovery, DetectDeadWorkers, EndRecovery
  <2>4. ASSUME NEW v \in Workers, NEW k \in Jobs \cup {None}, MarkWorkerStale(w, v, k)
        PROVE  RunningBeats'
    BY <1>1, <2>4 DEF MarkWorkerStale
  <2> QED BY <1>4, <2>1, <2>2, <2>3, <2>4 DEF RecoveryStep
<1>5. ASSUME NEW w \in Workers, PipelineStep(w) \/ Progress(w) PROVE RunningBeats'
  <2>1. pc[w] \in {"claimed", "executing"}
    BY <1>5 DEF PipelineStep, Progress, Begin, Conclude, Raise, SuspendForClarification
  <2>2. cur[w] \in Jobs /\ status[cur[w]] = "running"
    BY <2>1 DEF HolderOwnsRow
  <2>3. CASE Begin(w) \/ Progress(w) \/ Raise(w) \/ SuspendForClarification(w)
    BY <2>2, <2>3 DEF Begin, Progress, Raise, SuspendForClarification
  <2>4. ASSUME NEW outcome \in Settled, Conclude(w, outcome) PROVE RunningBeats'
    BY <2>2, <2>4 DEF Conclude
  <2> QED BY <1>5, <2>3, <2>4 DEF PipelineStep
<1>6. ASSUME NEW w \in Workers, LoopStep(w) PROVE RunningBeats'
  <2>1. CASE MarkCompleted(w) \/ MarkFailed(w)
    BY <2>1 DEF MarkCompleted, MarkFailed
  <2>2. CASE ClaimNextJob(w)
    BY <2>2 DEF ClaimNextJob, ClaimRows, Claimable
  <2>3. CASE RegisterWorker(w) \/ ReadStatus(w) \/ ClearCurrentJob(w) \/ MarkWorkerShutdown(w)
    BY <1>1, <2>3 DEF RegisterWorker, ReadStatus, ClearCurrentJob, MarkWorkerShutdown
  <2>4. CASE LifespanStop(w)
    BY <2>4 DEF LifespanStop
  <2> QED BY <1>6, <2>1, <2>2, <2>3, <2>4 DEF LoopStep
<1>7. ASSUME NEW w \in Workers, StopStep(w) PROVE RunningBeats'
  <2>1. cur[w] = None
    BY <1>7 DEF Peaceful
  <2> QED BY <1>1, <1>7, <2>1 DEF StopStep, StopSignal, CancelJob, CancelIdle, CancelSwallowed, Beating
<1>8. ASSUME NEW w \in Workers, Launch(w) \/ HeartbeatWorker(w) \/ WorkerHeartbeatExpires(w)
      PROVE  RunningBeats'
  BY <1>1, <1>8 DEF Launch, HeartbeatWorker, WorkerHeartbeatExpires
<1>9. CASE UNCHANGED vars
  BY <1>1, <1>9 DEF vars
<1> QED BY <1>2, <1>3, <1>4, <1>5, <1>6, <1>7, <1>8, <1>9 DEF Next, Peaceful

(* Whoever is ahead of the outcome stays ahead until he has written one;   *)
(* only a crash takes him away without.                                    *)
LEMMA NullIsAheadStep ==
    ASSUME TypeOK, NullIsAhead, [Next]_vars, \A w \in Workers : Crash(w) => RunningBeats
    PROVE  NullIsAhead'
<1> USE NoneAssumption DEF NullIsAhead, Holds, Busy, jobVars, procVars, Goto, TypeOK
<1>1. ASSUME UNCHANGED <<status, hb, pc, cur>> PROVE NullIsAhead'
  BY <1>1
<1>2. ASSUME NEW j, Requeue(j) \/ Mark(j, "completed") \/ Mark(j, "failed"),
             NEW w \in Workers, cur' \in {cur, [cur EXCEPT ![w] = None]},
             \A v \in Workers : v # w => pc'[v] = pc[v],
             pc' = pc \/ cur[w] = j \/ pc[w] \notin Busy,
             cur' = cur \/ pc[w] \notin Busy
      PROVE  NullIsAhead'
  <2> SUFFICES ASSUME NEW k \in Jobs, status'[k] = "running", hb'[k] = "null"
               PROVE  \E v \in Workers : Holds(v, k)' /\ pc'[v] # "settled"
    OBVIOUS
  <2>1. k # j /\ status[k] = "running" /\ hb[k] = "null"
    BY <1>2 DEF Requeue, Mark
  <2>2. PICK v \in Workers : Holds(v, k) /\ pc[v] # "settled"
    BY <2>1
  <2>3. pc'[v] = pc[v]
    BY <1>2, <2>1, <2>2
  <2>4. cur'[v] = cur[v]
    BY <1>2, <2>2
  <2> QED BY <2>2, <2>3, <2>4
<1>3. ASSUME NEW j \in Jobs,
             Submit(j) \/ JobHeartbeatExpires(j) \/ MarkJobRecoverable(j) \/ MarkJobOrphaned(j)
      PROVE  NullIsAhead'
  BY <1>3 DEF Submit, JobHeartbeatExpires, MarkJobRecoverable, MarkJobOrphaned, UserMarks, WriteStatus
<1>4. ASSUME NEW w \in Workers, RecoveryStep(w) PROVE NullIsAhead'
  <2>1. ASSUME NEW k \in Jobs, RecoverStaleJob(w, k) PROVE NullIsAhead'
    BY <1>2, <2>1 DEF RecoverStaleJob
  <2>2. CASE ReleaseDeadJob(w)
    BY <1>2, <2>2 DEF ReleaseDeadJob
  <2>3. CASE BeginRecovery(w) \/ DetectDeadWorkers(w) \/ EndRecovery(w)
    BY <1>1, <2>3 DEF BeginRecovery, DetectDeadWorkers, EndRecovery
  <2>4. ASSUME NEW v \in Workers, NEW k \in Jobs \cup {None}, MarkWorkerStale(w, v, k)
        PROVE  NullIsAhead'
    BY <1>1, <2>4 DEF MarkWorkerStale
  <2> QED BY <1>4, <2>1, <2>2, <2>3, <2>4 DEF RecoveryStep
<1>5. ASSUME NEW w \in Workers, PipelineStep(w) \/ Progress(w) PROVE NullIsAhead'
  <2>1. /\ cur' = cur /\ hb' = hb /\ pc[w] \in {"claimed", "executing"}
        /\ \A k \in Jobs : k # cur[w] => status'[k] = status[k]
        /\ \E label \in {"executing", "returned", "raised"} : pc' = [pc EXCEPT ![w] = label]
    <3>1. CASE Begin(w)
      BY <3>1 DEF Begin, WriteStatus
    <3>2. CASE Progress(w)
      <4>1. pc' = [pc EXCEPT ![w] = "executing"]
        BY <3>2 DEF Progress
      <4> QED BY <4>1, <3>2 DEF Progress, WriteStatus
    <3>3. CASE Raise(w)
      BY <3>3 DEF Raise
    <3>4. CASE SuspendForClarification(w)
      BY <3>4 DEF SuspendForClarification, WriteStatus
    <3>5. ASSUME NEW outcome \in Settled, Conclude(w, outcome)
          PROVE  /\ cur' = cur /\ hb' = hb /\ pc[w] = "executing"
                 /\ \A k \in Jobs : k # cur[w] => status'[k] = status[k]
                 /\ pc' = [pc EXCEPT ![w] = "returned"]
      BY <3>5 DEF Conclude, WriteStatus
    <3> QED BY <1>5, <3>1, <3>2, <3>3, <3>4, <3>5 DEF PipelineStep
  <2> SUFFICES ASSUME NEW k \in Jobs, status'[k] = "running", hb'[k] = "null"
               PROVE  \E v \in Workers : Holds(v, k)' /\ pc'[v] # "settled"
    OBVIOUS
  <2>2. CASE k = cur[w]
    BY <2>1, <2>2
  <2>3. CASE k # cur[w]
    <3>1. PICK v \in Workers : Holds(v, k) /\ pc[v] # "settled"
      BY <2>1, <2>3
    <3> QED BY <2>1, <2>3, <3>1
  <2> QED BY <2>2, <2>3
<1>6. ASSUME NEW w \in Workers, HeartbeatJob(w) PROVE NullIsAhead'
  BY <1>6 DEF HeartbeatJob
<1>7. ASSUME NEW w \in Workers, ClaimNextJob(w) PROVE NullIsAhead'
  <2>1. /\ pc[w] = "polling"
        /\ \A v \in Workers : v # w => pc'[v] = pc[v] /\ cur'[v] = cur[v]
        /\ \A k \in Jobs : status'[k] = "running" /\ hb'[k] = "null" =>
              status[k] = "running" /\ hb[k] = "null"
    BY <1>7 DEF ClaimNextJob, ClaimRows, Claimable
  <2> SUFFICES ASSUME NEW k \in Jobs, status'[k] = "running", hb'[k] = "null"
               PROVE  \E v \in Workers : Holds(v, k)' /\ pc'[v] # "settled"
    OBVIOUS
  <2>2. PICK v \in Workers : Holds(v, k) /\ pc[v] # "settled"
    BY <2>1
  <2> QED BY <2>1, <2>2
<1>8. ASSUME NEW w \in Workers, ReadStatus(w) PROVE NullIsAhead'
  BY <1>8 DEF ReadStatus
<1>9. ASSUME NEW w \in Workers, MarkCompleted(w) \/ MarkFailed(w) PROVE NullIsAhead'
  BY <1>2, <1>9 DEF MarkCompleted, MarkFailed
<1>10. ASSUME NEW w \in Workers, RegisterWorker(w) \/ ClearCurrentJob(w) \/ MarkWorkerShutdown(w) \/ Launch(w)
       PROVE  NullIsAhead'
  <2>1. /\ pc[w] \notin Busy \/ pc[w] = "settled"
        /\ \A v \in Workers : v # w => pc'[v] = pc[v] /\ cur'[v] = cur[v]
        /\ UNCHANGED <<status, hb>>
    BY <1>10 DEF RegisterWorker, ClearCurrentJob, MarkWorkerShutdown, Launch
  <2> SUFFICES ASSUME NEW k \in Jobs, status'[k] = "running", hb'[k] = "null"
               PROVE  \E v \in Workers : Holds(v, k)' /\ pc'[v] # "settled"
    OBVIOUS
  <2>2. PICK v \in Workers : Holds(v, k) /\ pc[v] # "settled"
    BY <2>1
  <2>3. v # w
    BY <2>1, <2>2 DEF Holds
  <2>4. pc'[v] = pc[v] /\ cur'[v] = cur[v]
    BY <2>1, <2>3
  <2> QED BY <2>2, <2>4 DEF Holds
<1>11. ASSUME NEW w \in Workers, LifespanStop(w) PROVE NullIsAhead'
  <2>1. /\ pc[w] = "exited" /\ cur' = [cur EXCEPT ![w] = None] /\ pc' = [pc EXCEPT ![w] = "off"]
        /\ IF cur[w] # None THEN Requeue(cur[w]) ELSE UNCHANGED jobVars
    BY <1>11 DEF LifespanStop
  <2>2. CASE cur[w] # None
    <3>1. Requeue(cur[w]) /\ cur' = [cur EXCEPT ![w] = None]
      BY <2>1, <2>2
    <3>2. /\ \A v \in Workers : v # w => pc'[v] = pc[v]
          /\ pc[w] \notin Busy
      BY <2>1
    <3> HIDE DEF NullIsAhead, Holds, Busy, jobVars, procVars, Goto, TypeOK
    <3> QED BY <1>2, <3>1, <3>2, Zenon
  <2>3. CASE cur[w] = None
    BY <2>1, <2>3
  <2> QED BY <2>2, <2>3
<1>12. ASSUME NEW w \in Workers, StopStep(w) PROVE NullIsAhead'
  <2>1. CASE StopSignal(w)
    <3>1. CASE cur[w] # None
      BY <1>2, <2>1, <3>1 DEF StopSignal
    <3>2. CASE cur[w] = None
      BY <1>1, <2>1, <3>2 DEF StopSignal
    <3> QED BY <3>1, <3>2
  <2>2. CASE CancelJob(w)
    BY <1>2, <2>2 DEF CancelJob
  <2>3. CASE CancelIdle(w)
    BY <2>3 DEF CancelIdle
  <2>4. CASE CancelSwallowed(w)
    BY <1>1, <2>4 DEF CancelSwallowed
  <2> QED BY <1>12, <2>1, <2>2, <2>3, <2>4 DEF StopStep
<1>13. ASSUME NEW w \in Workers, Crash(w) PROVE NullIsAhead'
  BY <1>13 DEF Crash, RunningBeats
<1>14. ASSUME NEW w \in Workers, HeartbeatWorker(w) \/ WorkerHeartbeatExpires(w) PROVE NullIsAhead'
  BY <1>1, <1>14 DEF HeartbeatWorker, WorkerHeartbeatExpires
<1>15. CASE UNCHANGED vars
  BY <1>1, <1>15 DEF vars
<1> QED
  BY <1>3, <1>4, <1>5, <1>6, <1>7, <1>8, <1>9, <1>10, <1>11, <1>12, <1>13, <1>14, <1>15
     DEF Next, LoopStep

(* As long as the heartbeats of live processes are in time and passes do   *)
(* not overlap, a job that lost its process to a crash can be found again: *)
(* however many jobs, processes and claims there are, the row it left      *)
(* behind has a heartbeat that grows old.                                  *)
THEOREM OrphansAreVisible == ASSUME Timely, Serial PROVE Spec => []OrphanVisible
<1>1. Init => VisibleInv
  BY TypeInit, QueueInvInit DEF Init, VisibleInv, RunningBeats, NullIsAhead
<1>2. VisibleInv /\ [Next]_vars => VisibleInv'
  <2> SUFFICES ASSUME VisibleInv, [Next]_vars PROVE VisibleInv'
    OBVIOUS
  <2>1. TypeOK /\ TypeOK'
    BY TypeStep DEF VisibleInv
  <2>2. Disturbances' = 0 => QueueInv' /\ RunningBeats'
    BY <2>1, DisturbancesGrow, QueueInvStep, RunningBeatsStep DEF VisibleInv
  <2>3. ASSUME Disturbances' <= 1 PROVE NullIsAhead'
    <3>1. Disturbances <= 1
      BY <2>1, <2>3, DisturbancesGrow
    <3>2. \A w \in Workers : Crash(w) => RunningBeats
      BY <2>1, <2>3, DisturbancesGrow DEF VisibleInv, Peaceful
    <3> QED BY <2>1, <3>1, <3>2, NullIsAheadStep DEF VisibleInv
  <2> QED BY <2>1, <2>2, <2>3 DEF VisibleInv
<1>3. VisibleInv => OrphanVisible
  BY DEF VisibleInv, Disturbances, NullIsAhead, OrphanVisible, Held
<1> QED BY <1>1, <1>2, <1>3, PTL DEF Spec
=============================================================================
