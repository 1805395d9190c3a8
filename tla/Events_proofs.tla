---------------------------- MODULE Events_proofs ----------------------------
(* Proofs about the events of jobs.                                        *)
(*                                                                         *)
(* The event bus (EventWaitEngine): its types, that no wake is lost, and   *)
(* that a driver that is parked can be reached.                            *)
(*                                                                         *)
(* The event stream (EventStream): what a websocket sends is in order and  *)
(* at most one event of a publisher comes twice, and nothing is missed but *)
(* what is announced while it is not yet subscribed.                       *)
EXTENDS EventWaitEngine, EventStream, SequenceTheorems, FiniteSetTheorems, TLAPS

-----------------------------------------------------------------------------
(* The bus.                                                                *)

(* A job that is being run has a registration left to make, and a driver   *)
(* lives on a process.                                                     *)
RunsInBounds ==
    /\ \A j \in Jobs : stage[j] \in {"claimed", "running", "saving", "pausing"} =>
          runs[j] < MaxRuns /\ runner[j] \in Procs
    /\ \A j \in Jobs, n \in Registrations : driver[j][n] # "none" => host[j][n] \in Procs

BusInv == TypeOK /\ RunsInBounds /\ NoLostWake

(* The part of the type invariant that speaks of the four dictionaries. *)
BusTypes ==
    /\ waits \in [Procs -> [Jobs -> 0..MaxRuns]]
    /\ signals \in [Procs -> [Jobs -> EventTypes \cup {None}]]
    /\ timer \in [Procs -> [Jobs -> BOOLEAN]]
    /\ fired \in [Jobs -> SUBSET Registrations]

-----------------------------------------------------------------------------
(* The methods of the engine keep the types of the dictionaries, and leave *)
(* every registered wait with its Event set or with a timer.               *)

LEMMA RegisterKeeps ==
    ASSUME BusTypes, NoLostWake, NEW p \in Procs, NEW j \in Jobs,
           NEW n \in Registrations, Register(p, j, n)
    PROVE  BusTypes' /\ NoLostWake'
<1> USE BoundsAssumption DEF BusTypes, Register, Registrations, EventTypes
<1>1. waits' \in [Procs -> [Jobs -> 0..MaxRuns]]
  OBVIOUS
<1>2. timer' \in [Procs -> [Jobs -> BOOLEAN]]
  OBVIOUS
<1>3. fired' \in [Jobs -> SUBSET Registrations]
  OBVIOUS
<1>4. NoLostWake'
  <2> SUFFICES ASSUME NEW q \in Procs, NEW k \in Jobs, waits'[q][k] # 0
               PROVE  /\ signals'[q][k] # None => waits'[q][k] \in fired'[k]
                      /\ waits'[q][k] \in fired'[k] \/ timer'[q][k]
    BY DEF NoLostWake
  <2>1. CASE q = p /\ k = j
    BY <2>1
  <2>2. CASE ~(q = p /\ k = j)
    <3>1. waits'[q][k] = waits[q][k] /\ timer'[q][k] = timer[q][k] /\ fired[k] \subseteq fired'[k]
      BY <2>2
    <3> QED
      BY <3>1 DEF NoLostWake
  <2> QED
    BY <2>1, <2>2
<1> QED
  BY <1>1, <1>2, <1>3, <1>4

LEMMA SignalKeeps ==
    ASSUME BusTypes, NoLostWake, NEW p \in Procs, NEW j \in Jobs,
           NEW type \in EventTypes, Signal(p, j, type)
    PROVE  BusTypes' /\ NoLostWake'
<1> USE BoundsAssumption DEF BusTypes, Signal, Registrations
<1>1. signals' \in [Procs -> [Jobs -> EventTypes \cup {None}]]
  <2>1. \E v \in EventTypes \cup {None} : signals' = [signals EXCEPT ![p][j] = v]
    <3>1. signals[p][j] \in EventTypes \cup {None}
      OBVIOUS
    <3> QED
      BY <3>1
  <2> QED
    BY <2>1
<1>2. timer' \in [Procs -> [Jobs -> BOOLEAN]]
  <2>1. timer' = timer \/ timer' = [timer EXCEPT ![p][j] = FALSE]
    OBVIOUS
  <2>2. [timer EXCEPT ![p][j] = FALSE] \in [Procs -> [Jobs -> BOOLEAN]]
    OBVIOUS
  <2>3. timer \in [Procs -> [Jobs -> BOOLEAN]]
    OBVIOUS
  <2>4. CASE timer' = timer
    BY <2>3, <2>4
  <2>5. CASE timer' = [timer EXCEPT ![p][j] = FALSE]
    BY <2>2, <2>5
  <2> QED
    BY <2>1, <2>4, <2>5
<1>3. waits[p][j] \in 0..MaxRuns
  OBVIOUS
<1>4. fired' \in [Jobs -> SUBSET Registrations]
  <2>1. waits[p][j] # 0 => waits[p][j] \in 1..MaxRuns
    BY <1>3
  <2> QED
    BY <2>1
<1>5. NoLostWake'
  <2> SUFFICES ASSUME NEW q \in Procs, NEW k \in Jobs, waits'[q][k] # 0
               PROVE  /\ signals'[q][k] # None => waits'[q][k] \in fired'[k]
                      /\ waits'[q][k] \in fired'[k] \/ timer'[q][k]
    BY DEF NoLostWake
  <2>1. CASE q = p /\ k = j
    BY <2>1
  <2>2. CASE ~(q = p /\ k = j)
    <3>1. /\ signals'[q][k] = signals[q][k]
          /\ timer'[q][k] = timer[q][k]
          /\ fired[k] \subseteq fired'[k]
      BY <2>2
    <3> QED
      BY <3>1 DEF NoLostWake
  <2> QED
    BY <2>1, <2>2
<1> QED
  BY <1>1, <1>2, <1>4, <1>5

(* wait on its way out, and clear. *)
LEMMA UnregisterKeeps ==
    ASSUME BusTypes, NoLostWake, NEW p \in Procs, NEW j \in Jobs,
           Unregister(p, j), UNCHANGED fired,
           signals' \in {signals, [signals EXCEPT ![p][j] = None]}
    PROVE  BusTypes' /\ NoLostWake'
<1> USE BoundsAssumption DEF BusTypes, Unregister
<1>1. waits' \in [Procs -> [Jobs -> 0..MaxRuns]]
  OBVIOUS
<1>2. timer' \in [Procs -> [Jobs -> BOOLEAN]]
  OBVIOUS
<1>3. signals' \in [Procs -> [Jobs -> EventTypes \cup {None}]]
  <2>1. CASE signals' = [signals EXCEPT ![p][j] = None]
    BY <2>1
  <2> QED
    BY <2>1
<1>4. NoLostWake'
  <2> SUFFICES ASSUME NEW q \in Procs, NEW k \in Jobs, waits'[q][k] # 0
               PROVE  /\ signals'[q][k] # None => waits'[q][k] \in fired'[k]
                      /\ waits'[q][k] \in fired'[k] \/ timer'[q][k]
    BY DEF NoLostWake
  <2>1. ~(q = p /\ k = j)
    OBVIOUS
  <2>2. /\ waits'[q][k] = waits[q][k]
        /\ signals'[q][k] = signals[q][k]
        /\ timer'[q][k] = timer[q][k]
    <3>1. waits'[q][k] = waits[q][k] /\ timer'[q][k] = timer[q][k]
      BY <2>1
    <3>2. signals'[q][k] = signals[q][k]
      <4>1. CASE signals' = signals
        BY <4>1
      <4>2. CASE signals' = [signals EXCEPT ![p][j] = None]
        BY <4>2, <2>1
      <4> QED
        BY <4>1, <4>2
    <3> QED
      BY <3>1, <3>2
  <2> QED
    BY <2>2 DEF NoLostWake
<1> QED
  BY <1>1, <1>2, <1>3, <1>4

-----------------------------------------------------------------------------
LEMMA BusInvInit == Init => BusInv
BY BoundsAssumption DEF Init, BusInv, TypeOK, RunsInBounds, NoLostWake, Rows,
   Registrations, EventTypes, DriverStates, Stages

(* Every step keeps the types and the bound on registrations; the bus part *)
(* comes from the lemmas above.                                            *)
LEMMA BusInvStep == BusInv /\ [Next]_vars => BusInv'
<1> SUFFICES ASSUME BusInv, [Next]_vars PROVE BusInv'
  OBVIOUS
<1> USE BoundsAssumption, ProcsAssumption DEF Stages, ToRunning, replyVars
<1> DEFINE Rest ==
      /\ row \in [Jobs -> Rows]
      /\ runner \in [Jobs -> Procs \cup {None}]
      /\ stage \in [Jobs -> Stages]
      /\ runs \in [Jobs -> 0..MaxRuns]
      /\ host \in [Jobs -> [Registrations -> Procs \cup {None}]]
      /\ driver \in [Jobs -> [Registrations -> DriverStates]]
      /\ hears \in [Jobs -> [Registrations -> 0..MaxRuns]]
      /\ replies \subseteq Api \X Jobs \X Intents
      /\ answering \subseteq Api \X Jobs
      /\ events \in 0..MaxEvents
      /\ crashes \in 0..MaxCrashes
<1>a. BusTypes /\ Rest /\ RunsInBounds /\ NoLostWake
  BY DEF BusInv, BusTypes, TypeOK
<1>b. SUFFICES BusTypes' /\ Rest' /\ RunsInBounds' /\ NoLostWake'
  BY DEF BusInv, BusTypes, TypeOK
<1>c. ASSUME UNCHANGED busVars PROVE BusTypes' /\ NoLostWake'
  BY <1>a, <1>c DEF BusTypes, NoLostWake, busVars
<1> HIDE DEF Rest
<1>1. ASSUME NEW p \in Procs, NEW j \in Jobs, Run(p, j) PROVE Rest' /\ RunsInBounds'
  BY <1>1, <1>a DEF Run, Rest, RunsInBounds, Rows, runVars, driverVars
<1>2. ASSUME NEW j \in Jobs, Start(j) \/ Progress(j) \/ SaveCursor(j) \/ Pause(j)
      PROVE Rest' /\ RunsInBounds'
  BY <1>2, <1>a DEF Start, Progress, SaveCursor, Pause, runVars, Rest, RunsInBounds, Rows, driverVars
<1>3. ASSUME NEW j \in Jobs, Suspend(j)
      PROVE BusTypes' /\ NoLostWake' /\ Rest' /\ RunsInBounds'
  <2>1. runs[j] + 1 \in Registrations /\ runner[j] \in Procs
    BY <1>3, <1>a DEF Suspend, Rest, RunsInBounds, Registrations
  <2>2. Register(runner[j], j, runs[j] + 1)
    BY <1>3 DEF Suspend
  <2>3. BusTypes' /\ NoLostWake'
    BY <2>1, <2>2, <1>a, RegisterKeeps
  <2>4. Rest'
    BY <1>3, <2>1, <1>a, SMTT(30) DEF Suspend, Rest, DriverStates, Registrations
  <2>5. \A k \in Jobs : stage'[k] \in {"claimed", "running", "saving", "pausing"} =>
           runs'[k] < MaxRuns /\ runner'[k] \in Procs
    BY <1>3, <1>a DEF Suspend, Rest, RunsInBounds
  <2>6. \A k \in Jobs, n \in Registrations : driver'[k][n] # "none" => host'[k][n] \in Procs
    BY <1>3, <2>1, <1>a DEF Suspend, Rest, RunsInBounds
  <2> QED
    BY <2>3, <2>4, <2>5, <2>6 DEF RunsInBounds
<1>4. ASSUME NEW j \in Jobs, NEW outcome \in {"completed", "failed"}, Conclude(j, outcome)
      PROVE Rest' /\ RunsInBounds'
  BY <1>4, <1>a DEF Conclude, Rest, RunsInBounds, Rows, driverVars
<1>5. ASSUME NEW j \in Jobs, ReadStatus(j) PROVE Rest' /\ RunsInBounds'
  BY <1>5, <1>a DEF ReadStatus, Release, Rest, RunsInBounds, driverVars
<1>6. ASSUME NEW j \in Jobs, MarkCompleted(j) PROVE Rest' /\ RunsInBounds'
  BY <1>6, <1>a DEF MarkCompleted, Release, Rest, RunsInBounds, Rows, driverVars
<1>7. ASSUME NEW j \in Jobs, MarkRecoverable(j) PROVE Rest' /\ RunsInBounds'
  BY <1>7, <1>a DEF MarkRecoverable, Rest, RunsInBounds, Rows, runVars, driverVars
<1>8. ASSUME NEW j \in Jobs, NEW n \in Registrations, StartWait(j, n)
      PROVE Rest' /\ RunsInBounds'
  <2>1. waits[host[j][n]][j] \in 0..MaxRuns
    BY <1>8, <1>a DEF StartWait, RunsInBounds, BusTypes
  <2> QED
    BY <1>8, <2>1, <1>a DEF StartWait, MoveDriver, Rest, RunsInBounds, DriverStates, runVars
<1>9. ASSUME NEW j \in Jobs, NEW n \in Registrations, EndWait(j, n) \/ Abort(j, n)
      PROVE BusTypes' /\ NoLostWake' /\ Rest' /\ RunsInBounds'
  <2>1. host[j][n] \in Procs
    BY <1>9, <1>a DEF EndWait, Abort, RunsInBounds
  <2>2. /\ Unregister(host[j][n], j)
        /\ UNCHANGED fired
        /\ signals' \in {signals, [signals EXCEPT ![host[j][n]][j] = None]}
    BY <1>9 DEF EndWait, Abort, Clear
  <2>3. BusTypes' /\ NoLostWake'
    BY <2>1, <2>2, <1>a, UnregisterKeeps
  <2>4. \E state \in {"ended", "closing", "verifying"} : driver' = [driver EXCEPT ![j][n] = state]
    BY <1>9 DEF EndWait, Abort, MoveDriver
  <2>5. driver[j][n] # "none" /\ UNCHANGED <<row, runVars, host, hears, replyVars, events, crashes>>
    BY <1>9 DEF EndWait, Abort
  <2> QED
    BY <2>3, <2>4, <2>5, <1>a DEF Rest, RunsInBounds, DriverStates, runVars
<1>10. ASSUME NEW p \in Procs, NEW j \in Jobs, TimerFires(p, j)
       PROVE BusTypes' /\ NoLostWake' /\ Rest' /\ RunsInBounds'
  <2>1. CASE signals[p][j] = None /\ waits[p][j] # 0
    BY <1>10, <2>1, <1>a, SignalKeeps DEF TimerFires, EventTypes, Rest, RunsInBounds,
       runVars, driverVars
  <2>2. CASE ~(signals[p][j] = None /\ waits[p][j] # 0)
    <3>1. timer' = [timer EXCEPT ![p][j] = FALSE] /\ UNCHANGED <<waits, signals, fired>>
      BY <1>10, <2>2 DEF TimerFires
    <3>2. BusTypes'
      BY <3>1, <1>a DEF BusTypes
    <3>3. NoLostWake'
      BY <3>1, <2>2, <1>a DEF BusTypes, NoLostWake
    <3> QED
      BY <1>10, <3>2, <3>3, <1>a DEF TimerFires, Rest, RunsInBounds, runVars, driverVars
  <2> QED
    BY <2>1, <2>2
<1>11. ASSUME NEW p \in Api, NEW j \in Jobs, NEW type \in EventTypes, PostEvent(p, j, type)
       PROVE BusTypes' /\ NoLostWake' /\ Rest' /\ RunsInBounds'
  <2>1. BusTypes' /\ NoLostWake'
    BY <1>11, <1>a, SignalKeeps DEF PostEvent
  <2> QED
    BY <1>11, <2>1, <1>a DEF PostEvent, CountEvent, Rest, RunsInBounds, runVars, driverVars
<1>12. ASSUME NEW p \in Api, NEW j \in Jobs,
              RecordClarification(p, j) \/ PostClarification(p, j)
              \/ (\E intent \in Intents : PostReply(p, j, intent))
       PROVE Rest' /\ RunsInBounds' /\ UNCHANGED busVars
  <2>1. CASE RecordClarification(p, j)
    BY <2>1, <1>a DEF RecordClarification, Rest, RunsInBounds, Rows, runVars, driverVars
  <2>2. ASSUME NEW intent \in Intents, PostReply(p, j, intent)
        PROVE Rest' /\ RunsInBounds' /\ UNCHANGED busVars
    BY <2>2, <1>a DEF PostReply, CountEvent, Rest, RunsInBounds, runVars, driverVars
  <2>3. CASE CountEvent /\ UNCHANGED <<row, runVars, busVars, driverVars, replyVars, crashes>>
    BY <2>3, <1>a DEF CountEvent, Rest, RunsInBounds, runVars, driverVars
  <2> QED
    BY <1>12, <2>1, <2>2, <2>3 DEF PostClarification, Intents
<1>13. ASSUME NEW p \in Api, NEW j \in Jobs, SignalClarification(p, j)
       PROVE BusTypes' /\ NoLostWake' /\ Rest' /\ RunsInBounds'
  <2>1. BusTypes' /\ NoLostWake'
    BY <1>13, <1>a, SignalKeeps DEF SignalClarification, EventTypes
  <2> QED
    BY <1>13, <2>1, <1>a DEF SignalClarification, Rest, RunsInBounds, runVars, driverVars
<1>14. ASSUME NEW p \in Api, NEW j \in Jobs, NEW intent \in Intents, Continue(p, j, intent)
       PROVE BusTypes' /\ NoLostWake' /\ Rest' /\ RunsInBounds'
  <2>1. Signal(p, j, "cancel") \/ Signal(p, j, "answer") \/ UNCHANGED busVars
    BY <1>14 DEF Continue, Modify
  <2>2. BusTypes' /\ NoLostWake'
    BY <2>1, <1>a, <1>c, SignalKeeps DEF EventTypes
  <2>3. UNCHANGED <<row, runVars, driverVars, answering, events, crashes>> /\ replies' \subseteq replies
    BY <1>14 DEF Continue
  <2> QED
    BY <2>2, <2>3, <1>a DEF Rest, RunsInBounds, runVars, driverVars
<1>15. ASSUME NEW p \in Procs, Restart(p)
       PROVE BusTypes' /\ NoLostWake' /\ Rest' /\ RunsInBounds'
  <2>1. BusTypes'
    BY <1>15, <1>a DEF Restart, BusTypes
  <2>2. NoLostWake'
    BY <1>15, <1>a DEF Restart, BusTypes, NoLostWake
  <2>3. Rest'
    BY <1>15, <1>a DEF Restart, Rest, DriverStates
  <2>4. RunsInBounds'
    BY <1>15, <1>a DEF Restart, Rest, RunsInBounds
  <2> QED
    BY <2>1, <2>2, <2>3, <2>4
<1>16. CASE UNCHANGED vars
  BY <1>16, <1>a, <1>c DEF vars, busVars, runVars, driverVars, Rest, RunsInBounds
<1> QED
  <2>1. ASSUME NEW p \in Procs, NEW j \in Jobs, Run(p, j) PROVE UNCHANGED busVars
    BY <2>1 DEF Run
  <2>2. ASSUME NEW j \in Jobs,
               \/ Start(j) \/ Progress(j) \/ SaveCursor(j) \/ Pause(j)
               \/ ReadStatus(j) \/ MarkCompleted(j) \/ MarkRecoverable(j)
        PROVE  UNCHANGED busVars
    BY <2>2 DEF Start, Progress, SaveCursor, Pause, ReadStatus, MarkCompleted, MarkRecoverable
  <2>3. ASSUME NEW j \in Jobs, NEW outcome \in {"completed", "failed"}, Conclude(j, outcome)
        PROVE UNCHANGED busVars
    BY <2>3 DEF Conclude
  <2>4. ASSUME NEW j \in Jobs, NEW n \in Registrations, StartWait(j, n) PROVE UNCHANGED busVars
    BY <2>4 DEF StartWait
  <2> QED
    BY <1>c, <1>1, <1>2, <1>3, <1>4, <1>5, <1>6, <1>7, <1>8, <1>9, <1>10, <1>11, <1>12,
       <1>13, <1>14, <1>15, <1>16, <2>1, <2>2, <2>3, <2>4
    DEF Next, RunStep, DriverStep, ReplyStep

-----------------------------------------------------------------------------
(* The event bus never loses a wake: whatever the order of registrations,  *)
(* signals, timeouts, driver exits and restarts, a registered wait with a  *)
(* signal has its Event set, and one without has a timer that will set it. *)
THEOREM WakeIsNeverLost == Spec => []NoLostWake
<1>1. Init => BusInv
  BY BusInvInit
<1>2. BusInv /\ [Next]_vars => BusInv'
  BY BusInvStep
<1>3. BusInv => NoLostWake
  BY DEF BusInv
<1> QED
  BY <1>1, <1>2, <1>3, PTL DEF Spec

(* Every variable of the bus model keeps its type. *)
THEOREM BusTypeCorrect == Spec => []TypeOK
<1>1. BusInv => TypeOK
  BY DEF BusInv
<1> QED
  BY <1>1, BusInvInit, BusInvStep, PTL DEF Spec
-----------------------------------------------------------------------------
(* A job that was suspended once has one driver, and its wait is on the    *)
(* bus of the driver's process from the suspension until the driver leaves *)
(* the wait: nothing else takes it off.                                    *)
ReachInv ==
    /\ \A j \in Jobs, n \in Registrations :
          IF driver[j][n] = "none" THEN host[j][n] = None ELSE n <= runs[j]
    /\ \A j \in Jobs : runs[j] = 1 /\ driver[j][1] \in {"spawned", "parked"} =>
          waits[host[j][1]][j] = 1
    /\ \A j \in Jobs : runs[j] = 1 /\ driver[j][1] = "parked" => hears[j][1] = 1

LEMMA ReachInvStep == BusInv /\ ReachInv /\ [Next]_vars => ReachInv'
<1> SUFFICES ASSUME BusInv, ReachInv, [Next]_vars PROVE ReachInv'
  OBVIOUS
<1> USE BoundsAssumption, ProcsAssumption DEF replyVars
<1>a. /\ runs \in [Jobs -> 0..MaxRuns]
      /\ waits \in [Procs -> [Jobs -> 0..MaxRuns]]
      /\ host \in [Jobs -> [Registrations -> Procs \cup {None}]]
      /\ driver \in [Jobs -> [Registrations -> DriverStates]]
      /\ hears \in [Jobs -> [Registrations -> 0..MaxRuns]]
      /\ RunsInBounds
  BY DEF BusInv, TypeOK
<1>b. ASSUME NEW j \in Jobs, runs[j] = 1 PROVE 1 \in Registrations
  BY <1>a, <1>b DEF Registrations
<1>1. ASSUME UNCHANGED <<waits, runs, driverVars>> PROVE ReachInv'
  BY <1>1 DEF ReachInv, driverVars
<1>2. ASSUME NEW j \in Jobs, Suspend(j) PROVE ReachInv'
  <2> DEFINE n == runs[j] + 1
  <2>1. /\ n \in Registrations /\ runner[j] \in Procs
        /\ waits' = [waits EXCEPT ![runner[j]][j] = n]
        /\ runs' = [runs EXCEPT ![j] = n]
        /\ host' = [host EXCEPT ![j][n] = runner[j]]
        /\ driver' = [driver EXCEPT ![j][n] = "spawned"]
        /\ hears' = hears
    BY <1>2, <1>a DEF Suspend, Register, RunsInBounds, Registrations
  <2>2. ASSUME NEW k \in Jobs, NEW m \in Registrations
        PROVE  IF driver'[k][m] = "none" THEN host'[k][m] = None ELSE m <= runs'[k]
    <3>1. CASE k = j /\ m = n
      BY <2>1, <3>1, <1>a DEF Registrations
    <3>2. CASE ~(k = j /\ m = n)
      <4>1. driver'[k][m] = driver[k][m] /\ host'[k][m] = host[k][m]
        BY <2>1, <3>2, <1>a
      <4>2. /\ IF driver[k][m] = "none" THEN host[k][m] = None ELSE m <= runs[k]
            /\ runs[k] <= runs'[k] /\ runs[k] \in Nat /\ runs'[k] \in Nat
        BY <2>1, <1>a DEF ReachInv
      <4> QED
        BY <4>1, <4>2 DEF Registrations
    <3> QED
      BY <3>1, <3>2
  <2>3. ASSUME NEW k \in Jobs, runs'[k] = 1, driver'[k][1] \in {"spawned", "parked"}
        PROVE  /\ waits'[host'[k][1]][k] = 1
               /\ driver'[k][1] = "parked" => hears'[k][1] = 1
    <3>1. CASE k = j
      <4>1. n = 1
        BY <2>1, <2>3, <3>1, <1>a
      <4> QED
        BY <4>1, <2>1, <3>1, <1>a
    <3>2. CASE k # j
      <4>1. runs[k] = 1 /\ driver'[k] = driver[k] /\ host'[k] = host[k]
        BY <2>1, <2>3, <3>2, <1>a
      <4>2. host[k][1] \in Procs
        BY <4>1, <2>3, <1>a, <1>b DEF RunsInBounds
      <4>3. waits'[host[k][1]][k] = waits[host[k][1]][k]
        BY <2>1, <3>2, <4>2, <1>a
      <4> QED
        BY <4>1, <4>3, <2>1, <2>3 DEF ReachInv
    <3> QED
      BY <3>1, <3>2
  <2> QED
    BY <2>2, <2>3 DEF ReachInv
<1>3. ASSUME NEW j \in Jobs, NEW n \in Registrations, StartWait(j, n) PROVE ReachInv'
  <2> DEFINE e == waits[host[j][n]][j]
  <2>1. /\ driver[j][n] = "spawned"
        /\ driver' = [driver EXCEPT ![j][n] = IF e = 0 THEN "ended" ELSE "parked"]
        /\ hears' = [hears EXCEPT ![j][n] = e]
        /\ UNCHANGED <<runs, waits, host>>
    BY <1>3 DEF StartWait, MoveDriver, runVars, busVars
  <2>2. ASSUME NEW k \in Jobs, runs[k] = 1, driver'[k][1] \in {"spawned", "parked"}
        PROVE  /\ waits[host[k][1]][k] = 1
               /\ driver'[k][1] = "parked" => hears'[k][1] = 1
    <3>1. CASE k = j /\ n = 1
      BY <2>1, <2>2, <3>1, <1>a DEF ReachInv
    <3>2. CASE ~(k = j /\ n = 1)
      BY <2>1, <2>2, <3>2, <1>a, <1>b DEF ReachInv
    <3> QED
      BY <3>1, <3>2
  <2> QED
    BY <2>1, <2>2, <1>a DEF ReachInv
<1>4. ASSUME NEW j \in Jobs, NEW n \in Registrations, EndWait(j, n) \/ Abort(j, n)
      PROVE  ReachInv'
  <2>1. /\ driver[j][n] # "none"
        /\ \E state \in {"ended", "closing", "verifying"} : driver' = [driver EXCEPT ![j][n] = state]
        /\ waits' = [waits EXCEPT ![host[j][n]][j] = 0]
        /\ UNCHANGED <<runs, host, hears>>
    BY <1>4 DEF EndWait, Abort, MoveDriver, Clear, Unregister, runVars
  <2>2. ASSUME NEW k \in Jobs, runs[k] = 1, driver'[k][1] \in {"spawned", "parked"}
        PROVE  k # j /\ driver[k][1] = driver'[k][1]
    <3>1. CASE k = j
      <4>1. n = 1
        BY <2>1, <2>2, <3>1, <1>a DEF ReachInv, Registrations
      <4> QED
        BY <4>1, <2>1, <2>2, <3>1, <1>a, <1>b
    <3>2. CASE k # j
      BY <2>1, <3>2, <1>a
    <3> QED
      BY <3>1, <3>2
  <2>3. ASSUME NEW k \in Jobs, runs[k] = 1, driver'[k][1] \in {"spawned", "parked"}
        PROVE  waits'[host[k][1]][k] = 1 /\ (driver'[k][1] = "parked" => hears[k][1] = 1)
    <3>1. host[k][1] \in Procs
      BY <2>2, <2>3, <1>a, <1>b DEF RunsInBounds
    <3>2. waits'[host[k][1]][k] = waits[host[k][1]][k]
      BY <2>1, <2>2, <2>3, <3>1, <1>a
    <3> QED
      BY <2>2, <2>3, <3>2 DEF ReachInv
  <2>4. ASSUME NEW k \in Jobs, NEW m \in Registrations
        PROVE  driver'[k][m] = "none" <=> driver[k][m] = "none"
    BY <2>1, <1>a
  <2> QED
    BY <2>1, <2>3, <2>4 DEF ReachInv
<1>5. ASSUME NEW p \in Procs, Restart(p) PROVE ReachInv'
  <2>1. /\ UNCHANGED <<runs, host, hears>>
        /\ waits' = [waits EXCEPT ![p] = [j \in Jobs |-> 0]]
        /\ driver' = [j \in Jobs |-> [n \in Registrations |->
                        IF host[j][n] = p THEN "ended" ELSE driver[j][n]]]
    BY <1>5 DEF Restart
  <2>2. ASSUME NEW k \in Jobs, NEW m \in Registrations
        PROVE  IF driver'[k][m] = "none" THEN host[k][m] = None ELSE m <= runs[k]
    BY <2>1 DEF ReachInv
  <2>3. ASSUME NEW k \in Jobs, runs[k] = 1, driver'[k][1] \in {"spawned", "parked"}
        PROVE  waits'[host[k][1]][k] = 1 /\ (driver'[k][1] = "parked" => hears[k][1] = 1)
    <3>1. 1 \in Registrations
      BY <2>3, <1>b
    <3>2. host[k][1] # p /\ driver'[k][1] = driver[k][1]
      BY <2>1, <2>3, <3>1
    <3>3. waits[host[k][1]][k] = 1 /\ host[k][1] \in Procs
      BY <2>3, <3>1, <3>2, <1>a DEF ReachInv, RunsInBounds
    <3> QED
      BY <2>1, <2>3, <3>2, <3>3, <1>a DEF ReachInv
  <2> QED
    BY <2>1, <2>2, <2>3 DEF ReachInv
<1>6. CASE UNCHANGED vars
  BY <1>1, <1>6 DEF vars, runVars, busVars
<1> QED
  <2>1. ASSUME NEW p \in Procs, NEW j \in Jobs, Run(p, j) \/ TimerFires(p, j)
        PROVE  UNCHANGED <<waits, runs, driverVars>>
    BY <2>1 DEF Run, TimerFires, Signal, busVars, runVars
  <2>2. ASSUME NEW j \in Jobs,
               \/ Start(j) \/ Progress(j) \/ SaveCursor(j) \/ Pause(j)
               \/ ReadStatus(j) \/ MarkCompleted(j) \/ MarkRecoverable(j)
        PROVE  UNCHANGED <<waits, runs, driverVars>>
    BY <2>2 DEF Start, Progress, SaveCursor, Pause, ReadStatus, MarkCompleted, MarkRecoverable,
       busVars, runVars
  <2>3. ASSUME NEW j \in Jobs, NEW outcome \in {"completed", "failed"}, Conclude(j, outcome)
        PROVE  UNCHANGED <<waits, runs, driverVars>>
    BY <2>3 DEF Conclude, busVars
  <2>4. ASSUME NEW p \in Api, NEW j \in Jobs,
               \/ \E type \in EventTypes : PostEvent(p, j, type)
               \/ \E intent \in Intents : PostReply(p, j, intent)
               \/ PostClarification(p, j)
               \/ ReplyStep(p, j)
        PROVE  UNCHANGED <<waits, runs, driverVars>>
    BY <2>4 DEF PostEvent, PostReply, PostClarification, ReplyStep, Continue, Modify,
       RecordClarification, SignalClarification, Signal, busVars, runVars
  <2> QED
    BY <1>1, <1>2, <1>3, <1>4, <1>5, <1>6, <2>1, <2>2, <2>3, <2>4
    DEF Next, RunStep, DriverStep

(* The driver of a job that was suspended once can be woken for as long as *)
(* it is parked: a signal on the bus of its process sets the Event it      *)
(* hears, whatever else happened on that bus, and a restart of the process *)
(* takes the driver with it.                                               *)
THEOREM ParkedIsAlwaysReachable == Spec => []ParkedIsReachable
<1>1. Init => ReachInv
  BY BoundsAssumption DEF Init, ReachInv, Registrations
<1>2. ReachInv => ParkedIsReachable
  BY DEF ReachInv, ParkedIsReachable
<1> QED
  BY <1>1, <1>2, BusInvInit, BusInvStep, ReachInvStep, PTL DEF Spec

-----------------------------------------------------------------------------
(* The stream.  All of what follows is about runs without a failing query. *)

Events == [by : Pubs \cup {"nobody"}, n : Nat, kind : STRING \cup {"none"}]

StreamTypes ==
    /\ counter \in Nat
    /\ history \in Seq(Events) /\ pushed \in Seq(Events)
    /\ at \in [Pubs -> {"ready", "pushing", "trimming", "announcing", "noting"}]
    /\ event \in [Pubs -> Events]
    /\ left \in [Pubs -> Seq(STRING)]
    /\ socket \in [Viewers -> {"new", "between", "live", "closed"}]
    /\ inbox \in [Viewers -> Seq(Events)] /\ got \in [Viewers -> Seq(Events)]
    /\ start \in [Viewers -> Nat]
    /\ gap \in [Viewers -> SUBSET Events]

(* The events of a publisher are pushed in the order of their numbers; one *)
(* that is on its way has the highest.                                     *)
NumberInv ==
    /\ \A i \in 1..Len(pushed) : pushed[i].n <= counter
    /\ \A i, k \in 1..Len(pushed) :
          i < k /\ pushed[i].by = pushed[k].by => pushed[i].n < pushed[k].n
    /\ \A p \in Pubs : at[p] # "ready" => event[p].by = p /\ event[p].n <= counter
    /\ \A p \in Pubs, i \in 1..Len(pushed) :
          pushed[i].by = p =>
              /\ at[p] = "pushing" => pushed[i].n < event[p].n
              /\ at[p] \in {"trimming", "announcing"} => pushed[i].n <= event[p].n
    /\ \A p \in Pubs : at[p] \in {"trimming", "announcing"} => event[p] \in Range(pushed)

(* The history is the end of what was pushed, and long enough. *)
HistoryInv ==
    /\ Len(history) <= Len(pushed)
    /\ Len(history) < MaxItems => Len(history) = Len(pushed)
    /\ \A i \in 1..Len(history) : history[i] = pushed[Len(pushed) - Len(history) + i]

(* What a websocket has sent and what waits to be sent. *)
Line(v) == got[v] \o inbox[v]

Sorted(s) == \A i, k \in 1..Len(s) : i < k /\ s[i].by = s[k].by => s[i].n <= s[k].n

(* The places of a list where an event comes again. *)
Again(s) == {k \in 1..Len(s) : \E i \in 1..Len(s) : i < k /\ s[i].by = s[k].by /\ s[i].n = s[k].n}

(* An event comes again only when it is announced, and it is announced     *)
(* when nothing has come again yet.                                        *)
LineInv ==
    /\ \A v \in Viewers : socket[v] \in {"new", "between"} => inbox[v] = <<>>
    /\ \A v \in Viewers : socket[v] = "new" => got[v] = <<>>
    /\ \A v \in Viewers : Range(Line(v)) \subseteq Range(pushed)
    /\ \A v \in Viewers : Sorted(Line(v))
    /\ \A v \in Viewers : \A k, l \in Again(Line(v)) : Line(v)[k].by = Line(v)[l].by => k = l
    /\ \A v \in Viewers, p \in Pubs :
          at[p] \in {"trimming", "announcing"} /\ event[p] \in Range(Line(v))
              => \A k \in Again(Line(v)) : Line(v)[k].by # p

(* What a websocket that watches has or is known to have missed. *)
MissInv ==
    /\ told \subseteq Range(pushed)
    /\ \A v \in Viewers : socket[v] \in {"between", "live"} =>
          /\ start[v] <= Len(pushed)
          /\ \A i \in 1..Len(pushed) :
                i + MaxItems > start[v] /\ (i <= start[v] \/ pushed[i] \in told)
                    => pushed[i] \in Range(Line(v)) \cup gap[v]

StreamInv ==
    /\ faults \in Nat
    /\ faults = 0 => StreamTypes /\ NumberInv /\ HistoryInv /\ LineInv /\ MissInv

-----------------------------------------------------------------------------
(* Lists of events.                                                        *)

(* The members of a list that is one longer. *)
LEMMA RangeAppend ==
    ASSUME NEW S, NEW s \in Seq(S), NEW e \in S
    PROVE  Range(Append(s, e)) = Range(s) \cup {e}
<1> DEFINE t == Append(s, e)
<1>1. /\ t \in Seq(S) /\ Len(t) = Len(s) + 1 /\ t[Len(s) + 1] = e /\ Len(s) \in Nat
      /\ \A i \in 1..Len(s) : t[i] = s[i]
  BY AppendProperties, LenProperties
<1>2. Range(t) = {t[i] : i \in 1..Len(t)} /\ Range(s) = {s[i] : i \in 1..Len(s)}
  BY <1>1, RangeEquality
<1> HIDE DEF t
<1>3. Range(t) = Range(s) \cup {e}
  BY <1>1, <1>2
<1> QED
  BY <1>3 DEF t

(* The newest of a list are the end of it. *)
LEMMA NewestIs ==
    ASSUME NEW S, NEW s \in Seq(S), NEW m \in Nat \ {0}
    PROVE  LET t == Newest(s, m)
           IN  /\ t \in Seq(S)
               /\ Len(t) = IF Len(s) > m THEN m ELSE Len(s)
               /\ \A i \in 1..Len(t) : t[i] = s[Len(s) - Len(t) + i]
<1> DEFINE a == IF Len(s) > m THEN Len(s) - m + 1 ELSE 1
<1>1. Len(s) \in Nat /\ a \in Int /\ \A i \in a..Len(s) : s[i] \in S
  BY LenProperties, ElementOfSeq
<1>2. /\ SubSeq(s, a, Len(s)) \in Seq(S)
      /\ Len(SubSeq(s, a, Len(s))) = IF a <= Len(s) THEN Len(s) - a + 1 ELSE 0
      /\ \A i \in 1..(Len(s) - a + 1) : SubSeq(s, a, Len(s))[i] = s[a + i - 1]
  BY <1>1, SubSeqProperties
<1>3. /\ Newest(s, m) = SubSeq(s, a, Len(s))
      /\ Len(s) - a + 1 = IF Len(s) > m THEN m ELSE Len(s)
      /\ (IF a <= Len(s) THEN Len(s) - a + 1 ELSE 0) = Len(s) - a + 1
  <2>1. Newest(s, m) = SubSeq(s, a, Len(s))
    BY DEF Newest
  <2>2. /\ Len(s) - a + 1 = IF Len(s) > m THEN m ELSE Len(s)
        /\ (IF a <= Len(s) THEN Len(s) - a + 1 ELSE 0) = Len(s) - a + 1
    <3>1. Len(s) \in Nat /\ m \in Nat /\ m > 0
      BY <1>1
    <3> DEFINE l == Len(s)
    <3> HIDE DEF l
    <3>2. CASE l > m
      <4>1. a = l - m + 1
        BY <3>2 DEF l
      <4>2. l - a + 1 = m /\ a <= l
        BY <3>1, <3>2, <4>1 DEF l
      <4> QED
        BY <3>2, <4>2 DEF l
    <3>3. CASE ~(l > m)
      <4>1. a = 1
        BY <3>3 DEF l
      <4>2. l - a + 1 = l /\ (a <= l \/ l = 0)
        BY <3>1, <3>3, <4>1 DEF l
      <4> QED
        BY <3>1, <3>3, <4>1, <4>2 DEF l
    <3> QED
      BY <3>2, <3>3
  <2> QED
    BY <2>1, <2>2
<1> DEFINE t == Newest(s, m)
<1> HIDE DEF a, t
<1>4. Len(t) = Len(s) - a + 1 /\ \A i \in 1..Len(t) : t[i] = s[a + i - 1]
  BY <1>2, <1>3 DEF t
<1>5. \A i \in 1..Len(t) : a + i - 1 = Len(s) - Len(t) + i
  BY <1>1, <1>4
<1>6. t \in Seq(S) /\ \A i \in 1..Len(t) : t[i] = s[Len(s) - Len(t) + i]
  BY <1>2, <1>3, <1>4, <1>5 DEF t
<1> QED
  BY <1>3, <1>4, <1>6 DEF t

(* What is sent of the history is a beginning of it. *)
LEMMA UntilEndIs ==
    ASSUME NEW S, NEW s \in Seq(S)
    PROVE  /\ UntilEnd(s) \in Seq(S)
           /\ Len(UntilEnd(s)) \in 0..Len(s)
           /\ \A i \in 1..Len(UntilEnd(s)) : UntilEnd(s)[i] = s[i]
           /\ ~Ends(s) => UntilEnd(s) = s
<1> DEFINE I == {i \in DOMAIN s : \A k \in 1..(i - 1) : ~Completed(s[k])}
           n == Cardinality(I)
<1>1. Len(s) \in Nat /\ DOMAIN s = 1..Len(s)
  BY LenProperties
<1>2. IsFiniteSet(1..Len(s)) /\ Cardinality(1..Len(s)) = Len(s)
  BY <1>1, FS_Interval
<1>3. I \subseteq 1..Len(s)
  BY <1>1
<1>4. n \in Nat /\ n <= Len(s)
  BY <1>2, <1>3, FS_Subset, FS_CardinalityType
<1>5. UntilEnd(s) = SubSeq(s, 1, n)
  BY DEF UntilEnd
<1>6. ~Ends(s) => n = Len(s)
  <2> SUFFICES ASSUME ~Ends(s) PROVE I = 1..Len(s)
    BY <1>2
  <2>1. \A i \in 1..Len(s) : ~Completed(s[i])
    BY <1>1 DEF Ends
  <2>2. \A i \in 1..Len(s) : \A k \in 1..(i - 1) : k \in 1..Len(s)
    BY <1>1
  <2> QED
    BY <1>1, <2>1, <2>2
<1> HIDE DEF I, n
<1>7. \A i \in 1..n : s[i] \in S
  BY <1>1, <1>4, ElementOfSeq
<1>8. /\ SubSeq(s, 1, n) \in Seq(S)
      /\ Len(SubSeq(s, 1, n)) = n
      /\ \A i \in 1..n : SubSeq(s, 1, n)[i] = s[i]
  BY <1>4, <1>7, SubSeqProperties
<1> QED
  <2>1. SubSeq(s, 1, Len(s)) = s
    BY SubSeqFull
  <2>2. ~Ends(s) => UntilEnd(s) = s
    BY <1>5, <1>6, <2>1
  <2>3. n \in 0..Len(s)
    BY <1>1, <1>4
  <2> QED
    BY <1>5, <1>8, <2>2, <2>3

(* An event that comes last with the highest number keeps a list in order; *)
(* it comes again if it was there.                                         *)
LEMMA AppendInOrder ==
    ASSUME NEW s \in Seq(Events), Sorted(s), NEW e \in Events,
           \A i \in 1..Len(s) : s[i].by = e.by => s[i].n <= e.n
    PROVE  /\ Sorted(Append(s, e))
           /\ \A k \in Again(Append(s, e)) :
                 /\ Append(s, e)[k] = IF k = Len(s) + 1 THEN e ELSE s[k]
                 /\ \/ k \in Again(s)
                    \/ /\ k = Len(s) + 1
                       /\ \E i \in 1..Len(s) : s[i].by = e.by /\ s[i].n = e.n
<1> DEFINE t == Append(s, e)
<1>1. /\ t \in Seq(Events) /\ Len(t) = Len(s) + 1 /\ Len(s) \in Nat
      /\ t[Len(s) + 1] = e /\ \A i \in 1..Len(s) : t[i] = s[i]
  BY AppendProperties, LenProperties
<1> HIDE DEF t
<1>2. Sorted(t)
  BY <1>1 DEF Sorted
<1>3. ASSUME NEW k \in Again(t)
      PROVE  /\ t[k] = IF k = Len(s) + 1 THEN e ELSE s[k]
             /\ \/ k \in Again(s)
                \/ /\ k = Len(s) + 1
                   /\ \E i \in 1..Len(s) : s[i].by = e.by /\ s[i].n = e.n
  BY <1>1, <1>3 DEF Again
<1> QED
  BY <1>2, <1>3 DEF t

-----------------------------------------------------------------------------
(* The steps of a run without a failing query.                             *)

(* What the steps come to when nothing fails. *)
Numbered(p) ==
    /\ at[p] = "ready" /\ left[p] # <<>>
    /\ counter' = counter + 1
    /\ event' = [event EXCEPT ![p] = [by |-> p, n |-> counter + 1, kind |-> Head(left[p])]]
    /\ left' = [left EXCEPT ![p] = Tail(left[p])]
    /\ at' = [at EXCEPT ![p] = "pushing"]
    /\ UNCHANGED <<history, pushed, told, gap, socket, inbox, got, start>>

Pushed(p) ==
    /\ at[p] = "pushing"
    /\ history' = Append(history, event[p]) /\ pushed' = Append(pushed, event[p])
    /\ at' = [at EXCEPT ![p] = "trimming"]
    /\ UNCHANGED <<counter, event, left, told, gap, socket, inbox, got, start>>

Trimmed(p) ==
    /\ at[p] = "trimming"
    /\ history' = Newest(history, MaxItems)
    /\ at' = [at EXCEPT ![p] = "announcing"]
    /\ UNCHANGED <<counter, event, left, pushed, told, gap, socket, inbox, got, start>>

Announced(p) ==
    /\ at[p] = "announcing"
    /\ inbox' = [v \in Viewers |->
          IF socket[v] = "live" THEN Append(inbox[v], event[p]) ELSE inbox[v]]
    /\ told' = told \cup {event[p]}
    /\ gap' = [v \in Viewers |->
          IF socket[v] = "between" THEN gap[v] \cup {event[p]} ELSE gap[v]]
    /\ at' = [at EXCEPT ![p] = "noting"]
    /\ UNCHANGED <<counter, history, event, left, pushed, socket, got, start>>

Noted(p) ==
    /\ at[p] = "noting"
    /\ event' = [event EXCEPT ![p] = NoEvent]
    /\ at' = [at EXCEPT ![p] = "ready"]
    /\ UNCHANGED <<counter, history, left, pushed, told, gap, socket, inbox, got, start>>

HasRead(v) ==
    /\ socket[v] = "new"
    /\ got' = [got EXCEPT ![v] = UntilEnd(history)]
    /\ socket' = [socket EXCEPT ![v] = IF Ends(history) THEN "closed" ELSE "between"]
    /\ start' = [start EXCEPT ![v] = Len(pushed)]
    /\ UNCHANGED <<counter, history, at, event, left, pushed, told, gap, inbox>>

Received(v) ==
    /\ socket[v] = "live" /\ inbox[v] # <<>>
    /\ got' = [got EXCEPT ![v] = Append(got[v], Head(inbox[v]))]
    /\ inbox' = [inbox EXCEPT ![v] = Tail(inbox[v])]
    /\ socket' = [socket EXCEPT ![v] = IF Completed(Head(inbox[v])) THEN "closed" ELSE "live"]
    /\ UNCHANGED <<counter, history, at, event, left, pushed, told, gap, start>>

(* A websocket subscribes or goes away. *)
Switched(v) ==
    /\ \/ socket[v] = "between" /\ socket' = [socket EXCEPT ![v] = "live"]
       \/ socket[v] \in {"between", "live"} /\ socket' = [socket EXCEPT ![v] = "closed"]
    /\ UNCHANGED <<counter, history, at, event, left, pushed, told, gap, inbox, got, start>>

Still == UNCHANGED <<counter, history, at, event, left, pushed, told, gap, socket, inbox, got, start>>

LEMMA CleanSteps ==
    ASSUME faults \in Nat, faults' = 0, [StreamNext]_streamVars
    PROVE  /\ faults = 0
           /\ \/ \E p \in Pubs : Numbered(p) \/ Pushed(p) \/ Trimmed(p) \/ Announced(p) \/ Noted(p)
              \/ \E v \in Viewers : HasRead(v) \/ Received(v) \/ Switched(v)
              \/ Still
<1>1. ~Fault
  BY DEF Fault
<1> USE <1>1 DEF redis, publisher, viewer, ghosts
<1>2. ASSUME NEW p \in Pubs, Publish(p)
      PROVE  UNCHANGED faults /\ (Numbered(p) \/ Pushed(p) \/ Trimmed(p) \/ Announced(p) \/ Noted(p))
  <2>1. CASE Number(p)
    BY <2>1 DEF Number, Numbered, Go
  <2>2. CASE Push(p)
    BY <2>2 DEF Push, Pushed, Go
  <2>3. CASE Trim(p)
    BY <2>3 DEF Trim, Trimmed, Go
  <2>4. CASE Announce(p)
    <3>1. \A v \in Viewers : v \in Listening <=> socket[v] = "live"
      BY DEF Listening
    <3> QED
      BY <2>4, <3>1 DEF Announce, Announced, Go
  <2>5. CASE Note(p)
    BY <2>5 DEF Note, Noted, Go
  <2> QED
    BY <1>2, <2>1, <2>2, <2>3, <2>4, <2>5 DEF Publish
<1>3. ASSUME NEW v \in Viewers, Watch(v) \/ Drop(v)
      PROVE  UNCHANGED faults /\ (HasRead(v) \/ Received(v) \/ Switched(v))
  <2>1. CASE ReadHistory(v)
    BY <2>1 DEF ReadHistory, HasRead
  <2>2. CASE Receive(v)
    BY <2>2 DEF Receive, Received
  <2>3. CASE Subscribe(v) \/ Drop(v)
    BY <2>3 DEF Subscribe, Drop, Switched
  <2> QED
    BY <1>3, <2>1, <2>2, <2>3 DEF Watch
<1>4. CASE UNCHANGED streamVars
  BY <1>4 DEF streamVars, Still
<1> QED
  BY <1>2, <1>3, <1>4 DEF StreamNext

LEMMA StreamTypesStep ==
    ASSUME StreamTypes, faults \in Nat, faults' = 0, [StreamNext]_streamVars
    PROVE  StreamTypes'
<1> USE DEF StreamTypes
<1>m. MaxItems \in Nat \ {0}
  BY StreamAssumption
<1>1. ASSUME NEW p \in Pubs, Numbered(p) PROVE StreamTypes'
  <2>1. Head(left[p]) \in STRING /\ Tail(left[p]) \in Seq(STRING)
    BY <1>1, HeadTailProperties DEF Numbered
  <2>2. [by |-> p, n |-> counter + 1, kind |-> Head(left[p])] \in Events
    BY <2>1 DEF Events
  <2> QED
    BY <1>1, <2>1, <2>2 DEF Numbered
<1>2. ASSUME NEW p \in Pubs, Pushed(p) PROVE StreamTypes'
  <2>1. Append(history, event[p]) \in Seq(Events) /\ Append(pushed, event[p]) \in Seq(Events)
    BY AppendProperties
  <2> QED
    BY <1>2, <2>1 DEF Pushed
<1>3. ASSUME NEW p \in Pubs, Trimmed(p) PROVE StreamTypes'
  <2>1. Newest(history, MaxItems) \in Seq(Events)
    BY <1>m, NewestIs
  <2> QED
    BY <1>3, <2>1 DEF Trimmed
<1>4. ASSUME NEW p \in Pubs, Announced(p) PROVE StreamTypes'
  <2>1. \A v \in Viewers : Append(inbox[v], event[p]) \in Seq(Events)
    BY AppendProperties
  <2> QED
    BY <1>4, <2>1 DEF Announced
<1>5. ASSUME NEW p \in Pubs, Noted(p) PROVE StreamTypes'
  <2>1. NoEvent \in Events
    BY DEF NoEvent, Events
  <2> QED
    BY <1>5, <2>1 DEF Noted
<1>6. ASSUME NEW v \in Viewers, HasRead(v) PROVE StreamTypes'
  <2>1. UntilEnd(history) \in Seq(Events) /\ Len(pushed) \in Nat
    BY UntilEndIs, LenProperties
  <2> QED
    BY <1>6, <2>1 DEF HasRead
<1>7. ASSUME NEW v \in Viewers, Received(v) PROVE StreamTypes'
  <2>1. Append(got[v], Head(inbox[v])) \in Seq(Events) /\ Tail(inbox[v]) \in Seq(Events)
    BY <1>7, HeadTailProperties, AppendProperties DEF Received
  <2> QED
    BY <1>7, <2>1 DEF Received
<1>8. ASSUME NEW v \in Viewers, Switched(v) PROVE StreamTypes'
  BY <1>8 DEF Switched
<1>9. CASE Still
  BY <1>9 DEF Still
<1> QED
  BY <1>1, <1>2, <1>3, <1>4, <1>5, <1>6, <1>7, <1>8, <1>9, CleanSteps

(* Numbers grow along what is pushed. *)
LEMMA NumberStep ==
    ASSUME StreamTypes, NumberInv, faults \in Nat, faults' = 0, [StreamNext]_streamVars
    PROVE  NumberInv'
<1>1. Len(pushed) \in Nat /\ Range(pushed) = {pushed[i] : i \in 1..Len(pushed)}
  BY LenProperties, RangeEquality DEF StreamTypes
<1>2. \A i \in 1..Len(pushed) : pushed[i] \in Events
  BY ElementOfSeq DEF StreamTypes
<1>3. ASSUME NEW p \in Pubs, Numbered(p) PROVE NumberInv'
  <2>1. event'[p].by = p /\ event'[p].n = counter + 1 /\ at'[p] = "pushing"
    BY <1>3 DEF Numbered, StreamTypes
  <2>2. \A q \in Pubs : q # p => event'[q] = event[q] /\ at'[q] = at[q]
    BY <1>3 DEF Numbered, StreamTypes
  <2>3. pushed' = pushed /\ counter' = counter + 1
    BY <1>3 DEF Numbered
  <2>4. counter \in Nat /\ \A q \in Pubs : event[q].n \in Nat
    BY DEF StreamTypes, Events
  <2>5. \A i \in 1..Len(pushed) : pushed[i].n \in Nat
    BY <1>2 DEF Events
  <2> QED
    BY <2>1, <2>2, <2>3, <2>4, <2>5 DEF NumberInv
<1>4. ASSUME NEW p \in Pubs, Pushed(p) PROVE NumberInv'
  <2>1. /\ Len(pushed') = Len(pushed) + 1 /\ pushed'[Len(pushed) + 1] = event[p]
        /\ \A i \in 1..Len(pushed) : pushed'[i] = pushed[i]
    BY <1>4, AppendProperties DEF Pushed, StreamTypes
  <2>2. Range(pushed') = Range(pushed) \cup {event[p]}
    BY <1>4, RangeAppend DEF Pushed, StreamTypes
  <2>3. /\ at[p] = "pushing" /\ at'[p] = "trimming" /\ event' = event /\ counter' = counter
        /\ \A q \in Pubs : q # p => at'[q] = at[q]
    BY <1>4 DEF Pushed, StreamTypes
  <2>4. event[p].by = p /\ event[p].n <= counter /\ event[p].n \in Nat
    BY <2>3 DEF NumberInv, StreamTypes, Events
  <2>5. \A i \in 1..Len(pushed) : pushed[i].n \in Nat
    BY <1>2 DEF Events
  <2>6. \A i \in 1..Len(pushed') : i \in 1..Len(pushed) \/ i = Len(pushed) + 1
    BY <1>1, <2>1
  <2>7. \A i \in 1..Len(pushed') : pushed'[i].n <= counter'
    BY <2>1, <2>3, <2>4, <2>6 DEF NumberInv
  <2>8. \A i, k \in 1..Len(pushed') :
            i < k /\ pushed'[i].by = pushed'[k].by => pushed'[i].n < pushed'[k].n
    BY <1>1, <2>1, <2>3, <2>4, <2>6 DEF NumberInv
  <2>9. \A q \in Pubs, i \in 1..Len(pushed') :
          pushed'[i].by = q =>
              /\ at'[q] = "pushing" => pushed'[i].n < event'[q].n
              /\ at'[q] \in {"trimming", "announcing"} => pushed'[i].n <= event'[q].n
    BY <1>1, <2>1, <2>3, <2>4, <2>5, <2>6 DEF NumberInv
  <2> QED
    BY <2>2, <2>3, <2>7, <2>8, <2>9 DEF NumberInv
<1>5. ASSUME NEW p \in Pubs, Trimmed(p) PROVE NumberInv'
  BY <1>5 DEF Trimmed, NumberInv, StreamTypes
<1>6. ASSUME NEW p \in Pubs, Announced(p) PROVE NumberInv'
  BY <1>6 DEF Announced, NumberInv, StreamTypes
<1>7. ASSUME NEW p \in Pubs, Noted(p) PROVE NumberInv'
  BY <1>7 DEF Noted, NumberInv, StreamTypes
<1>8. CASE UNCHANGED <<counter, pushed, at, event>>
  BY <1>8 DEF NumberInv
<1> QED
  BY <1>3, <1>4, <1>5, <1>6, <1>7, <1>8, CleanSteps DEF HasRead, Received, Switched, Still

(* The history stays the end of what was pushed. *)
LEMMA HistoryStep ==
    ASSUME StreamTypes, HistoryInv, faults \in Nat, faults' = 0, [StreamNext]_streamVars
    PROVE  HistoryInv'
<1>1. Len(pushed) \in Nat /\ Len(history) \in Nat /\ MaxItems \in Nat /\ MaxItems \in Nat \ {0}
  BY LenProperties, StreamAssumption DEF StreamTypes
<1>2. ASSUME NEW p \in Pubs, Pushed(p) PROVE HistoryInv'
  <2>1. /\ Len(pushed') = Len(pushed) + 1 /\ pushed'[Len(pushed) + 1] = event[p]
        /\ \A i \in 1..Len(pushed) : pushed'[i] = pushed[i]
        /\ Len(history') = Len(history) + 1 /\ history'[Len(history) + 1] = event[p]
        /\ \A i \in 1..Len(history) : history'[i] = history[i]
    BY <1>2, AppendProperties DEF Pushed, StreamTypes
  <2>2. ASSUME NEW i \in 1..Len(history')
        PROVE  history'[i] = pushed'[Len(pushed') - Len(history') + i]
    <3>1. Len(pushed') - Len(history') + i = Len(pushed) - Len(history) + i
      BY <1>1, <2>1
    <3>2. CASE i = Len(history) + 1
      BY <1>1, <2>1, <3>1, <3>2
    <3>3. CASE i \in 1..Len(history)
      <4>1. Len(pushed) - Len(history) + i \in 1..Len(pushed)
        BY <1>1, <3>3 DEF HistoryInv
      <4> QED
        BY <2>1, <3>1, <3>3, <4>1 DEF HistoryInv
    <3> QED
      BY <1>1, <2>1, <3>2, <3>3
  <2> QED
    BY <1>1, <2>1, <2>2 DEF HistoryInv
<1>3. ASSUME NEW p \in Pubs, Trimmed(p) PROVE HistoryInv'
  <2>1. /\ Len(history') = IF Len(history) > MaxItems THEN MaxItems ELSE Len(history)
        /\ \A i \in 1..Len(history') : history'[i] = history[Len(history) - Len(history') + i]
        /\ pushed' = pushed
    BY <1>1, <1>3, NewestIs DEF Trimmed, StreamTypes
  <2>2. ASSUME NEW i \in 1..Len(history')
        PROVE  history'[i] = pushed[Len(pushed) - Len(history') + i]
    <3>1. Len(history) - Len(history') + i \in 1..Len(history)
      BY <1>1, <2>1
    <3>2. Len(pushed) - Len(history) + (Len(history) - Len(history') + i)
            = Len(pushed) - Len(history') + i
      BY <1>1, <2>1
    <3> QED
      BY <2>1, <3>1, <3>2 DEF HistoryInv
  <2>3. Len(history') <= Len(pushed') /\ (Len(history') < MaxItems => Len(history') = Len(pushed'))
    BY <1>1, <2>1 DEF HistoryInv
  <2> QED
    BY <2>1, <2>2, <2>3 DEF HistoryInv
<1>4. CASE UNCHANGED <<history, pushed>>
  BY <1>4 DEF HistoryInv
<1> QED
  BY <1>2, <1>3, <1>4, CleanSteps DEF Numbered, Announced, Noted, HasRead, Received, Switched, Still

(* An event that is received moves from the end of one list to the         *)
(* beginning of what is left of the other.                                 *)
LEMMA LineMoves ==
    ASSUME NEW S, NEW s \in Seq(S), NEW t \in Seq(S), t # <<>>
    PROVE  Append(s, Head(t)) \o Tail(t) = s \o t
<1> DEFINE a == Append(s, Head(t))
           u == Tail(t)
<1>1. /\ Head(t) \in S /\ u \in Seq(S) /\ Len(u) = Len(t) - 1 /\ Len(t) \in Nat \ {0}
      /\ \A i \in 1..Len(u) : u[i] = t[i + 1]
  BY HeadTailProperties, EmptySeq
<1>2. /\ a \in Seq(S) /\ Len(a) = Len(s) + 1 /\ a[Len(s) + 1] = Head(t) /\ Len(s) \in Nat
      /\ \A i \in 1..Len(s) : a[i] = s[i]
  BY <1>1, AppendProperties, LenProperties
<1>3. Head(t) = t[1]
  OBVIOUS
<1> HIDE DEF a, u
<1>4. /\ a \o u \in Seq(S) /\ Len(a \o u) = Len(a) + Len(u)
      /\ \A i \in 1..(Len(a) + Len(u)) : (a \o u)[i] = IF i <= Len(a) THEN a[i] ELSE u[i - Len(a)]
  BY <1>1, <1>2, ConcatProperties
<1>5. /\ s \o t \in Seq(S) /\ Len(s \o t) = Len(s) + Len(t)
      /\ \A i \in 1..(Len(s) + Len(t)) : (s \o t)[i] = IF i <= Len(s) THEN s[i] ELSE t[i - Len(s)]
  BY ConcatProperties
<1>6. Len(a \o u) = Len(s \o t)
  BY <1>1, <1>2, <1>4, <1>5
<1>7. ASSUME NEW i \in 1..Len(a \o u) PROVE (a \o u)[i] = (s \o t)[i]
  <2>1. CASE i <= Len(s)
    BY <1>1, <1>2, <1>4, <1>5, <2>1
  <2>2. CASE i = Len(s) + 1
    BY <1>1, <1>2, <1>3, <1>4, <1>5, <2>2
  <2>3. CASE i > Len(s) + 1
    <3>1. i - Len(a) \in 1..Len(u) /\ (i - Len(a)) + 1 = i - Len(s)
      BY <1>1, <1>2, <1>4, <2>3
    <3>2. u[i - Len(a)] = t[i - Len(s)]
      BY <1>1, <3>1
    <3> QED
      BY <1>1, <1>2, <1>4, <1>5, <2>3, <3>2
  <2> QED
    BY <1>1, <1>2, <1>4, <2>1, <2>2, <2>3
<1>8. a \o u = s \o t
  BY <1>4, <1>5, <1>6, <1>7, SeqEqual
<1> QED
  BY <1>8 DEF a, u

LEMMA LineGrows ==
    ASSUME NEW S, NEW s \in Seq(S), NEW t \in Seq(S), NEW e \in S
    PROVE  s \o Append(t, e) = Append(s \o t, e)
<1> DEFINE a == Append(t, e)
           u == s \o t
           b == Append(u, e)
<1>1. /\ a \in Seq(S) /\ Len(a) = Len(t) + 1 /\ a[Len(t) + 1] = e
      /\ \A i \in 1..Len(t) : a[i] = t[i]
      /\ Len(t) \in Nat /\ Len(s) \in Nat
  BY AppendProperties, LenProperties
<1>2. /\ u \in Seq(S) /\ Len(u) = Len(s) + Len(t)
      /\ \A i \in 1..(Len(s) + Len(t)) : u[i] = IF i <= Len(s) THEN s[i] ELSE t[i - Len(s)]
  BY ConcatProperties
<1> HIDE DEF u
<1>3. /\ b \in Seq(S) /\ Len(b) = Len(u) + 1 /\ b[Len(u) + 1] = e
      /\ \A i \in 1..Len(u) : b[i] = u[i]
  BY <1>2, AppendProperties
<1> HIDE DEF a, b
<1>4. /\ s \o a \in Seq(S) /\ Len(s \o a) = Len(s) + Len(a)
      /\ \A i \in 1..(Len(s) + Len(a)) : (s \o a)[i] = IF i <= Len(s) THEN s[i] ELSE a[i - Len(s)]
  BY <1>1, ConcatProperties
<1>5. Len(s \o a) = Len(b)
  BY <1>1, <1>2, <1>3, <1>4
<1>6. ASSUME NEW i \in 1..Len(s \o a) PROVE (s \o a)[i] = b[i]
  <2>1. CASE i <= Len(s)
    BY <1>1, <1>2, <1>3, <1>4, <2>1
  <2>2. CASE i = Len(s) + Len(t) + 1
    <3>1. i - Len(s) = Len(t) + 1
      BY <1>1, <2>2
    <3> QED
      BY <1>1, <1>2, <1>3, <1>4, <2>2, <3>1
  <2>3. CASE i > Len(s) /\ i <= Len(s) + Len(t)
    <3>1. i - Len(s) \in 1..Len(t) /\ i \in 1..Len(u) /\ i \in 1..(Len(s) + Len(a))
          /\ ~(i <= Len(s))
      BY <1>1, <1>2, <2>3
    <3>2. (s \o a)[i] = t[i - Len(s)]
      BY <1>1, <1>4, <3>1
    <3>3. b[i] = t[i - Len(s)]
      BY <1>2, <1>3, <3>1
    <3> QED
      BY <3>2, <3>3
  <2>4. i \in Nat /\ i <= Len(s) + Len(t) + 1
    BY <1>1, <1>4
  <2> QED
    BY <1>1, <2>1, <2>2, <2>3, <2>4
<1>7. s \o a = b
  BY <1>3, <1>4, <1>5, <1>6, SeqEqual
<1> QED
  BY <1>7 DEF a, b, u

LEMMA LineTypes == StreamTypes => \A v \in Viewers : Line(v) \in Seq(Events)
BY ConcatProperties DEF StreamTypes, Line

(* What the steps do to what a websocket has and gets. *)
LEMMA LineSteps ==
    ASSUME StreamTypes, LineInv, NEW v \in Viewers
    PROVE  /\ \A p \in Pubs : Announced(p) =>
                 Line(v)' = IF socket[v] = "live" THEN Append(Line(v), event[p]) ELSE Line(v)
           /\ \A w \in Viewers : Received(w) => Line(v)' = Line(v)
           /\ \A w \in Viewers : HasRead(w) =>
                 Line(v)' = IF v = w THEN UntilEnd(history) ELSE Line(v)
           /\ UNCHANGED <<got, inbox>> => Line(v)' = Line(v)
<1>1. ASSUME NEW p \in Pubs, Announced(p)
      PROVE  Line(v)' = IF socket[v] = "live" THEN Append(Line(v), event[p]) ELSE Line(v)
  <2>1. got[v] \in Seq(Events) /\ inbox[v] \in Seq(Events) /\ event[p] \in Events
    BY DEF StreamTypes
  <2>2. got[v] \o Append(inbox[v], event[p]) = Append(got[v] \o inbox[v], event[p])
    <3> DEFINE s == got[v]
           t == inbox[v]
           e == event[p]
    <3> HIDE DEF s, t, e
    <3>1. s \in Seq(Events) /\ t \in Seq(Events) /\ e \in Events
      BY <2>1 DEF s, t, e
    <3>2. s \o Append(t, e) = Append(s \o t, e)
      BY <3>1, LineGrows
    <3> QED
      BY <3>2 DEF s, t, e
  <2>3. got' = got /\ inbox'[v] = IF socket[v] = "live" THEN Append(inbox[v], event[p]) ELSE inbox[v]
    BY <1>1 DEF Announced
  <2> QED
    BY <2>2, <2>3 DEF Line
<1>2. ASSUME NEW w \in Viewers, Received(w) PROVE Line(v)' = Line(v)
  <2>1. got[w] \in Seq(Events) /\ inbox[w] \in Seq(Events) /\ inbox[w] # <<>>
    BY <1>2 DEF StreamTypes, Received
  <2>2. Append(got[w], Head(inbox[w])) \o Tail(inbox[w]) = got[w] \o inbox[w]
    BY <2>1, LineMoves
  <2>3. /\ got'[w] = Append(got[w], Head(inbox[w])) /\ inbox'[w] = Tail(inbox[w])
        /\ v # w => got'[v] = got[v] /\ inbox'[v] = inbox[v]
    BY <1>2 DEF StreamTypes, Received
  <2> QED
    BY <2>2, <2>3 DEF Line
<1>3. ASSUME NEW w \in Viewers, HasRead(w)
      PROVE  Line(v)' = IF v = w THEN UntilEnd(history) ELSE Line(v)
  <2>1. /\ got'[w] = UntilEnd(history) /\ inbox' = inbox
        /\ v # w => got'[v] = got[v]
    BY <1>3 DEF StreamTypes, HasRead
  <2>2. inbox[w] = <<>>
    BY <1>3 DEF HasRead, LineInv
  <2>3. UntilEnd(history) \o <<>> = UntilEnd(history)
    BY UntilEndIs, ConcatEmptySeq DEF StreamTypes
  <2> QED
    BY <2>1, <2>2, <2>3 DEF Line
<1>4. UNCHANGED <<got, inbox>> => Line(v)' = Line(v)
  BY DEF Line
<1> QED
  BY <1>1, <1>2, <1>3, <1>4

LEMMA PushedTypes ==
    ASSUME StreamTypes
    PROVE  /\ Len(pushed) \in Nat /\ Range(pushed) = {pushed[i] : i \in 1..Len(pushed)}
           /\ \A i \in 1..Len(pushed) : pushed[i].n \in Nat
<1>1. \A i \in 1..Len(pushed) : pushed[i] \in Events
  BY ElementOfSeq DEF StreamTypes
<1>2. \A e \in Events : e.n \in Nat
  BY DEF Events
<1> QED
  BY <1>1, <1>2, LenProperties, RangeEquality DEF StreamTypes

(* Two events of a publisher that were pushed with the same number are one. *)
LEMMA NumbersAreUnique ==
    ASSUME StreamTypes, NumberInv, NEW e \in Range(pushed), NEW f \in Range(pushed),
           e.by = f.by, e.n = f.n
    PROVE  e = f
<1>1. Len(pushed) \in Nat /\ Range(pushed) = {pushed[i] : i \in 1..Len(pushed)}
  BY PushedTypes
<1>2. \A i \in 1..Len(pushed) : pushed[i].n \in Nat
  BY PushedTypes
<1>3. PICK i \in 1..Len(pushed) : e = pushed[i]
  BY <1>1
<1>4. PICK k \in 1..Len(pushed) : f = pushed[k]
  BY <1>1
<1>5. ~(i < k) /\ ~(k < i)
  BY <1>2, <1>3, <1>4 DEF NumberInv
<1> QED
  BY <1>1, <1>3, <1>4, <1>5

(* A step that neither sends nor announces. *)
LEMMA LineKept ==
    ASSUME LineInv, Range(pushed) \subseteq Range(pushed'),
           \A v \in Viewers : Line(v)' = Line(v),
           \A v \in Viewers : socket'[v] \in {"new", "between"} => inbox'[v] = <<>>,
           \A v \in Viewers : socket'[v] = "new" => got'[v] = <<>>,
           \A q \in Pubs : at'[q] \in {"trimming", "announcing"} =>
               \/ at[q] \in {"trimming", "announcing"} /\ event'[q] = event[q]
               \/ event'[q] \notin Range(pushed)
    PROVE  LineInv'
<1>1. \A v \in Viewers : Range(Line(v)') \subseteq Range(pushed')
  BY DEF LineInv
<1>2. \A v \in Viewers : Sorted(Line(v)')
  BY DEF LineInv
<1>3. \A v \in Viewers : \A k, l \in Again(Line(v)') : Line(v)'[k].by = Line(v)'[l].by => k = l
  BY DEF LineInv
<1>4. ASSUME NEW v \in Viewers, NEW q \in Pubs, at'[q] \in {"trimming", "announcing"},
             event'[q] \in Range(Line(v)')
      PROVE  \A k \in Again(Line(v)') : Line(v)'[k].by # q
  <2>1. Line(v)' = Line(v) /\ Range(Line(v)) \subseteq Range(pushed)
    BY DEF LineInv
  <2>2. at[q] \in {"trimming", "announcing"} /\ event[q] \in Range(Line(v))
    BY <1>4, <2>1
  <2>3. \A k \in Again(Line(v)) : Line(v)[k].by # q
    BY <2>2 DEF LineInv
  <2> QED
    BY <2>1, <2>3
<1> QED
  BY <1>1, <1>2, <1>3, <1>4 DEF LineInv

(* What is read of the history is in order, and nothing is in it twice. *)
LEMMA HistoryInOrder ==
    ASSUME StreamTypes, NumberInv, HistoryInv, NEW s, s = UntilEnd(history)
    PROVE  /\ s \in Seq(Events) /\ Range(s) \subseteq Range(pushed)
           /\ Sorted(s) /\ Again(s) = {}
<1>1. /\ s \in Seq(Events) /\ Len(s) \in 0..Len(history)
      /\ \A i \in 1..Len(s) : s[i] = history[i]
  BY UntilEndIs DEF StreamTypes
<1>2. /\ Len(history) \in Nat /\ Len(pushed) \in Nat
      /\ Range(pushed) = {pushed[i] : i \in 1..Len(pushed)}
      /\ Range(s) = {s[i] : i \in 1..Len(s)}
  <2>1. Len(history) \in Nat
    BY LenProperties DEF StreamTypes
  <2>2. Range(s) = {s[i] : i \in 1..Len(s)}
    BY <1>1, RangeEquality
  <2> QED
    BY <2>1, <2>2, PushedTypes
<1> DEFINE d == Len(pushed) - Len(history)
<1>3. /\ d \in Nat
      /\ \A i \in 1..Len(s) : d + i \in 1..Len(pushed) /\ s[i] = pushed[d + i]
  BY <1>1, <1>2 DEF HistoryInv
<1> HIDE DEF d
<1>4. \A i \in 1..Len(pushed) : pushed[i].n \in Nat
  BY PushedTypes
<1>5. \A i, k \in 1..Len(s) : i < k /\ s[i].by = s[k].by => s[i].n < s[k].n
  <2> SUFFICES ASSUME NEW i \in 1..Len(s), NEW k \in 1..Len(s), i < k, s[i].by = s[k].by
               PROVE  s[i].n < s[k].n
    OBVIOUS
  <2>1. d + i < d + k
    BY <1>1, <1>3
  <2> QED
    BY <1>3, <2>1 DEF NumberInv
<1>6. \A i \in 1..Len(s) : s[i].n \in Nat
  BY <1>3, <1>4
<1>7. Sorted(s)
  BY <1>5, <1>6 DEF Sorted
<1>8. Again(s) = {}
  BY <1>5, <1>6 DEF Again
<1>9. Range(s) \subseteq Range(pushed)
  BY <1>2, <1>3
<1> QED
  BY <1>1, <1>7, <1>8, <1>9

(* An announcement adds an event in order; it is there already only when   *)
(* nothing of its publisher has come again yet.                            *)
LEMMA AnnouncedInOrder ==
    ASSUME StreamTypes, NumberInv, LineInv, NEW p \in Pubs, Announced(p),
           NEW v \in Viewers, socket[v] = "live"
    PROVE  LET s == Line(v)'
           IN  /\ Range(s) \subseteq Range(pushed')
               /\ Sorted(s)
               /\ \A k, l \in Again(s) : s[k].by = s[l].by => k = l
               /\ \A q \in Pubs : at'[q] \in {"trimming", "announcing"} /\ event'[q] \in Range(s)
                    => \A k \in Again(s) : s[k].by # q
<1> DEFINE s == Line(v)
           e == event[p]
           t == Append(s, e)
<1>1. Line(v)' = t /\ s \in Seq(Events) /\ e \in Events
  BY LineSteps, LineTypes DEF StreamTypes
<1>2. /\ Sorted(s) /\ Range(s) \subseteq Range(pushed)
      /\ \A k, l \in Again(s) : s[k].by = s[l].by => k = l
      /\ \A q \in Pubs : at[q] \in {"trimming", "announcing"} /\ event[q] \in Range(s)
             => \A k \in Again(s) : s[k].by # q
  BY DEF LineInv
<1>3. /\ at[p] = "announcing" /\ e.by = p /\ e \in Range(pushed)
      /\ \A i \in 1..Len(pushed) : pushed[i].by = p => pushed[i].n <= e.n
      /\ pushed' = pushed /\ event' = event
      /\ at'[p] = "noting" /\ \A q \in Pubs : q # p => at'[q] = at[q]
  BY DEF Announced, NumberInv, StreamTypes
<1> HIDE DEF s, e
<1>4. Range(pushed) = {pushed[i] : i \in 1..Len(pushed)} /\ Range(s) = {s[i] : i \in 1..Len(s)}
      /\ Len(s) \in Nat
  BY <1>1, RangeEquality, LenProperties DEF StreamTypes
<1>5. \A i \in 1..Len(s) : s[i].by = e.by => s[i].n <= e.n
  BY <1>2, <1>3, <1>4
<1>6. /\ Sorted(t)
      /\ \A k \in Again(t) :
            /\ t[k] = IF k = Len(s) + 1 THEN e ELSE s[k]
            /\ \/ k \in Again(s)
               \/ /\ k = Len(s) + 1
                  /\ \E i \in 1..Len(s) : s[i].by = e.by /\ s[i].n = e.n
  BY <1>1, <1>2, <1>5, AppendInOrder
<1>7. Range(t) = Range(s) \cup {e}
  BY <1>1, RangeAppend
<1>8. (\E i \in 1..Len(s) : s[i].by = e.by /\ s[i].n = e.n) => e \in Range(s)
  <2> SUFFICES ASSUME NEW i \in 1..Len(s), s[i].by = e.by, s[i].n = e.n PROVE e = s[i]
    BY <1>4
  <2>1. s[i] \in Range(pushed)
    BY <1>2, <1>4
  <2> QED
    BY <1>3, <2>1, NumbersAreUnique
<1> HIDE DEF t
<1>9. Len(s) + 1 \notin 1..Len(s) /\ Again(s) \subseteq 1..Len(s)
  BY <1>4 DEF Again
<1>10. ASSUME NEW k \in Again(t), NEW l \in Again(t), t[k].by = t[l].by PROVE k = l
  <2>1. CASE k \in Again(s) /\ l \in Again(s)
    BY <1>2, <1>6, <1>9, <1>10, <2>1
  <2>2. CASE k \notin Again(s) /\ l \notin Again(s)
    BY <1>6, <2>2
  <2>3. ASSUME k \notin Again(s) \/ l \notin Again(s) PROVE \A m \in Again(s) : s[m].by # p
    <3>1. e \in Range(s)
      BY <1>6, <1>8, <2>3
    <3>2. event[p] \in Range(s)
      BY <3>1 DEF e
    <3> QED
      BY <1>2, <1>3, <3>2
  <2>4. CASE k \notin Again(s) /\ l \in Again(s)
    <3>1. t[k] = e /\ t[l] = s[l]
      BY <1>6, <1>9, <2>4
    <3> QED
      BY <1>3, <1>10, <2>3, <2>4, <3>1
  <2>5. CASE k \in Again(s) /\ l \notin Again(s)
    <3>1. t[l] = e /\ t[k] = s[k]
      BY <1>6, <1>9, <2>5
    <3> QED
      BY <1>3, <1>10, <2>3, <2>5, <3>1
  <2> QED
    BY <2>1, <2>2, <2>4, <2>5
<1>11. ASSUME NEW q \in Pubs, at'[q] \in {"trimming", "announcing"}, event'[q] \in Range(t),
              NEW k \in Again(t)
       PROVE  t[k].by # q
  <2>1. q # p /\ at[q] \in {"trimming", "announcing"} /\ event'[q] = event[q]
    BY <1>3, <1>11
  <2>2. event[q].by = q
    BY <2>1 DEF NumberInv
  <2>3. event[q] \in Range(s)
    BY <1>3, <1>7, <1>11, <2>1, <2>2
  <2> QED
    BY <1>2, <1>3, <1>6, <1>9, <2>1, <2>3
<1>12. Range(t) \subseteq Range(pushed')
  BY <1>2, <1>3, <1>7
<1> QED
  BY <1>1, <1>6, <1>10, <1>11, <1>12

(* What a websocket sends stays in order. *)
LEMMA LineStep ==
    ASSUME StreamTypes, NumberInv, HistoryInv, LineInv,
           faults \in Nat, faults' = 0, [StreamNext]_streamVars
    PROVE  LineInv'
<1>1. /\ \A v \in Viewers : socket[v] \in {"new", "between"} => inbox[v] = <<>>
      /\ \A v \in Viewers : socket[v] = "new" => got[v] = <<>>
  BY DEF LineInv
<1>2. UNCHANGED <<got, inbox>> => \A v \in Viewers : Line(v)' = Line(v)
  BY LineSteps
<1>3. ASSUME NEW p \in Pubs, Numbered(p) \/ Trimmed(p) \/ Noted(p) PROVE LineInv'
  <2>1. /\ UNCHANGED <<got, inbox, socket, pushed>>
        /\ \A q \in Pubs : at'[q] \in {"trimming", "announcing"} =>
              at[q] \in {"trimming", "announcing"} /\ event'[q] = event[q]
    BY <1>3 DEF Numbered, Trimmed, Noted, StreamTypes
  <2> QED
    BY <1>1, <1>2, <2>1, LineKept
<1>4. ASSUME NEW p \in Pubs, Pushed(p) PROVE LineInv'
  <2>1. UNCHANGED <<got, inbox, socket, event>> /\ at[p] = "pushing" /\ at'[p] = "trimming"
        /\ \A q \in Pubs : q # p => at'[q] = at[q]
    BY <1>4 DEF Pushed, StreamTypes
  <2>2. Range(pushed') = Range(pushed) \cup {event[p]}
    BY <1>4, RangeAppend DEF Pushed, StreamTypes
  <2>3. event[p] \notin Range(pushed)
    <3> SUFFICES ASSUME NEW i \in 1..Len(pushed), pushed[i] = event[p] PROVE FALSE
      BY PushedTypes
    <3>1. pushed[i].by = p /\ pushed[i].n < pushed[i].n
      BY <2>1 DEF NumberInv
    <3> QED
      BY <3>1, PushedTypes
  <2>4. \A q \in Pubs : at'[q] \in {"trimming", "announcing"} =>
            \/ at[q] \in {"trimming", "announcing"} /\ event'[q] = event[q]
            \/ event'[q] \notin Range(pushed)
    BY <2>1, <2>3
  <2> QED
    BY <1>1, <1>2, <2>1, <2>2, <2>4, LineKept
<1>5. ASSUME NEW w \in Viewers, Received(w) PROVE LineInv'
  <2>1. /\ UNCHANGED <<pushed, at, event>>
        /\ \A v \in Viewers : v # w => UNCHANGED <<socket[v], inbox[v], got[v]>>
        /\ socket'[w] \in {"live", "closed"}
    BY <1>5 DEF Received, StreamTypes
  <2>2. \A v \in Viewers : Line(v)' = Line(v)
    BY <1>5, LineSteps
  <2> QED
    BY <1>1, <2>1, <2>2, LineKept
<1>6. ASSUME NEW w \in Viewers, Switched(w) PROVE LineInv'
  <2>1. /\ UNCHANGED <<pushed, at, event, inbox, got>>
        /\ \A v \in Viewers : v # w => UNCHANGED socket[v]
        /\ socket'[w] \in {"live", "closed"}
    BY <1>6 DEF Switched, StreamTypes
  <2> QED
    BY <1>1, <1>2, <2>1, LineKept
<1>7. CASE Still
  BY <1>1, <1>2, <1>7, LineKept DEF Still
<1>8. ASSUME NEW w \in Viewers, HasRead(w) PROVE LineInv'
  <2>1. /\ UNCHANGED <<pushed, at, event, inbox>> /\ inbox[w] = <<>>
        /\ \A v \in Viewers : v # w => UNCHANGED <<socket[v], got[v]>>
        /\ socket'[w] \in {"between", "closed"}
    BY <1>1, <1>8 DEF HasRead, StreamTypes
  <2>2. Line(w)' = UntilEnd(history) /\ \A v \in Viewers : v # w => Line(v)' = Line(v)
    BY <1>8, LineSteps
  <2>3. /\ Range(Line(w)') \subseteq Range(pushed)
        /\ Sorted(Line(w)') /\ Again(Line(w)') = {}
    BY <2>2, HistoryInOrder
  <2>4. /\ \A v \in Viewers : socket'[v] \in {"new", "between"} => inbox'[v] = <<>>
        /\ \A v \in Viewers : socket'[v] = "new" => got'[v] = <<>>
    BY <1>1, <2>1
  <2>5. \A v \in Viewers : Range(Line(v)') \subseteq Range(pushed') /\ Sorted(Line(v)')
    BY <2>1, <2>2, <2>3 DEF LineInv
  <2>6. \A v \in Viewers : \A k, l \in Again(Line(v)') : Line(v)'[k].by = Line(v)'[l].by => k = l
    BY <2>2, <2>3 DEF LineInv
  <2>7. \A v \in Viewers, q \in Pubs :
          at'[q] \in {"trimming", "announcing"} /\ event'[q] \in Range(Line(v)')
              => \A k \in Again(Line(v)') : Line(v)'[k].by # q
    BY <2>1, <2>2, <2>3 DEF LineInv
  <2> QED
    BY <2>4, <2>5, <2>6, <2>7 DEF LineInv
<1>9. ASSUME NEW p \in Pubs, Announced(p) PROVE LineInv'
  <2>1. /\ UNCHANGED <<pushed, event, socket, got>>
        /\ \A v \in Viewers : socket[v] # "live" => inbox'[v] = inbox[v]
        /\ \A q \in Pubs : at'[q] \in {"trimming", "announcing"} =>
              at[q] \in {"trimming", "announcing"}
    BY <1>9 DEF Announced, StreamTypes
  <2>2. /\ \A v \in Viewers : socket'[v] \in {"new", "between"} => inbox'[v] = <<>>
        /\ \A v \in Viewers : socket'[v] = "new" => got'[v] = <<>>
    BY <1>1, <2>1
  <2>3. ASSUME NEW v \in Viewers
        PROVE  /\ Range(Line(v)') \subseteq Range(pushed')
               /\ Sorted(Line(v)')
               /\ \A k, l \in Again(Line(v)') : Line(v)'[k].by = Line(v)'[l].by => k = l
               /\ \A q \in Pubs : at'[q] \in {"trimming", "announcing"} /\ event'[q] \in Range(Line(v)')
                    => \A k \in Again(Line(v)') : Line(v)'[k].by # q
    <3>1. CASE socket[v] = "live"
      BY <1>9, <3>1, AnnouncedInOrder
    <3>2. CASE socket[v] # "live"
      <4>1. Line(v)' = Line(v)
        BY <1>9, <3>2, LineSteps
      <4> QED
        BY <2>1, <4>1 DEF LineInv
    <3> QED
      BY <3>1, <3>2
  <2> QED
    BY <2>2, <2>3 DEF LineInv
<1> QED
  BY <1>3, <1>4, <1>5, <1>6, <1>7, <1>8, <1>9, CleanSteps

(* A websocket that watches misses no more. *)
LEMMA MissStep ==
    ASSUME StreamTypes, NumberInv, HistoryInv, LineInv, MissInv,
           faults \in Nat, faults' = 0, [StreamNext]_streamVars
    PROVE  MissInv'
<1>1. UNCHANGED <<got, inbox>> => \A v \in Viewers : Line(v)' = Line(v)
  BY LineSteps
<1>2. ASSUME UNCHANGED <<pushed, told, gap, start>>, \A v \in Viewers : Line(v)' = Line(v),
             \A v \in Viewers : socket'[v] \in {"between", "live"} => socket[v] \in {"between", "live"}
      PROVE  MissInv'
  BY <1>2 DEF MissInv
<1>3. ASSUME NEW p \in Pubs, Numbered(p) \/ Trimmed(p) \/ Noted(p) PROVE MissInv'
  BY <1>1, <1>2, <1>3 DEF Numbered, Trimmed, Noted
<1>4. ASSUME NEW p \in Pubs, Pushed(p) PROVE MissInv'
  <2>1. UNCHANGED <<socket, told, gap, start, got, inbox>> /\ at[p] = "pushing"
    BY <1>4 DEF Pushed
  <2>2. /\ Len(pushed') = Len(pushed) + 1 /\ pushed'[Len(pushed) + 1] = event[p]
        /\ \A i \in 1..Len(pushed) : pushed'[i] = pushed[i]
        /\ Range(pushed') = Range(pushed) \cup {event[p]}
    BY <1>4, AppendProperties, RangeAppend DEF Pushed, StreamTypes
  <2>3. event[p] \notin told
    <3> SUFFICES ASSUME NEW i \in 1..Len(pushed), pushed[i] = event[p] PROVE FALSE
      BY PushedTypes DEF MissInv
    <3>1. pushed[i].by = p /\ pushed[i].n < pushed[i].n
      BY <2>1 DEF NumberInv
    <3> QED
      BY <3>1, PushedTypes
  <2>4. told' \subseteq Range(pushed')
    BY <2>1, <2>2 DEF MissInv
  <2>5. ASSUME NEW v \in Viewers, socket'[v] \in {"between", "live"}
        PROVE  /\ start'[v] <= Len(pushed')
               /\ \A i \in 1..Len(pushed') :
                     i + MaxItems > start'[v] /\ (i <= start'[v] \/ pushed'[i] \in told')
                         => pushed'[i] \in Range(Line(v)') \cup gap'[v]
    <3>1. start[v] <= Len(pushed) /\ start[v] \in Nat /\ Len(pushed) \in Nat
      BY <2>1, <2>5, PushedTypes DEF MissInv, StreamTypes
    <3>2. Line(v)' = Line(v)
      BY <1>1, <2>1
    <3>3. ASSUME NEW i \in 1..Len(pushed'), i <= start'[v] \/ pushed'[i] \in told'
          PROVE  i \in 1..Len(pushed)
      BY <2>1, <2>2, <2>3, <3>1, <3>3
    <3> QED
      BY <2>1, <2>2, <2>5, <3>1, <3>2, <3>3 DEF MissInv
  <2> QED
    BY <2>4, <2>5 DEF MissInv
<1>5. ASSUME NEW p \in Pubs, Announced(p) PROVE MissInv'
  <2>1. /\ UNCHANGED <<socket, pushed, start, got>> /\ told' = told \cup {event[p]}
        /\ at[p] = "announcing"
    BY <1>5 DEF Announced
  <2>2. event[p] \in Range(pushed) /\ event[p] \in Events
    BY <2>1 DEF NumberInv, StreamTypes
  <2>3. ASSUME NEW v \in Viewers, socket[v] \in {"between", "live"}
        PROVE  Range(Line(v)') \cup gap'[v] = Range(Line(v)) \cup gap[v] \cup {event[p]}
    <3>1. CASE socket[v] = "between"
      <4>1. Line(v)' = Line(v)
        BY <1>5, <3>1, LineSteps
      <4> QED
        BY <1>5, <3>1, <4>1 DEF Announced
    <3>2. CASE socket[v] = "live"
      <4>1. Line(v)' = Append(Line(v), event[p])
        BY <1>5, <3>2, LineSteps
      <4>2. Range(Append(Line(v), event[p])) = Range(Line(v)) \cup {event[p]}
        BY <2>2, LineTypes, RangeAppend
      <4> QED
        BY <1>5, <3>2, <4>1, <4>2 DEF Announced
    <3> QED
      BY <2>3, <3>1, <3>2
  <2> QED
    BY <2>1, <2>2, <2>3 DEF MissInv
<1>6. ASSUME NEW w \in Viewers, HasRead(w) PROVE MissInv'
  <2>1. /\ UNCHANGED <<pushed, told, gap>> /\ start'[w] = Len(pushed)
        /\ socket'[w] = "between" => ~Ends(history)
        /\ socket'[w] \in {"between", "closed"}
        /\ \A v \in Viewers : v # w => UNCHANGED <<socket[v], start[v]>>
    BY <1>6 DEF HasRead, StreamTypes
  <2>2. Line(w)' = UntilEnd(history) /\ \A v \in Viewers : v # w => Line(v)' = Line(v)
    BY <1>6, LineSteps
  <2>3. ASSUME socket'[w] = "between", NEW i \in 1..Len(pushed), i + MaxItems > Len(pushed)
        PROVE  pushed[i] \in Range(Line(w)')
    <3>1. Line(w)' = history
      BY <2>1, <2>2, <2>3, UntilEndIs DEF StreamTypes
    <3>2. Range(history) = {history[k] : k \in 1..Len(history)} /\ Len(history) \in Nat
      BY RangeEquality, LenProperties DEF StreamTypes
    <3>3. MaxItems \in Nat /\ Len(pushed) \in Nat
      BY StreamAssumption, PushedTypes
    <3> DEFINE k == i - (Len(pushed) - Len(history))
    <3>4. k \in 1..Len(history) /\ Len(pushed) - Len(history) + k = i
      BY <2>3, <3>2, <3>3 DEF HistoryInv
    <3>5. history[k] = pushed[i]
      BY <3>4 DEF HistoryInv
    <3> QED
      BY <3>1, <3>2, <3>4, <3>5
  <2>4. Len(pushed) \in Nat
    BY PushedTypes
  <2>5. ASSUME NEW v \in Viewers, socket'[v] \in {"between", "live"}
        PROVE  /\ start'[v] <= Len(pushed')
               /\ \A i \in 1..Len(pushed') :
                     i + MaxItems > start'[v] /\ (i <= start'[v] \/ pushed'[i] \in told')
                         => pushed'[i] \in Range(Line(v)') \cup gap'[v]
    <3>1. CASE v = w
      BY <2>1, <2>3, <2>4, <2>5, <3>1
    <3>2. CASE v # w
      BY <2>1, <2>2, <2>5, <3>2 DEF MissInv
    <3> QED
      BY <3>1, <3>2
  <2> QED
    BY <2>1, <2>5 DEF MissInv
<1>7. ASSUME NEW w \in Viewers, Received(w) PROVE MissInv'
  <2>1. \A v \in Viewers : socket'[v] \in {"between", "live"} => socket[v] \in {"between", "live"}
    BY <1>7 DEF Received, StreamTypes
  <2>2. \A v \in Viewers : Line(v)' = Line(v)
    BY <1>7, LineSteps
  <2> QED
    BY <1>2, <1>7, <2>1, <2>2 DEF Received
<1>8. ASSUME NEW w \in Viewers, Switched(w) PROVE MissInv'
  <2>1. \A v \in Viewers : socket'[v] \in {"between", "live"} => socket[v] \in {"between", "live"}
    BY <1>8 DEF Switched, StreamTypes
  <2> QED
    BY <1>1, <1>2, <1>8, <2>1 DEF Switched
<1>9. CASE Still
  BY <1>1, <1>2, <1>9 DEF Still
<1> QED
  BY <1>3, <1>4, <1>5, <1>6, <1>7, <1>8, <1>9, CleanSteps

-----------------------------------------------------------------------------
(* The invariant of the stream and what it says.                           *)

LEMMA StreamInvInit == StreamInit => StreamInv
<1> SUFFICES ASSUME StreamInit PROVE StreamInv
  OBVIOUS
<1>1. <<>> \in Seq(Events) /\ Len(<<>>) = 0
  BY EmptySeq
<1>2. NoEvent \in Events
  BY DEF NoEvent, Events
<1>3. StreamTypes
  BY <1>1, <1>2, StreamAssumption DEF StreamInit, StreamTypes
<1>4. NumberInv /\ HistoryInv
  BY <1>1 DEF StreamInit, NumberInv, HistoryInv
<1>5. \A v \in Viewers : Line(v) = <<>>
  BY <1>1, ConcatEmptySeq DEF StreamInit, Line
<1>6. Range(<<>>) = {} /\ Sorted(<<>>) /\ Again(<<>>) = {}
  <2>1. Range(<<>>) = {<<>>[i] : i \in 1..Len(<<>>)}
    BY <1>1, RangeEquality
  <2> QED
    BY <1>1, <2>1 DEF Sorted, Again
<1>7. LineInv
  BY <1>5, <1>6 DEF StreamInit, LineInv
<1>8. MissInv
  BY DEF StreamInit, MissInv
<1>9. faults = 0
  BY DEF StreamInit
<1> QED
  BY <1>3, <1>4, <1>7, <1>8, <1>9 DEF StreamInv

LEMMA StreamInvStep == StreamInv /\ [StreamNext]_streamVars => StreamInv'
<1> SUFFICES ASSUME StreamInv, [StreamNext]_streamVars PROVE StreamInv'
  OBVIOUS
<1>1. faults \in Nat
  BY DEF StreamInv
<1>2. faults' = faults \/ Fault
  BY DEF StreamNext, streamVars, Publish, Number, Push, Trim, Announce, Note,
     Watch, ReadHistory, Subscribe, Receive, Drop
<1>3. faults' \in Nat
  BY <1>1, <1>2 DEF Fault
<1>4. ASSUME faults' = 0
      PROVE  StreamTypes' /\ NumberInv' /\ HistoryInv' /\ LineInv' /\ MissInv'
  <2>1. StreamTypes /\ NumberInv /\ HistoryInv /\ LineInv /\ MissInv
    BY <1>1, <1>4, CleanSteps DEF StreamInv
  <2> QED
    BY <1>1, <1>4, <2>1, StreamTypesStep, NumberStep, HistoryStep, LineStep, MissStep
<1> QED
  BY <1>3, <1>4 DEF StreamInv

LEMMA StreamHolds == StreamSpec => []StreamInv
BY StreamInvInit, StreamInvStep, PTL DEF StreamSpec

(* The first of two lists is the beginning of both. *)
LEMMA BeginningIs ==
    ASSUME NEW S, NEW s \in Seq(S), NEW t \in Seq(S)
    PROVE  /\ DOMAIN s = 1..Len(s) /\ Len(s) \in Nat
           /\ Len(s \o t) \in Nat /\ Len(s) <= Len(s \o t)
           /\ \A i \in 1..Len(s) : s[i] = (s \o t)[i]
           /\ Range(s \o t) = Range(s) \cup Range(t)
<1> DEFINE u == s \o t
<1>1. DOMAIN s = 1..Len(s) /\ Len(s) \in Nat /\ Len(t) \in Nat
  BY LenProperties
<1>2. /\ Len(u) = Len(s) + Len(t)
      /\ \A i \in 1..(Len(s) + Len(t)) : u[i] = IF i <= Len(s) THEN s[i] ELSE t[i - Len(s)]
  BY ConcatProperties
<1>3. Range(u) = Range(s) \cup Range(t)
  BY RangeConcatenation
<1> HIDE DEF u
<1>4. Len(u) \in Nat /\ Len(s) <= Len(u)
  BY <1>1, <1>2
<1>5. \A i \in 1..Len(s) : s[i] = u[i]
  BY <1>1, <1>2
<1> QED
  BY <1>1, <1>3, <1>4, <1>5 DEF u

(* What a websocket has sent is the beginning of its line. *)
LEMMA GotIsInLine ==
    ASSUME StreamTypes, NEW v \in Viewers
    PROVE  /\ DOMAIN got[v] = 1..Len(got[v]) /\ Len(got[v]) \in Nat
           /\ Len(Line(v)) \in Nat /\ Len(got[v]) <= Len(Line(v))
           /\ \A i \in 1..Len(got[v]) : got[v][i] = Line(v)[i]
           /\ Range(Line(v)) = Range(got[v]) \cup Range(inbox[v])
<1>1. got[v] \in Seq(Events) /\ inbox[v] \in Seq(Events)
  BY DEF StreamTypes
<1> DEFINE s == got[v]
           t == inbox[v]
<1> HIDE DEF s, t
<1>2. s \in Seq(Events) /\ t \in Seq(Events)
  BY <1>1 DEF s, t
<1>3. /\ DOMAIN s = 1..Len(s) /\ Len(s) \in Nat
      /\ Len(s \o t) \in Nat /\ Len(s) <= Len(s \o t)
      /\ \A i \in 1..Len(s) : s[i] = (s \o t)[i]
      /\ Range(s \o t) = Range(s) \cup Range(t)
  BY <1>2, BeginningIs, Zenon
<1>4. Line(v) = s \o t
  BY DEF Line, s, t
<1> QED
  BY <1>3, <1>4, Zenon DEF s, t

(* With any number of publishers, events and websockets, and any bound on  *)
(* the history: while no query fails, a websocket sends the events of a    *)
(* publisher in the order of their numbers, and at most one of them twice. *)
THEOREM OrderIsKept == StreamSpec => []OrderKept
<1>1. ASSUME StreamTypes, LineInv, NEW v \in Viewers, NEW p \in Pubs
      PROVE  /\ \A i, k \in Sent(v, p) : i < k => got[v][i].n <= got[v][k].n
             /\ Cardinality({k \in Sent(v, p) :
                   \E i \in Sent(v, p) : i < k /\ got[v][i].n = got[v][k].n}) <= 1
  <2> DEFINE Twice == {k \in Sent(v, p) : \E i \in Sent(v, p) : i < k /\ got[v][i].n = got[v][k].n}
  <2>1. \A i \in Sent(v, p) :
            i \in 1..Len(Line(v)) /\ got[v][i] = Line(v)[i] /\ Line(v)[i].by = p
    BY <1>1, GotIsInLine DEF Sent
  <2>2. \A i, k \in Sent(v, p) : i < k => got[v][i].n <= got[v][k].n
    BY <1>1, <2>1 DEF LineInv, Sorted
  <2>3. \A k \in Twice : k \in Again(Line(v))
    BY <2>1 DEF Again
  <2>4. \A k, l \in Twice : k = l
    <3>1. \A k \in Twice : k \in Again(Line(v)) /\ Line(v)[k].by = p
      BY <2>1, <2>3
    <3>2. \A k, l \in Again(Line(v)) : Line(v)[k].by = Line(v)[l].by => k = l
      BY <1>1 DEF LineInv
    <3> HIDE DEF Twice
    <3> QED
      BY <3>1, <3>2, Zenon
  <2> HIDE DEF Twice
  <2>5. Twice = {} \/ \E k : Twice = {k}
    BY <2>4
  <2>6. Cardinality(Twice) <= 1
    BY <2>5, FS_EmptySet, FS_Singleton
  <2> QED
    BY <2>2, <2>6 DEF Twice
<1>2. StreamInv => OrderKept
  BY <1>1 DEF StreamInv, OrderKept
<1> QED
  BY <1>2, StreamHolds, PTL

(* While no query fails, a websocket that watches has got, or will get     *)
(* without anybody's doing, each event that was in the history when it     *)
(* read it or was announced since, but for those that were announced after *)
(* it read the history and before it subscribed.                           *)
THEOREM NothingElseIsMissed == StreamSpec => []OnlyTheGapIsMissed
<1>1. ASSUME StreamTypes, MissInv PROVE OnlyTheGapIsMissed
  <2>1. \A v \in Viewers : Range(Line(v)) = Range(got[v]) \cup Range(inbox[v])
    BY <1>1, GotIsInLine
  <2> QED
    BY <1>1, <2>1 DEF OnlyTheGapIsMissed, MissInv
<1>2. StreamInv => OnlyTheGapIsMissed
  BY <1>1 DEF StreamInv, OnlyTheGapIsMissed
<1> QED
  BY <1>2, StreamHolds, PTL
=============================================================================
