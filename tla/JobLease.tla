------------------------------ MODULE JobLease ------------------------------
(***************************************************************************)
(* What the durable queue promises the users of the platform, with no row, *)
(* heartbeat, recovery pass or process in sight: a job is worked on by one *)
(* worker at a time, a worker works on one job at a time, and a job whose  *)
(* outcome is settled is not worked on again.  WorkerService implements it *)
(* under the assumptions stated there.                                     *)
(***************************************************************************)
CONSTANTS Jobs, Workers

VARIABLES
    holders,    \* holders[j]: the workers that execute job j
    closed      \* closed[j]: the outcome of j is settled

vars == <<holders, closed>>

TypeOK ==
    /\ holders \in [Jobs -> SUBSET Workers]
    /\ closed \in [Jobs -> BOOLEAN]

Init ==
    /\ holders = [j \in Jobs |-> {}]
    /\ closed = [j \in Jobs |-> FALSE]

(* A worker without a job takes one that is open and that nobody holds. *)
Acquire(j, w) ==
    /\ ~closed[j]
    /\ holders[j] = {}
    /\ \A k \in Jobs : w \notin holders[k]
    /\ holders' = [holders EXCEPT ![j] = {w}]
    /\ UNCHANGED closed

(* The holder lets go: the outcome is settled, or the job is open again. *)
Settle(j, w) ==
    /\ holders[j] = {w}
    /\ holders' = [holders EXCEPT ![j] = {}]
    /\ closed' = [closed EXCEPT ![j] = TRUE]

GiveBack(j, w) ==
    /\ holders[j] = {w}
    /\ holders' = [holders EXCEPT ![j] = {}]
    /\ UNCHANGED closed

Next == \E j \in Jobs, w \in Workers :
            Acquire(j, w) \/ Settle(j, w) \/ GiveBack(j, w)

Spec == Init /\ [][Next]_vars
=============================================================================
