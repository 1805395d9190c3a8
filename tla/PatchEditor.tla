---------------------------- MODULE PatchEditor ----------------------------
(***************************************************************************)
(* Jobs that edit the files of a workspace.  A job builds its context from *)
(* the files (ContextEngine.build_context), asks a language model for      *)
(* patches until a list of them can be applied (run_safe_patch_edit) and   *)
(* writes the files that differ (_run_code_execution).  Redis keeps the    *)
(* contexts by workspace and task, the results and the locks by task       *)
(* alone.  Every await is a step; jobs interleave between them.            *)
(*                                                                         *)
(* Files are read in any order.  What the model is told about earlier      *)
(* attempts, the statistics of strategies and the metrics change nothing   *)
(* but the wording of prompts and are left out.                            *)
(***************************************************************************)
EXTENDS TextPatches

CONSTANTS
    Jobs, Workspaces, Tasks,
    Casts,        \* which jobs meet: records of functions ws and task
    Original,     \* the files of each workspace
    Answers,      \* lists of patches the model may give
    Attempts,     \* bound on the requests of one job
    MaxTrouble    \* bound on failures, restarts and locks that expire

ASSUME BoundsAssumption ==
    /\ Attempts \in Nat \ {0}
    /\ MaxTrouble \in Nat

ASSUME CastsAssumption ==
    /\ Casts \subseteq [ws : [Jobs -> Workspaces], task : [Jobs -> Tasks]]
    /\ DOMAIN Original = Workspaces
    /\ \A w \in Workspaces : DOMAIN Original[w] # {}

(* An answer is a list. *)
ASSUME AnswersAssumption == \A patches \in Answers : Len(patches) \in Nat

VARIABLES
    ws, task,     \* what each job is about
    files,        \* files[w]: the files on the server
    context, result, lock,  \* the keys in Redis: {} or one value, and the locks
    at, mem,      \* how far a job is, and its local variables
    faults,       \* how many queries, reads and writes have failed
    restarts, lapses,
    alone,        \* no two jobs have been in progress at the same time
    lost          \* a write replaced something the job had not read

redis == <<context, result, lock>>
job == <<at, mem>>
hazards == <<faults, restarts, lapses>>
vars == <<ws, task, files, redis, job, hazards, alone, lost>>

NoFiles == <<>>
Untried == {<<>>}   \* the targets of an attempt that never was

(* The local variables of a job that is not in progress. *)
Blank == [
    seen |-> NoFiles,     \* the files as the job has read them
    todo |-> {},          \* the paths it has still to read or write
    plan |-> NoFiles,     \* the files as they shall be
    tries |-> 0,          \* the number of its request
    tried |-> Untried,    \* the targets of the attempt before
    missed |-> FALSE ]    \* one of them was not there once

Asking == {"asking", "caching", "releasing"}
Busy == {"reading", "storing", "recalling", "locking", "writing"} \cup Asking
Ended == {"patched", "failed", "processing"}

Key(j) == <<ws[j], task[j]>>
Keys == Workspaces \X Tasks
Open == {j \in Jobs : at[j] \in Busy}

(* The types of the state that is not a file or a patch. *)
TypeOK ==
    /\ ws \in [Jobs -> Workspaces] /\ task \in [Jobs -> Tasks]
    /\ DOMAIN files = Workspaces
    /\ DOMAIN context = Keys /\ DOMAIN result = Tasks
    /\ lock \in [Tasks -> BOOLEAN]
    /\ at \in [Jobs -> {"new"} \cup Busy \cup Ended]
    /\ DOMAIN mem = Jobs
    /\ \A j \in Jobs : /\ mem[j].tries \in 0..Attempts
                      /\ mem[j].missed \in BOOLEAN
    /\ {faults, restarts, lapses} \subseteq 0..MaxTrouble
    /\ alone \in BOOLEAN /\ lost \in BOOLEAN

Init ==
    /\ \E cast \in Casts : ws = cast.ws /\ task = cast.task
    /\ files = Original
    /\ context = [k \in Keys |-> {}]
    /\ result = [t \in Tasks |-> {}]
    /\ lock = [t \in Tasks |-> FALSE]
    /\ at = [j \in Jobs |-> "new"]
    /\ mem = [j \in Jobs |-> Blank]
    /\ faults = 0 /\ restarts = 0 /\ lapses = 0
    /\ alone = TRUE /\ lost = FALSE

-----------------------------------------------------------------------------
(* A job moves on, its local variables become m; a job that ends has none. *)
Go(j, stage, m) ==
    /\ at' = [at EXCEPT ![j] = stage]
    /\ mem' = [mem EXCEPT ![j] = IF stage \in Ended THEN Blank ELSE m]

Trouble == faults + restarts + lapses
Fault == Trouble < MaxTrouble /\ faults' = faults + 1 /\ UNCHANGED <<restarts, lapses>>

(* Nothing to read is an error. *)
Built(j, known) ==
    Go(j, IF known = NoFiles THEN "failed" ELSE "recalling", [mem[j] EXCEPT !.seen = known])

(* ContextEngine.build_context.  A lookup that fails is a miss. *)
Start(j) ==
    /\ at[j] = "new"
    /\ alone' = (alone /\ Open = {})
    /\ \/ \E known \in context[Key(j)] : Built(j, known) /\ UNCHANGED hazards
       \/ /\ IF context[Key(j)] = {} THEN UNCHANGED hazards ELSE Fault
          /\ Go(j, "reading", [mem[j] EXCEPT !.todo = DOMAIN files[ws[j]]])
    /\ UNCHANGED <<ws, task, files, redis, lost>>

(* A file that cannot be read is left out; an SSH connection that fails,   *)
(* also while the files are listed, ends the job.                          *)
Read(j) ==
    /\ at[j] = "reading"
    /\ \E p \in mem[j].todo :
        LET left == [mem[j] EXCEPT !.todo = @ \ {p}]
            stage == IF left.todo = {} THEN "storing" ELSE "reading"
            known == [q \in DOMAIN mem[j].seen \cup {p} |->
                        IF q = p THEN files[ws[j]][p] ELSE mem[j].seen[q]]
        IN \/ Go(j, stage, [left EXCEPT !.seen = known]) /\ UNCHANGED hazards
           \/ Go(j, stage, left) /\ Fault
           \/ Go(j, "failed", left) /\ Fault
    /\ UNCHANGED <<ws, task, files, redis, alone, lost>>

(* Mutant: the key of a context does not name the task. *)
StoreForWorkspace(j) ==
    /\ at[j] = "storing"
    /\ context' = [k \in Keys |-> IF k[1] = ws[j] THEN {mem[j].seen} ELSE context[k]]
    /\ Built(j, mem[j].seen)
    /\ UNCHANGED <<ws, task, files, result, lock, hazards, alone, lost>>

StoreContext(j) ==
    /\ at[j] = "storing"
    /\ \/ context' = [context EXCEPT ![Key(j)] = {mem[j].seen}] /\ UNCHANGED hazards
       \/ Fault /\ UNCHANGED context
    /\ Built(j, mem[j].seen)
    /\ UNCHANGED <<ws, task, files, result, lock, alone, lost>>

-----------------------------------------------------------------------------
(* run_safe_patch_edit.                                                    *)

(* What of a plan is written: files that were read and differ. *)
Differing(m) == {p \in DOMAIN m.seen \cap DOMAIN m.plan : m.plan[p] # m.seen[p]}

(* No plan, or nothing in it that differs, is an error. *)
Leave(j, m) ==
    Go(j, IF Differing(m) = {} THEN "failed" ELSE "writing", [m EXCEPT !.todo = Differing(m)])

(* A task that has succeeded before is not asked again. *)
Recall(j) ==
    /\ at[j] = "recalling"
    /\ \/ \E known \in result[task[j]] :
            /\ Leave(j, [mem[j] EXCEPT !.plan = known])
            /\ UNCHANGED hazards
       \/ /\ IF result[task[j]] = {} THEN UNCHANGED hazards ELSE Fault
          /\ Go(j, "locking", mem[j])
    /\ UNCHANGED <<ws, task, files, redis, alone, lost>>

(* The first request. *)
Enter(j) == Go(j, "asking", [mem[j] EXCEPT !.tries = 1])

(* Mutant: SET without NX. *)
LockBlindly(j) ==
    /\ at[j] = "locking"
    /\ lock' = [lock EXCEPT ![task[j]] = TRUE]
    /\ Enter(j)
    /\ UNCHANGED <<ws, task, files, context, result, hazards, alone, lost>>

(* SET NX with an expiry.  When Redis fails the job goes on without. *)
Lock(j) ==
    /\ at[j] = "locking"
    /\ \/ /\ ~lock[task[j]]
          /\ lock' = [lock EXCEPT ![task[j]] = TRUE]
          /\ Enter(j) /\ UNCHANGED hazards
       \/ /\ lock[task[j]]
          /\ Go(j, "processing", mem[j]) /\ UNCHANGED <<lock, hazards>>
       \/ Fault /\ Enter(j) /\ UNCHANGED lock
    /\ UNCHANGED <<ws, task, files, context, result, alone, lost>>

(* check_patch_drift: an attempt must have the targets of the one before,  *)
(* also when that one timed out and had none.                              *)
Drifts(m, patches) == m.tries > 1 /\ m.tried # Untried /\ Targets(patches) # m.tried

(* The result of a list of patches is good if all of them were applied,    *)
(* the checks that came with the list pass, and something is different.    *)
AcceptsUndone(m, outcome, patches, checks, parses) ==
    /\ outcome.errors = {} /\ outcome.changed # {}
    /\ "feature" \in checks => FeaturePresent(outcome.files, patches)
    /\ "syntax" \in checks => parses
Accepts(m, outcome, patches, checks, parses) ==
    /\ outcome.errors = {} /\ outcome.files # m.seen
    /\ "feature" \in checks => FeaturePresent(outcome.files, patches)
    /\ "syntax" \in checks => parses

(* Mutant: attempts are not counted. *)
RetryForever(j, m) == Go(j, "asking", m)

Retry(j, m) ==
    IF m.tries < Attempts THEN Go(j, "asking", [m EXCEPT !.tries = @ + 1])
                          ELSE Go(j, "releasing", m)

(* Without an API key there is no client: the first request raises, past   *)
(* the loop but not past the release of the lock.                          *)
NoClient(j) ==
    /\ at[j] = "asking" /\ mem[j].tries = 1
    /\ Go(j, "releasing", mem[j])
    /\ UNCHANGED <<ws, task, files, redis, hazards, alone, lost>>

(* What the model sent is not a list of patches. *)
Malformed(j) ==
    /\ at[j] = "asking"
    /\ Retry(j, mem[j])
    /\ UNCHANGED <<ws, task, files, redis, hazards, alone, lost>>

(* generate_patch_response: a request that fails, or has no answer in time, *)
(* is an answer without patches.                                           *)
Received == Answers \cup {<<>>}

Answered(j) ==
    /\ at[j] = "asking"
    /\ \E patches \in Received :
        LET outcome == ApplyPatches(mem[j].seen, patches)
            m == [mem[j] EXCEPT !.tried = Targets(patches),
                                !.missed = "target_mismatch" \in outcome.errors]
        IN \/ Drifts(mem[j], patches) /\ Go(j, "releasing", mem[j])
           \/ /\ ~Drifts(mem[j], patches)
              /\ \E checks \in SUBSET {"feature", "syntax"}, parses \in BOOLEAN :
                    IF Accepts(m, outcome, patches, checks, parses)
                      THEN Go(j, "caching", [m EXCEPT !.plan = outcome.files])
                      ELSE Retry(j, m)
    /\ UNCHANGED <<ws, task, files, redis, hazards, alone, lost>>

CacheResult(j) ==
    /\ at[j] = "caching"
    /\ \/ /\ result' = [result EXCEPT ![task[j]] = {mem[j].plan}]
          /\ UNCHANGED hazards
       \/ Fault /\ UNCHANGED result
    /\ Go(j, "releasing", mem[j])
    /\ UNCHANGED <<ws, task, files, context, lock, alone, lost>>

(* The key is deleted whoever holds it. *)
Release(j) ==
    /\ at[j] = "releasing"
    /\ \/ lock' = [lock EXCEPT ![task[j]] = FALSE] /\ UNCHANGED hazards
       \/ Fault /\ UNCHANGED lock
    /\ Leave(j, mem[j])
    /\ UNCHANGED <<ws, task, files, context, result, alone, lost>>

-----------------------------------------------------------------------------
(* Files are written one after the other; the first failure ends the job.  *)
Write(j) ==
    /\ at[j] = "writing"
    /\ \E p \in mem[j].todo :
        LET left == [mem[j] EXCEPT !.todo = @ \ {p}]
        IN /\ files' = [files EXCEPT ![ws[j]][p] = mem[j].plan[p]]
           /\ lost' = (lost \/ files[ws[j]][p] # mem[j].seen[p])
           /\ Go(j, IF left.todo = {} THEN "patched" ELSE "writing", left)
    /\ UNCHANGED <<ws, task, redis, hazards, alone>>

WriteFails(j) ==
    /\ at[j] = "writing"
    /\ Fault
    /\ Go(j, "failed", mem[j])
    /\ UNCHANGED <<ws, task, files, redis, alone, lost>>

(* The jobs in progress are executed again from the start.  They were      *)
(* cancelled, and gave their locks back, or they were cut off.             *)
Restart ==
    /\ Trouble < MaxTrouble /\ restarts' = restarts + 1
    /\ at' = [j \in Jobs |-> IF j \in Open THEN "new" ELSE at[j]]
    /\ mem' = [j \in Jobs |-> Blank]
    /\ \/ UNCHANGED lock
       \/ lock' = [t \in Tasks |-> lock[t] /\ \A j \in Jobs : task[j] = t => at[j] \notin Asking]
    /\ UNCHANGED <<ws, task, files, context, result, faults, lapses, alone, lost>>

(* Keys of Redis expire. *)
Lapse(t) ==
    /\ lock[t]
    /\ Trouble < MaxTrouble /\ lapses' = lapses + 1
    /\ lock' = [lock EXCEPT ![t] = FALSE]
    /\ UNCHANGED <<ws, task, files, context, result, job, faults, restarts, alone, lost>>

Forget ==
    /\ \/ /\ \E k \in Keys : context[k] # {} /\ context' = [context EXCEPT ![k] = {}]
          /\ UNCHANGED result
       \/ /\ \E t \in Tasks : result[t] # {} /\ result' = [result EXCEPT ![t] = {}]
          /\ UNCHANGED context
    /\ UNCHANGED <<ws, task, files, lock, job, hazards, alone, lost>>

-----------------------------------------------------------------------------
Build(j) == Start(j) \/ Read(j) \/ StoreContext(j)
Edit(j) ==
    Recall(j) \/ Lock(j) \/ NoClient(j) \/ Malformed(j) \/ Answered(j) \/ CacheResult(j) \/ Release(j)
Step(j) == Build(j) \/ Edit(j) \/ Write(j)

Next ==
    \/ \E j \in Jobs : Step(j) \/ WriteFails(j)
    \/ Restart \/ Forget
    \/ \E t \in Tasks : Lapse(t)

Spec == Init /\ [][Next]_vars

(* The event loop gives every job its turn. *)
FairSpec == Spec /\ \A j \in Jobs : WF_vars(Step(j))

-----------------------------------------------------------------------------
(* Safety.                                                                 *)

Calm == faults = 0 /\ lapses = 0

(* Two requests of the same task are out at the same time only after Redis *)
(* failed or the lock expired: the lock is taken by one and not given back *)
(* by another, also after restarts.                                        *)
OneAsker ==
    Calm => \A j, k \in Jobs :
        at[j] \in Asking /\ at[k] \in Asking /\ task[j] = task[k] => j = k

(* A job is told that its task is processed already only while another job *)
(* does, unless a restart or a failure has left the lock behind.           *)
RefusalIsTrue ==
    [][\A j \in Jobs : faults = 0 /\ restarts = 0 /\ at[j] = "locking" /\ at'[j] = "processing" =>
        \E k \in Jobs \ {j} : task[k] = task[j] /\ at[k] \in Asking]_vars

Distinct == \A j, k \in Jobs : task[j] = task[k] => j = k

(* Jobs that come one after the other with tasks of their own lose nothing *)
(* of each other: what a write replaces is what the job has read.          *)
NoLostEdit == alone /\ Distinct /\ restarts = 0 => ~lost

(* A result that was accepted differs from the files in a file that will   *)
(* be written: patches that undo each other are no success.                *)
SuccessIsAChange ==
    \A j \in Jobs : at[j] \in {"caching", "releasing"} /\ mem[j].plan # NoFiles =>
        Differing(mem[j]) # {}

-----------------------------------------------------------------------------
(* Liveness.                                                               *)

(* Every job ends: the requests are bounded, and nobody waits for a lock.  *)
JobsEnd == \A j \in Jobs : at[j] # "new" ~> at[j] \in Ended \cup {"new"}
=============================================================================
