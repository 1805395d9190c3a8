------------------------- MODULE PatchEditor_proofs -------------------------
(* Proofs about jobs that edit files, for any number of jobs, any files    *)
(* and any answers: the types, the lock of a task, and what one job may    *)
(* lose of the work of another.                                            *)
EXTENDS PatchEditor, WellFoundedInduction, TLAPS

Stages == {"new"} \cup Busy \cup Ended

(* The stages, one by one. *)
LEMMA StageNames ==
    /\ Asking = {"asking", "caching", "releasing"}
    /\ Busy = {"reading", "storing", "recalling", "locking", "writing", "asking", "caching", "releasing"}
    /\ Ended = {"patched", "failed", "processing"}
    /\ Stages = {"new", "reading", "storing", "recalling", "locking", "writing", "asking", "caching",
                 "releasing", "patched", "failed", "processing"}
BY DEF Asking, Busy, Ended, Stages

Fields == {"seen", "todo", "plan", "tries", "tried", "missed"}

(* The local variables of a job. *)
Local(m) == DOMAIN m = Fields /\ m.tries \in 0..Attempts /\ m.missed \in BOOLEAN

TypeInv ==
    /\ TypeOK
    /\ Trouble <= MaxTrouble
    /\ \A j \in Jobs : Local(mem[j])

LEMMA BlankLocal == Local(Blank)
BY BoundsAssumption DEF Local, Blank, Fields

LEMMA Assigning ==
    ASSUME NEW m, Local(m)
    PROVE  /\ \A x : Local([m EXCEPT !.plan = x])
           /\ \A x : \A b \in BOOLEAN : Local([m EXCEPT !.tried = x, !.missed = b])
           /\ \A n \in 0..Attempts : Local([m EXCEPT !.tries = n])
           /\ m.tries < Attempts => Local([m EXCEPT !.tries = @ + 1])
<1>1. \A x : Local([m EXCEPT !.plan = x])
  BY DEF Local, Fields
<1>2. \A x : \A b \in BOOLEAN : Local([m EXCEPT !.tried = x, !.missed = b])
  BY DEF Local, Fields
<1>3. \A n \in 0..Attempts : Local([m EXCEPT !.tries = n])
  BY DEF Local, Fields
<1>4. m.tries < Attempts => m.tries + 1 \in 0..Attempts
  BY BoundsAssumption DEF Local
<1> QED
  BY <1>1, <1>2, <1>3, <1>4

LEMMA Asked ==
    ASSUME TypeInv, NEW j \in Jobs, NEW m, Local(m), Retry(j, m)
    PROVE  \E stage, n : stage \in {"asking", "releasing"} /\ Local(n) /\ n.seen = m.seen /\ Go(j, stage, n)
<1>1. CASE m.tries < Attempts
  <2>1. Local([m EXCEPT !.tries = @ + 1]) /\ [m EXCEPT !.tries = @ + 1].seen = m.seen
    BY <1>1, Assigning DEF Local, Fields
  <2> QED
    BY <1>1, <2>1 DEF Retry
<1>2. CASE ~(m.tries < Attempts)
  BY <1>2 DEF Retry
<1> QED
  BY <1>1, <1>2

(* What an answer does: the job asks again, keeps the result or gives up. *)
LEMMA Answering ==
    ASSUME TypeInv, NEW j \in Jobs, Answered(j)
    PROVE  \E stage, n : stage \in Asking /\ Local(n) /\ n.seen = mem[j].seen /\ Go(j, stage, n)
<1>1. PICK patches \in Received :
        LET outcome == ApplyPatches(mem[j].seen, patches)
            m == [mem[j] EXCEPT !.tried = Targets(patches),
                                !.missed = "target_mismatch" \in outcome.errors]
        IN \/ Drifts(mem[j], patches) /\ Go(j, "releasing", mem[j])
           \/ /\ ~Drifts(mem[j], patches)
              /\ \E checks \in SUBSET {"feature", "syntax"}, parses \in BOOLEAN :
                    IF Accepts(m, outcome, patches, checks, parses)
                      THEN Go(j, "caching", [m EXCEPT !.plan = outcome.files])
                      ELSE Retry(j, m)
  BY DEF Answered
<1> DEFINE outcome == ApplyPatches(mem[j].seen, patches)
           m == [mem[j] EXCEPT !.tried = Targets(patches),
                               !.missed = "target_mismatch" \in outcome.errors]
<1>2. ("target_mismatch" \in outcome.errors) \in BOOLEAN
  OBVIOUS
<1>3. Local(mem[j])
  BY DEF TypeInv
<1>4. Local(m) /\ m.seen = mem[j].seen
  BY <1>2, <1>3, Assigning DEF Local, Fields
<1>5. Local([m EXCEPT !.plan = outcome.files]) /\ [m EXCEPT !.plan = outcome.files].seen = m.seen
  BY <1>4, Assigning DEF Local, Fields
<1>6. \/ Go(j, "releasing", mem[j])
      \/ Go(j, "caching", [m EXCEPT !.plan = outcome.files])
      \/ Retry(j, m)
  BY <1>1
<1> HIDE DEF m, outcome
<1> QED
  BY <1>3, <1>4, <1>5, <1>6, Asked, StageNames

(* Every action moves at most one job, *)
LEMMA Going ==
    ASSUME TypeInv, NEW j \in Jobs, NEW stage \in Stages, NEW m, Local(m), Go(j, stage, m)
    PROVE  /\ at' \in [Jobs -> Stages] /\ DOMAIN mem' = Jobs
           /\ \A k \in Jobs : Local(mem'[k])
<1>1. at' \in [Jobs -> Stages]
  BY DEF Go, TypeInv, TypeOK, Stages
<1>2. DOMAIN mem' = Jobs
  BY DEF Go, TypeInv, TypeOK
<1>3. ASSUME NEW k \in Jobs PROVE Local(mem'[k])
  BY BlankLocal DEF Go, TypeInv, TypeOK
<1> QED
  BY <1>1, <1>2, <1>3

(* and counts at most one failure. *)
LEMMA Failing ==
    ASSUME TypeInv, Fault \/ UNCHANGED hazards
    PROVE  Trouble' <= MaxTrouble /\ ({faults, restarts, lapses} \subseteq 0..MaxTrouble)'
BY BoundsAssumption DEF TypeInv, TypeOK, Fault, Trouble, hazards

(* What is left of the types. *)
LEMMA Others ==
    ASSUME TypeInv, UNCHANGED <<ws, task>>, DOMAIN files' = Workspaces, DOMAIN context' = Keys,
           DOMAIN result' = Tasks, lock' \in [Tasks -> BOOLEAN], alone' \in BOOLEAN, lost' \in BOOLEAN,
           at' \in [Jobs -> Stages], DOMAIN mem' = Jobs, \A k \in Jobs : Local(mem'[k]),
           Trouble' <= MaxTrouble, ({faults, restarts, lapses} \subseteq 0..MaxTrouble)'
    PROVE  TypeInv'
BY DEF TypeInv, TypeOK, Local, Stages

LEMMA TypeInit == Init => TypeInv
<1> SUFFICES ASSUME Init PROVE TypeInv
  OBVIOUS
<1>1. ws \in [Jobs -> Workspaces] /\ task \in [Jobs -> Tasks] /\ DOMAIN files = Workspaces
  BY CastsAssumption DEF Init
<1>2. \A j \in Jobs : Local(mem[j])
  BY BlankLocal DEF Init
<1>3. at \in [Jobs -> {"new"} \cup Busy \cup Ended]
  BY DEF Init
<1>4. \A j \in Jobs : mem[j].tries \in 0..Attempts /\ mem[j].missed \in BOOLEAN
  BY <1>2 DEF Local
<1>5. Trouble <= MaxTrouble /\ {faults, restarts, lapses} \subseteq 0..MaxTrouble
  BY BoundsAssumption DEF Init, Trouble
<1>6. DOMAIN context = Keys /\ DOMAIN result = Tasks /\ lock \in [Tasks -> BOOLEAN]
      /\ DOMAIN mem = Jobs /\ alone \in BOOLEAN /\ lost \in BOOLEAN
  BY DEF Init
<1> QED
  BY <1>1, <1>2, <1>3, <1>4, <1>5, <1>6 DEF TypeInv, TypeOK

LEMMA TypeStep == TypeInv /\ [Next]_vars => TypeInv'
<1> SUFFICES ASSUME TypeInv, [Next]_vars PROVE TypeInv'
  OBVIOUS
<1>1. ASSUME NEW j \in Jobs, Start(j) PROVE TypeInv'
  <2>1. at' \in [Jobs -> Stages] /\ DOMAIN mem' = Jobs /\ \A k \in Jobs : Local(mem'[k])
    BY <1>1, Going, StageNames, BoundsAssumption DEF Start, Built, Open, TypeInv, Local, Fields
  <2>2. Fault \/ UNCHANGED hazards
    BY <1>1 DEF Start, Built, Open, Fault, hazards
  <2> QED
    BY <2>1, <2>2, <1>1, Failing, Others DEF Start, Built, Open, TypeInv, TypeOK, redis, hazards
<1>2. ASSUME NEW j \in Jobs, Read(j) PROVE TypeInv'
  <2>1. at' \in [Jobs -> Stages] /\ DOMAIN mem' = Jobs /\ \A k \in Jobs : Local(mem'[k])
    BY <1>2, Going, StageNames, BoundsAssumption DEF Read, TypeInv, Local, Fields
  <2>2. Fault \/ UNCHANGED hazards
    BY <1>2 DEF Read, Fault, hazards
  <2> QED
    BY <2>1, <2>2, <1>2, Failing, Others DEF Read, TypeInv, TypeOK, redis, hazards
<1>3. ASSUME NEW j \in Jobs, StoreContext(j) PROVE TypeInv'
  <2>1. at' \in [Jobs -> Stages] /\ DOMAIN mem' = Jobs /\ \A k \in Jobs : Local(mem'[k])
    BY <1>3, Going, StageNames, BoundsAssumption DEF StoreContext, Built, TypeInv, Local, Fields
  <2>2. Fault \/ UNCHANGED hazards
    BY <1>3 DEF StoreContext, Built, Fault, hazards
  <2> QED
    BY <2>1, <2>2, <1>3, Failing, Others DEF StoreContext, Built, TypeInv, TypeOK, redis, hazards
<1>4. ASSUME NEW j \in Jobs, Recall(j) PROVE TypeInv'
  <2>1. at' \in [Jobs -> Stages] /\ DOMAIN mem' = Jobs /\ \A k \in Jobs : Local(mem'[k])
    BY <1>4, Going, StageNames, BoundsAssumption DEF Recall, Leave, TypeInv, Local, Fields
  <2>2. Fault \/ UNCHANGED hazards
    BY <1>4 DEF Recall, Leave, Fault, hazards
  <2> QED
    BY <2>1, <2>2, <1>4, Failing, Others DEF Recall, Leave, TypeInv, TypeOK, redis, hazards
<1>5. ASSUME NEW j \in Jobs, Lock(j) PROVE TypeInv'
  <2>1. Local(mem[j]) /\ Local([mem[j] EXCEPT !.tries = 1])
    <3>1. Local(mem[j]) /\ 1 \in 0..Attempts
      BY BoundsAssumption DEF TypeInv
    <3> QED
      BY <3>1, Assigning
  <2>2. \/ Go(j, "asking", [mem[j] EXCEPT !.tries = 1])
        \/ Go(j, "processing", mem[j])
    BY <1>5 DEF Lock, Enter
  <2>3. at' \in [Jobs -> Stages] /\ DOMAIN mem' = Jobs /\ \A k \in Jobs : Local(mem'[k])
    BY <2>1, <2>2, Going, StageNames
  <2>4. Fault \/ UNCHANGED hazards
    BY <1>5 DEF Lock, Fault, hazards
  <2>5. lock' \in [Tasks -> BOOLEAN]
    BY <1>5 DEF Lock, TypeInv, TypeOK
  <2> QED
    BY <2>3, <2>4, <2>5, <1>5, Failing, Others DEF Lock, TypeInv, TypeOK, hazards
<1>6. ASSUME NEW j \in Jobs, Malformed(j) PROVE TypeInv'
  <2>1. at' \in [Jobs -> Stages] /\ DOMAIN mem' = Jobs /\ \A k \in Jobs : Local(mem'[k])
    BY <1>6, Going, StageNames, Asked DEF Malformed, TypeInv
  <2>2. Fault \/ UNCHANGED hazards
    BY <1>6 DEF Malformed, Fault, hazards
  <2> QED
    BY <2>1, <2>2, <1>6, Failing, Others DEF Malformed, TypeInv, TypeOK, redis, hazards
<1>7. ASSUME NEW j \in Jobs, Answered(j) PROVE TypeInv'
  <2>1. at' \in [Jobs -> Stages] /\ DOMAIN mem' = Jobs /\ \A k \in Jobs : Local(mem'[k])
    BY <1>7, Going, StageNames, Answering
  <2>2. Fault \/ UNCHANGED hazards
    BY <1>7 DEF Answered, Fault, hazards
  <2> QED
    BY <2>1, <2>2, <1>7, Failing, Others DEF Answered, TypeInv, TypeOK, redis, hazards
<1>8. ASSUME NEW j \in Jobs, CacheResult(j) PROVE TypeInv'
  <2>1. at' \in [Jobs -> Stages] /\ DOMAIN mem' = Jobs /\ \A k \in Jobs : Local(mem'[k])
    BY <1>8, Going, StageNames, BoundsAssumption DEF CacheResult, TypeInv, Local, Fields
  <2>2. Fault \/ UNCHANGED hazards
    BY <1>8 DEF CacheResult, Fault, hazards
  <2> QED
    BY <2>1, <2>2, <1>8, Failing, Others DEF CacheResult, TypeInv, TypeOK, redis, hazards
<1>9. ASSUME NEW j \in Jobs, Release(j) PROVE TypeInv'
  <2>1. at' \in [Jobs -> Stages] /\ DOMAIN mem' = Jobs /\ \A k \in Jobs : Local(mem'[k])
    BY <1>9, Going, StageNames, BoundsAssumption DEF Release, Leave, TypeInv, Local, Fields
  <2>2. Fault \/ UNCHANGED hazards
    BY <1>9 DEF Release, Leave, Fault, hazards
  <2> QED
    BY <2>1, <2>2, <1>9, Failing, Others DEF Release, Leave, TypeInv, TypeOK, redis, hazards
<1>10. ASSUME NEW j \in Jobs, Write(j) PROVE TypeInv'
  <2>1. at' \in [Jobs -> Stages] /\ DOMAIN mem' = Jobs /\ \A k \in Jobs : Local(mem'[k])
    BY <1>10, Going, StageNames, BoundsAssumption DEF Write, TypeInv, Local, Fields
  <2>2. Fault \/ UNCHANGED hazards
    BY <1>10 DEF Write, Fault, hazards
  <2> QED
    BY <2>1, <2>2, <1>10, Failing, Others DEF Write, TypeInv, TypeOK, redis, hazards
<1>11. ASSUME NEW j \in Jobs, WriteFails(j) PROVE TypeInv'
  <2>1. at' \in [Jobs -> Stages] /\ DOMAIN mem' = Jobs /\ \A k \in Jobs : Local(mem'[k])
    BY <1>11, Going, StageNames, BoundsAssumption DEF WriteFails, TypeInv, Local, Fields
  <2>2. Fault \/ UNCHANGED hazards
    BY <1>11 DEF WriteFails, Fault, hazards
  <2> QED
    BY <2>1, <2>2, <1>11, Failing, Others DEF WriteFails, TypeInv, TypeOK, redis, hazards
<1>12. CASE Restart
  <2>1. at' \in [Jobs -> Stages] /\ DOMAIN mem' = Jobs /\ \A k \in Jobs : Local(mem'[k])
    BY <1>12, BlankLocal DEF Restart, TypeInv, TypeOK, Stages, Open
  <2>2. Trouble' <= MaxTrouble /\ ({faults, restarts, lapses} \subseteq 0..MaxTrouble)'
    BY <1>12, BoundsAssumption DEF Restart, TypeInv, TypeOK, Trouble
  <2> QED
    BY <2>1, <2>2, <1>12, Others DEF Restart, TypeInv, TypeOK
<1>13. CASE Forget
  BY <1>13, Others DEF Forget, TypeInv, TypeOK, hazards, job, Stages, Trouble
<1>14. ASSUME NEW t \in Tasks, Lapse(t) PROVE TypeInv'
  <2>1. (Trouble <= MaxTrouble)' /\ ({faults, restarts, lapses} \subseteq 0..MaxTrouble)'
    BY <1>14, BoundsAssumption DEF Lapse, TypeInv, TypeOK, Trouble
  <2> QED
    BY <2>1, <1>14, Others DEF Lapse, TypeInv, TypeOK, job, Stages
<1>15. CASE UNCHANGED vars
  BY <1>15 DEF vars, redis, job, hazards, TypeInv, TypeOK, Trouble
<1>16. ASSUME NEW j \in Jobs, NoClient(j) PROVE TypeInv'
  <2>1. at' \in [Jobs -> Stages] /\ DOMAIN mem' = Jobs /\ \A k \in Jobs : Local(mem'[k])
    BY <1>16, Going, StageNames DEF NoClient, TypeInv
  <2>2. UNCHANGED hazards
    BY <1>16 DEF NoClient, hazards
  <2> QED
    BY <2>1, <2>2, <1>16, Failing, Others DEF NoClient, TypeInv, TypeOK, redis, hazards
<1> QED
  BY <1>1, <1>2, <1>3, <1>4, <1>5, <1>6, <1>7, <1>8, <1>9, <1>10, <1>11, <1>12, <1>13, <1>14, <1>15, <1>16
  DEF Next, Step, Build, Edit

(* Every counter and stage has its type in every run. *)
THEOREM PatchTypes == Spec => []TypeOK
<1>1. TypeInv => TypeOK
  BY DEF TypeInv
<1> QED
  BY <1>1, TypeInit, TypeStep, PTL DEF Spec

-----------------------------------------------------------------------------
(* The lock of a task belongs to the job that asks, as long as Redis       *)
(* answers and the lock does not expire.                                   *)
LockInv ==
    /\ OneAsker
    /\ Calm => \A j \in Jobs : at[j] \in Asking => lock[task[j]]
    /\ faults = 0 /\ restarts = 0 => \A t \in Tasks : lock[t] =>
        \E k \in Jobs : task[k] = t /\ at[k] \in Asking

(* Who builds a context, recalls a result or writes holds no lock and      *)
(* takes none.                                                             *)
LEMMA Quiet ==
    ASSUME TypeInv, NEW j \in Jobs,
           Start(j) \/ Read(j) \/ StoreContext(j) \/ Recall(j) \/ Write(j) \/ WriteFails(j)
    PROVE  /\ UNCHANGED <<ws, task, lock>> /\ (Fault \/ UNCHANGED hazards)
           /\ at[j] \notin Asking
           /\ \E stage \in Stages \ Asking : at' = [at EXCEPT ![j] = stage]
<1> USE StageNames
<1>1. CASE Start(j)
  BY <1>1, SMTT(30) DEF Start, Built, Go, redis, Fault, hazards
<1>2. CASE Read(j)
  BY <1>2 DEF Read, Go, redis, hazards
<1>3. CASE StoreContext(j)
  BY <1>3 DEF StoreContext, Built, Go, hazards
<1>4. CASE Recall(j)
  BY <1>4 DEF Recall, Leave, Go, redis, hazards
<1>5. CASE Write(j)
  BY <1>5 DEF Write, Go, redis, hazards
<1>6. CASE WriteFails(j)
  BY <1>6 DEF WriteFails, Go, redis, hazards
<1> QED
  BY <1>1, <1>2, <1>3, <1>4, <1>5, <1>6

(* A step that leaves the lock alone, by a job that asks before and after  *)
(* or neither before nor after.                                            *)
LEMMA LockKept ==
    ASSUME TypeInv, LockInv, NEW j \in Jobs, NEW stage \in Stages, UNCHANGED <<task, lock>>,
           Fault \/ UNCHANGED hazards, at' = [at EXCEPT ![j] = stage],
           at[j] \in Asking <=> stage \in Asking
    PROVE  LockInv'
<1>1. \A k \in Jobs : at'[k] \in Asking <=> at[k] \in Asking
  BY DEF TypeInv, TypeOK
<1>2. Calm' => Calm
  BY DEF Calm, Fault, hazards, TypeInv, TypeOK
<1>3. faults' = 0 /\ restarts' = 0 => faults = 0 /\ restarts = 0
  BY DEF Fault, hazards, TypeInv, TypeOK
<1> QED
  BY <1>1, <1>2, <1>3 DEF LockInv, OneAsker

LEMMA LockInit == Init => LockInv
BY CastsAssumption DEF Init, LockInv, OneAsker, Asking

LEMMA LockStep == TypeInv /\ LockInv /\ [Next]_vars => LockInv'
<1> SUFFICES ASSUME TypeInv, LockInv, [Next]_vars PROVE LockInv'
  OBVIOUS
<1>1. ASSUME NEW j \in Jobs, Start(j) PROVE LockInv'
  BY <1>1, Quiet, LockKept
<1>2. ASSUME NEW j \in Jobs, Read(j) PROVE LockInv'
  BY <1>2, Quiet, LockKept
<1>3. ASSUME NEW j \in Jobs, StoreContext(j) PROVE LockInv'
  BY <1>3, Quiet, LockKept
<1>4. ASSUME NEW j \in Jobs, Recall(j) PROVE LockInv'
  BY <1>4, Quiet, LockKept
<1>5. ASSUME NEW j \in Jobs, Lock(j) PROVE LockInv'
  <2>1. \E stage \in {"asking", "processing"} : at' = [at EXCEPT ![j] = stage]
    BY <1>5 DEF Lock, Enter, Go
  <2> QED
    BY <1>5, <2>1, StageNames DEF Lock, Enter, Go, LockInv, OneAsker, Calm, Fault, hazards, TypeInv, TypeOK
<1>6. ASSUME NEW j \in Jobs, Malformed(j) PROVE LockInv'
  <2>1. UNCHANGED <<task, lock>> /\ UNCHANGED hazards /\ at[j] = "asking"
    BY <1>6 DEF Malformed, redis
  <2>2. \E stage \in {"asking", "releasing"} : at' = [at EXCEPT ![j] = stage]
    BY <1>6 DEF Malformed, Retry, Go
  <2> QED
    BY <2>1, <2>2, LockKept, StageNames
<1>7. ASSUME NEW j \in Jobs, Answered(j) PROVE LockInv'
  <2>1. UNCHANGED <<task, lock>> /\ UNCHANGED hazards /\ at[j] = "asking"
    BY <1>7 DEF Answered, redis
  <2>2. \E stage \in Asking : at' = [at EXCEPT ![j] = stage]
    BY <1>7, Answering DEF Go
  <2> QED
    BY <2>1, <2>2, LockKept, StageNames
<1>8. ASSUME NEW j \in Jobs, CacheResult(j) PROVE LockInv'
  <2>1. UNCHANGED <<task, lock>> /\ (Fault \/ UNCHANGED hazards) /\ at[j] = "caching"
    BY <1>8 DEF CacheResult
  <2>2. at' = [at EXCEPT ![j] = "releasing"]
    BY <1>8 DEF CacheResult, Go
  <2> QED
    BY <2>1, <2>2, LockKept, StageNames
<1>9. ASSUME NEW j \in Jobs, Release(j) PROVE LockInv'
  <2>1. \E stage \in {"failed", "writing"} : at' = [at EXCEPT ![j] = stage]
    BY <1>9 DEF Release, Leave, Go
  <2> QED
    BY <1>9, <2>1, StageNames DEF Release, LockInv, OneAsker, Calm, Fault, hazards, TypeInv, TypeOK
<1>10. ASSUME NEW j \in Jobs, Write(j) PROVE LockInv'
  BY <1>10, Quiet, LockKept
<1>11. ASSUME NEW j \in Jobs, WriteFails(j) PROVE LockInv'
  BY <1>11, Quiet, LockKept
<1>12. CASE Restart
  <2>1. \A j \in Jobs : at'[j] \notin Asking
    BY <1>12, StageNames DEF Restart, Open, TypeInv, TypeOK
  <2>2. restarts' # 0
    BY <1>12 DEF Restart, TypeInv, TypeOK
  <2> QED
    BY <2>1, <2>2 DEF LockInv, OneAsker
<1>13. CASE Forget
  BY <1>13 DEF Forget, LockInv, OneAsker, Calm, job, hazards
<1>14. ASSUME NEW t \in Tasks, Lapse(t) PROVE LockInv'
  BY <1>14 DEF Lapse, LockInv, OneAsker, Calm, TypeInv, TypeOK, job
<1>15. CASE UNCHANGED vars
  BY <1>15 DEF vars, redis, job, hazards, LockInv, OneAsker, Calm
<1>16. ASSUME NEW j \in Jobs, NoClient(j) PROVE LockInv'
  <2>1. UNCHANGED <<task, lock>> /\ UNCHANGED hazards /\ at[j] = "asking"
    BY <1>16 DEF NoClient, redis
  <2>2. at' = [at EXCEPT ![j] = "releasing"]
    BY <1>16 DEF NoClient, Go
  <2> QED
    BY <2>1, <2>2, LockKept, StageNames
<1> QED
  BY <1>1, <1>2, <1>3, <1>4, <1>5, <1>6, <1>7, <1>8, <1>9, <1>10, <1>11, <1>12, <1>13, <1>14, <1>15, <1>16
  DEF Next, Step, Build, Edit

LEMMA LockAlways == Spec => [](TypeInv /\ LockInv)
BY TypeInit, TypeStep, LockInit, LockStep, PTL DEF Spec

(* Two requests of the same task are out at the same time only after Redis *)
(* failed or a lock expired.                                               *)
THEOREM OneAskerHolds == Spec => []OneAsker
<1>1. LockInv => OneAsker
  BY DEF LockInv
<1> QED
  BY <1>1, LockAlways, PTL

(* Who is told that his task is processed already is told the truth.       *)
Refusal ==
    \A j \in Jobs : faults = 0 /\ restarts = 0 /\ at[j] = "locking" /\ at'[j] = "processing" =>
        \E k \in Jobs \ {j} : task[k] = task[j] /\ at[k] \in Asking

LEMMA RefusalStep == TypeInv /\ LockInv /\ [Next]_vars => Refusal
<1> SUFFICES ASSUME TypeInv, LockInv, [Next]_vars, NEW j \in Jobs,
                    faults = 0, restarts = 0, at[j] = "locking", at'[j] = "processing"
             PROVE  \E k \in Jobs \ {j} : task[k] = task[j] /\ at[k] \in Asking
  BY DEF Refusal
<1>1. lock[task[j]]
  <2>1. ASSUME NEW k \in Jobs, Step(k) \/ WriteFails(k) PROVE lock[task[j]]
    <3>1. CASE k = j
      BY <2>1, <3>1 DEF Step, Build, Edit, Start, Read, StoreContext, Recall, Lock, NoClient, Malformed, Answered,
         CacheResult, Release, Write, WriteFails, Enter, Go, TypeInv, TypeOK
    <3>2. CASE k # j
      <4>1. at'[j] = at[j]
        <5>1. \E stage : at' = [at EXCEPT ![k] = stage]
          BY <2>1, Quiet, Answering DEF Step, Build, Edit, Lock, NoClient, Malformed, CacheResult, Release,
             Enter, Retry, Leave, Go
        <5> QED
          BY <5>1, <3>2 DEF TypeInv, TypeOK
      <4> QED
        BY <4>1
    <3> QED
      BY <3>1, <3>2
  <2>2. ~Restart /\ ~Forget /\ (\A t \in Tasks : ~Lapse(t)) /\ ~UNCHANGED vars
    BY DEF Restart, Forget, Lapse, vars, job, TypeInv, TypeOK
  <2> QED
    BY <2>1, <2>2 DEF Next
<1>2. task[j] \in Tasks
  BY DEF TypeInv, TypeOK
<1> QED
  BY <1>1, <1>2, StageNames DEF LockInv

THEOREM RefusalHolds == Spec => RefusalIsTrue
<1>1. Spec => [][Refusal]_vars
  BY RefusalStep, LockAlways, PTL DEF Spec
<1> QED
  BY <1>1, PTL DEF RefusalIsTrue, Refusal

-----------------------------------------------------------------------------
(* What a job has read is what the files are, as long as it is the only    *)
(* one: it has not read the files of a context that was kept, and nobody   *)
(* else writes.                                                            *)
Current(j, stage, m) ==
    /\ DOMAIN m.seen \subseteq DOMAIN files[ws[j]]
    /\ stage = "reading" => m.todo \subseteq DOMAIN files[ws[j]]
    /\ stage = "writing" => m.todo \subseteq DOMAIN m.seen
    /\ \A p \in DOMAIN m.seen : stage # "writing" \/ p \in m.todo => m.seen[p] = files[ws[j]][p]

AloneInv == alone => \A j, k \in Open : j = k
BlankInv == \A j \in Jobs : at[j] = "new" => mem[j] = Blank
ContextInv == Distinct /\ restarts = 0 => \A j \in Jobs : at[j] = "new" => context[Key(j)] = {}
CurrentInv == alone /\ Distinct /\ restarts = 0 => \A j \in Open : Current(j, at[j], mem[j])

EditInv == AloneInv /\ BlankInv /\ ContextInv /\ CurrentInv /\ NoLostEdit

LEMMA EditInit == Init => EditInv
BY TypeInit DEF TypeInv, TypeOK, Init, EditInv, AloneInv, BlankInv, ContextInv, CurrentInv, NoLostEdit, Open, Busy, Asking, Key, Keys

(* A step of a job that has started and does not write now. *)
LEMMA GoingOn ==
    ASSUME TypeInv, EditInv, NEW j \in Jobs, NEW stage \in Stages \ {"new"}, NEW m, Local(m), Go(j, stage, m),
           at[j] \in Busy, alone' => alone,
           stage \in Busy /\ Current(j, at[j], mem[j]) => Current(j, stage, m),
           UNCHANGED <<ws, task, files, restarts, lost>>,
           \A k \in Keys : context'[k] \in {context[k], {}} \/ k = Key(j)
    PROVE  EditInv'
<1>1. /\ at'[j] = stage /\ \A k \in Jobs \ {j} : at'[k] = at[k] /\ mem'[k] = mem[k]
      /\ stage \notin Ended => mem'[j] = m
  BY DEF Go, TypeInv, TypeOK
<1>2. Open' \subseteq Open \cup {j} /\ (j \in Open' => stage \in Busy)
  BY <1>1 DEF Open
<1>3. AloneInv'
  BY <1>2 DEF EditInv, AloneInv, Open
<1>4. BlankInv'
  BY <1>1 DEF EditInv, BlankInv
<1>5. Distinct' = Distinct /\ \A k \in Jobs : Key(k)' = Key(k) /\ Key(k) \in Keys
  BY DEF Distinct, Key, Keys, TypeInv, TypeOK
<1>6. ContextInv'
  <2> SUFFICES ASSUME Distinct, restarts = 0, NEW k \in Jobs, at'[k] = "new" PROVE context'[Key(k)] = {}
    BY <1>5 DEF ContextInv
  <2>1. k # j /\ at[k] = "new"
    BY <1>1
  <2>2. Key(k) # Key(j) /\ context[Key(k)] = {}
    BY <2>1 DEF Distinct, Key, EditInv, ContextInv
  <2> QED
    BY <2>2, <1>5
<1>7. CurrentInv'
  <2> SUFFICES ASSUME alone', Distinct, restarts = 0, NEW k \in Open' PROVE Current(k, at[k], mem[k])'
    BY <1>5 DEF CurrentInv
  <2>1. CASE k = j
    <3>1. stage \in Busy /\ stage \notin Ended
      BY <2>1, <1>2, StageNames
    <3>2. at[j] \in Busy => Current(j, at[j], mem[j])
      BY DEF EditInv, CurrentInv, Open
    <3>3. Current(j, stage, m)
      BY <3>1, <3>2
    <3> QED
      BY <2>1, <3>1, <3>3, <1>1 DEF Current
  <2>2. CASE k # j
    <3>1. k \in Open /\ k \in Jobs
      BY <2>2, <1>2 DEF Open
    <3>2. Current(k, at[k], mem[k])
      BY <3>1 DEF EditInv, CurrentInv
    <3> QED
      BY <3>1, <3>2, <2>2, <1>1 DEF Current
  <2> QED
    BY <2>1, <2>2
<1>8. NoLostEdit'
  BY <1>5 DEF EditInv, NoLostEdit
<1> QED
  BY <1>3, <1>4, <1>6, <1>7, <1>8 DEF EditInv

LEMMA Onward ==
    ASSUME TypeInv, EditInv, NEW j \in Jobs, NEW stage \in Stages \ {"new"}, NEW m, Local(m), Go(j, stage, m),
           at[j] \in Busy, UNCHANGED <<ws, task, files, context, restarts, lost, alone>>,
           stage \in Busy /\ Current(j, at[j], mem[j]) => Current(j, stage, m)
    PROVE  EditInv'
<1>1. \A k \in Keys : context'[k] \in {context[k], {}} \/ k = Key(j)
  OBVIOUS
<1>2. (alone' => alone) /\ UNCHANGED <<ws, task, files, restarts, lost>>
  OBVIOUS
<1> QED
  BY <1>1, <1>2, GoingOn

(* The first step of a job. *)
LEMMA StartingAnew ==
    ASSUME TypeInv, EditInv, NEW j \in Jobs, NEW stage \in Stages \ {"new"}, NEW m, Local(m), Go(j, stage, m),
           at[j] = "new", alone' = (alone /\ Open = {}),
           UNCHANGED <<ws, task, files, context, restarts, lost>>,
           restarts = 0 /\ Distinct => Current(j, stage, m)
    PROVE  EditInv'
<1>1. ContextInv /\ CurrentInv /\ AloneInv /\ BlankInv /\ NoLostEdit
  BY DEF EditInv
<1>2. /\ at'[j] = stage /\ \A k \in Jobs \ {j} : at'[k] = at[k] /\ mem'[k] = mem[k]
      /\ stage \notin Ended => mem'[j] = m
  BY DEF Go, TypeInv, TypeOK
<1>3. alone' => alone /\ Open' \subseteq {j} /\ (j \in Open' => stage \in Busy)
  BY <1>2 DEF Open
<1>4. Distinct' = Distinct /\ \A k \in Jobs : Key(k)' = Key(k)
  BY DEF Distinct, Key
<1>5. AloneInv'
  BY <1>3 DEF AloneInv
<1>6. BlankInv'
  BY <1>1, <1>2 DEF BlankInv
<1>7. ContextInv'
  BY <1>1, <1>2, <1>4 DEF ContextInv
<1>8. CurrentInv'
  <2> SUFFICES ASSUME alone', Distinct, restarts = 0, NEW k \in Open' PROVE Current(k, at[k], mem[k])'
    BY <1>4 DEF CurrentInv
  <2>1. k = j /\ stage \notin Ended
    BY <1>3, StageNames
  <2> QED
    BY <2>1, <1>2 DEF Current
<1>9. NoLostEdit'
  BY <1>1, <1>3, <1>4 DEF NoLostEdit
<1> QED
  BY <1>5, <1>6, <1>7, <1>8, <1>9 DEF EditInv

(* A job that goes on in the same way with what it has read, *)
LEMMA SeenKept ==
    ASSUME TypeInv, EditInv, NEW j \in Jobs, at[j] \in Asking,
           UNCHANGED <<ws, task, files, context, restarts, lost, alone>>,
           \E stage, n : stage \in Asking /\ Local(n) /\ n.seen = mem[j].seen /\ Go(j, stage, n)
    PROVE  EditInv'
<1>1. PICK stage, n : stage \in Asking /\ Local(n) /\ n.seen = mem[j].seen /\ Go(j, stage, n)
  OBVIOUS
<1>2. Current(j, at[j], mem[j]) => Current(j, stage, n)
  BY <1>1, StageNames DEF Current
<1>3. at[j] \in Busy /\ stage \in Stages \ {"new"}
  BY <1>1, StageNames
<1> QED
  BY <1>1, <1>2, <1>3, Onward

(* and one that turns to writing what differs. *)
LEMMA Leaving ==
    ASSUME TypeInv, EditInv, NEW j \in Jobs, at[j] \in {"recalling", "releasing"},
           UNCHANGED <<ws, task, files, context, restarts, lost, alone>>,
           NEW m, Local(m), m.seen = mem[j].seen, Leave(j, m)
    PROVE  EditInv'
<1> DEFINE n == [m EXCEPT !.todo = Differing(m)]
<1>1. PICK stage \in {"failed", "writing"} : Go(j, stage, n)
  BY DEF Leave
<1>2. Local(n) /\ n.seen = mem[j].seen /\ n.todo = Differing(m)
  BY DEF Local, Fields
<1>3. Current(j, at[j], mem[j]) => Current(j, stage, n)
  BY <1>2 DEF Current, Differing
<1>4. at[j] \in Busy /\ stage \in Stages \ {"new"}
  BY <1>1, StageNames
<1> HIDE DEF n
<1> QED
  BY <1>1, <1>2, <1>3, <1>4, Onward

(* A write replaces what the job has read, and what it has still to write  *)
(* is not touched.                                                         *)
LEMMA WriteStep == ASSUME TypeInv, EditInv, NEW j \in Jobs, Write(j) PROVE EditInv'
<1> DEFINE Left(p) == [mem[j] EXCEPT !.todo = @ \ {p}]
<1>1. PICK p \in mem[j].todo :
        /\ files' = [files EXCEPT ![ws[j]][p] = mem[j].plan[p]]
        /\ lost' = (lost \/ files[ws[j]][p] # mem[j].seen[p])
        /\ Go(j, IF Left(p).todo = {} THEN "patched" ELSE "writing", Left(p))
  BY DEF Write
<1>2. at[j] = "writing" /\ UNCHANGED <<ws, task, context, restarts, alone>>
  BY DEF Write, redis, hazards
<1>3. Left(p).seen = mem[j].seen /\ Left(p).todo = mem[j].todo \ {p}
  BY DEF TypeInv, Local, Fields
<1>4. PICK stage \in {"patched", "writing"} : Go(j, stage, Left(p))
  BY <1>1
<1>5. at' = [at EXCEPT ![j] = stage] /\ \A k \in Jobs \ {j} : mem'[k] = mem[k]
  BY <1>4 DEF Go, TypeInv, TypeOK
<1>6. stage = "writing" => mem'[j] = Left(p)
  BY <1>4, StageNames DEF Go, TypeInv, TypeOK
<1>7. Open' \subseteq Open /\ j \in Open
  BY <1>2, <1>5, StageNames DEF Open, TypeInv, TypeOK
<1>8. Distinct' = Distinct /\ \A k \in Jobs : Key(k)' = Key(k)
  BY <1>2 DEF Distinct, Key
<1>9. AloneInv' /\ BlankInv' /\ ContextInv'
  BY <1>2, <1>5, <1>7, <1>8 DEF EditInv, AloneInv, BlankInv, ContextInv, TypeInv, TypeOK
<1>10. ASSUME alone, Distinct, restarts = 0
       PROVE  /\ Current(j, "writing", mem[j])
              /\ files[ws[j]][p] = mem[j].seen[p]
              /\ \A k \in Open' : k = j
  BY <1>2, <1>7, <1>10 DEF EditInv, AloneInv, CurrentInv, Current
<1>11. NoLostEdit'
  BY <1>1, <1>2, <1>8, <1>10 DEF EditInv, NoLostEdit
<1>12. CurrentInv'
  <2> SUFFICES ASSUME alone, Distinct, restarts = 0, NEW k \in Open'
               PROVE  Current(k, at[k], mem[k])'
    BY <1>2, <1>8 DEF CurrentInv
  <2>1. k = j /\ at'[j] = "writing" /\ mem'[j] = Left(p)
    BY <1>4, <1>5, <1>6, <1>10, StageNames DEF Open, TypeInv, TypeOK
  <2>2. /\ DOMAIN files'[ws[j]] = DOMAIN files[ws[j]]
        /\ \A q \in DOMAIN files[ws[j]] \ {p} : files'[ws[j]][q] = files[ws[j]][q]
    BY <1>1 DEF TypeInv, TypeOK
  <2>3. DOMAIN mem[j].seen \subseteq DOMAIN files[ws[j]] /\ mem[j].todo \subseteq DOMAIN mem[j].seen
        /\ \A q \in mem[j].todo : mem[j].seen[q] = files[ws[j]][q]
    BY <1>10 DEF Current
  <2>4. \A q \in mem[j].todo \ {p} : mem[j].seen[q] = files'[ws[j]][q]
    BY <2>2, <2>3
  <2> QED
    BY <1>2, <1>3, <2>1, <2>2, <2>3, <2>4 DEF Current
<1> QED
  BY <1>9, <1>11, <1>12 DEF EditInv

LEMMA EditStep == TypeInv /\ EditInv /\ [Next]_vars => EditInv'
<1> SUFFICES ASSUME TypeInv, EditInv, [Next]_vars PROVE EditInv'
  OBVIOUS
<1>1. ASSUME NEW j \in Jobs, Start(j) PROVE EditInv'
  <2>1. Key(j) \in Keys /\ mem[j] = Blank /\ (Distinct /\ restarts = 0 => context[Key(j)] = {})
    BY <1>1 DEF Start, EditInv, BlankInv, ContextInv, Key, Keys, TypeInv, TypeOK
  <2>2. /\ at[j] = "new" /\ alone' = (alone /\ Open = {})
        /\ UNCHANGED <<ws, task, files, context, restarts, lost>>
    BY <1>1 DEF Start, redis, hazards, Fault
  <2>3. ASSUME NEW known \in context[Key(j)], Built(j, known) PROVE EditInv'
    <3>1. Local([mem[j] EXCEPT !.seen = known])
      BY DEF TypeInv, Local, Fields
    <3>2. ~(restarts = 0 /\ Distinct)
      BY <2>1, <2>3
    <3>3. PICK stage \in {"failed", "recalling"} : Go(j, stage, [mem[j] EXCEPT !.seen = known])
      BY <2>3 DEF Built
    <3>4. stage \in Stages \ {"new"} /\ at[j] \notin Busy
      BY <2>2, StageNames
    <3>5. CASE restarts = 0 /\ Distinct
      BY <3>2, <3>5
    <3>6. CASE ~(restarts = 0 /\ Distinct)
      BY <2>2, <3>1, <3>3, <3>4, <3>6, StartingAnew
    <3> QED
      BY <3>5, <3>6
  <2>4. CASE Go(j, "reading", [mem[j] EXCEPT !.todo = DOMAIN files[ws[j]]])
    <3>1. Local([mem[j] EXCEPT !.todo = DOMAIN files[ws[j]]])
      BY DEF TypeInv, Local, Fields
    <3>2. Current(j, "reading", [mem[j] EXCEPT !.todo = DOMAIN files[ws[j]]])
      BY <2>1 DEF Current, Blank, NoFiles
    <3>3. "reading" \in Stages \ {"new"}
      BY StageNames
    <3> QED
      BY <2>4, <2>2, <3>1, <3>2, <3>3, StartingAnew
  <2> QED
    BY <1>1, <2>3, <2>4 DEF Start
<1>2. ASSUME NEW j \in Jobs, Read(j) PROVE EditInv'
  <2> DEFINE Left(p) == [mem[j] EXCEPT !.todo = @ \ {p}]
             Known(p) == [q \in DOMAIN mem[j].seen \cup {p} |->
                            IF q = p THEN files[ws[j]][p] ELSE mem[j].seen[q]]
  <2>1. PICK p \in mem[j].todo, stage \in {"storing", "reading", "failed"} :
            \/ Go(j, stage, [Left(p) EXCEPT !.seen = Known(p)])
            \/ Go(j, stage, Left(p))
    BY <1>2 DEF Read
  <2>2. Local(Left(p)) /\ Local([Left(p) EXCEPT !.seen = Known(p)])
    BY DEF TypeInv, Local, Fields
  <2>3. Left(p).seen = mem[j].seen /\ Left(p).todo = mem[j].todo \ {p}
    BY DEF TypeInv, Local, Fields
  <2>4. [Left(p) EXCEPT !.seen = Known(p)].seen = Known(p) /\ [Left(p) EXCEPT !.seen = Known(p)].todo = mem[j].todo \ {p}
    BY DEF TypeInv, Local, Fields
  <2>5. at[j] = "reading" /\ UNCHANGED <<ws, task, files, context, restarts, lost, alone>>
    BY <1>2 DEF Read, redis, hazards, Fault
  <2>6. Current(j, "reading", mem[j]) => Current(j, stage, Left(p))
    BY <2>3 DEF Current
  <2>7. Current(j, "reading", mem[j]) => Current(j, stage, [Left(p) EXCEPT !.seen = Known(p)])
    BY <2>4 DEF Current
  <2>8. at[j] \in Busy /\ stage \in Stages \ {"new"}
    BY <2>5, StageNames
  <2> HIDE DEF Left, Known
  <2> QED
    BY <2>1, <2>2, <2>5, <2>6, <2>7, <2>8, Onward
<1>3. ASSUME NEW j \in Jobs, StoreContext(j) PROVE EditInv'
  <2> DEFINE m == [mem[j] EXCEPT !.seen = mem[j].seen]
  <2>1. PICK stage \in {"failed", "recalling"} : Go(j, stage, m)
    BY <1>3 DEF StoreContext, Built
  <2>2. Local(m) /\ m.seen = mem[j].seen
    BY DEF TypeInv, Local, Fields
  <2>3. at[j] = "storing" /\ UNCHANGED <<ws, task, files, restarts, lost, alone>>
    BY <1>3 DEF StoreContext, hazards, Fault
  <2>4. \A k \in Keys : context'[k] = context[k] \/ k = Key(j)
    BY <1>3 DEF StoreContext, TypeInv, TypeOK
  <2>5. Current(j, "storing", mem[j]) => Current(j, stage, m)
    BY <2>2 DEF Current
  <2>6. at[j] \in Busy /\ at[j] # "new" /\ stage \in Stages \ {"new"}
    BY <2>3, StageNames
  <2>7. (alone' => alone) /\ \A k \in Keys : context'[k] \in {context[k], {}} \/ k = Key(j)
    BY <2>3, <2>4
  <2> HIDE DEF m
  <2> QED
    BY <2>1, <2>2, <2>3, <2>5, <2>6, <2>7, GoingOn
<1>4. ASSUME NEW j \in Jobs, Recall(j) PROVE EditInv'
  <2>1. at[j] = "recalling" /\ UNCHANGED <<ws, task, files, context, restarts, lost, alone>>
    BY <1>4 DEF Recall, redis, hazards, Fault
  <2>2. ASSUME NEW known \in result[task[j]], Leave(j, [mem[j] EXCEPT !.plan = known]) PROVE EditInv'
    <3>1. Local([mem[j] EXCEPT !.plan = known]) /\ [mem[j] EXCEPT !.plan = known].seen = mem[j].seen
      BY DEF TypeInv, Local, Fields
    <3> QED
      BY <2>1, <2>2, <3>1, Leaving
  <2>3. CASE Go(j, "locking", mem[j])
    <3>1. Current(j, "recalling", mem[j]) => Current(j, "locking", mem[j])
      BY DEF Current
    <3>2. at[j] \in Busy /\ "locking" \in Stages \ {"new"} /\ Local(mem[j])
      BY <2>1, StageNames DEF TypeInv
    <3> QED
      BY <2>1, <2>3, <3>1, <3>2, Onward
  <2> QED
    BY <1>4, <2>2, <2>3 DEF Recall
<1>5. ASSUME NEW j \in Jobs, Lock(j) PROVE EditInv'
  <2>1. at[j] = "locking" /\ UNCHANGED <<ws, task, files, context, restarts, lost, alone>>
    BY <1>5 DEF Lock, hazards, Fault
  <2>2. Local(mem[j]) /\ Local([mem[j] EXCEPT !.tries = 1]) /\ [mem[j] EXCEPT !.tries = 1].seen = mem[j].seen
    BY BoundsAssumption DEF TypeInv, Local, Fields
  <2>3. \/ Go(j, "asking", [mem[j] EXCEPT !.tries = 1])
        \/ Go(j, "processing", mem[j])
    BY <1>5 DEF Lock, Enter
  <2>4. Current(j, "locking", mem[j]) => Current(j, "asking", [mem[j] EXCEPT !.tries = 1]) /\ Current(j, "processing", mem[j])
    BY <2>2 DEF Current
  <2>5. at[j] \in Busy /\ {"asking", "processing"} \subseteq Stages \ {"new"}
    BY <2>1, StageNames
  <2>6. ASSUME NEW stage \in {"asking", "processing"}, NEW m, Local(m), Go(j, stage, m), Current(j, "locking", mem[j]) => Current(j, stage, m)
        PROVE  EditInv'
    BY <2>1, <2>5, <2>6, Onward
  <2> QED
    BY <2>2, <2>3, <2>4, <2>6
<1>6. ASSUME NEW j \in Jobs, Malformed(j) PROVE EditInv'
  <2>1. at[j] = "asking" /\ UNCHANGED <<ws, task, files, context, restarts, lost, alone>>
    BY <1>6 DEF Malformed, redis, hazards
  <2>2. \E stage, n : stage \in {"asking", "releasing"} /\ Local(n) /\ n.seen = mem[j].seen /\ Go(j, stage, n)
    BY <1>6, Asked DEF Malformed, TypeInv
  <2> QED
    BY <2>1, <2>2, SeenKept, StageNames
<1>7. ASSUME NEW j \in Jobs, Answered(j) PROVE EditInv'
  <2>1. at[j] = "asking" /\ UNCHANGED <<ws, task, files, context, restarts, lost, alone>>
    BY <1>7 DEF Answered, redis, hazards
  <2> QED
    BY <1>7, <2>1, Answering, SeenKept, StageNames
<1>8. ASSUME NEW j \in Jobs, CacheResult(j) PROVE EditInv'
  <2>1. at[j] = "caching" /\ UNCHANGED <<ws, task, files, context, restarts, lost, alone>>
    BY <1>8 DEF CacheResult, hazards, Fault
  <2>2. Go(j, "releasing", mem[j]) /\ Local(mem[j])
    BY <1>8 DEF CacheResult, TypeInv
  <2> QED
    BY <2>1, <2>2, SeenKept, StageNames
<1>9. ASSUME NEW j \in Jobs, Release(j) PROVE EditInv'
  <2>1. at[j] = "releasing" /\ UNCHANGED <<ws, task, files, context, restarts, lost, alone>>
    BY <1>9 DEF Release, hazards, Fault
  <2>2. Leave(j, mem[j]) /\ Local(mem[j])
    BY <1>9 DEF Release, TypeInv
  <2> QED
    BY <2>1, <2>2, Leaving
<1>10. ASSUME NEW j \in Jobs, Write(j) PROVE EditInv'
  BY <1>10, WriteStep
<1>11. ASSUME NEW j \in Jobs, WriteFails(j) PROVE EditInv'
  <2>1. at[j] = "writing" /\ UNCHANGED <<ws, task, files, context, restarts, lost, alone>>
    BY <1>11 DEF WriteFails, redis, Fault
  <2>2. Go(j, "failed", mem[j]) /\ Local(mem[j])
    BY <1>11 DEF WriteFails, TypeInv
  <2>3. at[j] \in Busy /\ "failed" \in Stages \ {"new"} /\ "failed" \notin Busy
    BY <2>1, StageNames
  <2> QED
    BY <2>1, <2>2, <2>3, Onward
<1>12. CASE Restart
  <2>1. \A k \in Jobs : at'[k] \notin Busy /\ mem'[k] = Blank
    BY <1>12, StageNames DEF Restart, Open, TypeInv, TypeOK
  <2>2. restarts' # 0
    BY <1>12 DEF Restart, TypeInv, TypeOK
  <2> QED
    BY <2>1, <2>2 DEF EditInv, AloneInv, BlankInv, ContextInv, CurrentInv, NoLostEdit, Open
<1>13. CASE Forget
  <2>1. UNCHANGED <<ws, task, files, job, restarts, alone, lost>>
    BY <1>13 DEF Forget, hazards
  <2>2. \A k \in Keys : context[k] = {} => context'[k] = {}
    BY <1>13 DEF Forget, TypeInv, TypeOK
  <2>3. \A k \in Jobs : Key(k) \in Keys
    BY DEF Key, Keys, TypeInv, TypeOK
  <2> QED
    BY <2>1, <2>2, <2>3 DEF EditInv, AloneInv, BlankInv, ContextInv, CurrentInv, NoLostEdit, Open, Key, job,
       Distinct, Current
<1>14. ASSUME NEW t \in Tasks, Lapse(t) PROVE EditInv'
  BY <1>14 DEF Lapse, job, EditInv, AloneInv, BlankInv, ContextInv, CurrentInv, NoLostEdit, Open, Key, Distinct, Current
<1>15. CASE UNCHANGED vars
  BY <1>15 DEF vars, redis, job, hazards, EditInv, AloneInv, BlankInv, ContextInv, CurrentInv, NoLostEdit, Open, Key, Distinct, Current
<1>16. ASSUME NEW j \in Jobs, NoClient(j) PROVE EditInv'
  <2>1. at[j] = "asking" /\ UNCHANGED <<ws, task, files, context, restarts, lost, alone>>
    BY <1>16 DEF NoClient, redis, hazards
  <2>2. Go(j, "releasing", mem[j]) /\ Local(mem[j])
    BY <1>16 DEF NoClient, TypeInv
  <2> QED
    BY <2>1, <2>2, SeenKept, StageNames
<1> QED
  BY <1>1, <1>2, <1>3, <1>4, <1>5, <1>6, <1>7, <1>8, <1>9, <1>10, <1>11, <1>12, <1>13, <1>14, <1>15, <1>16
  DEF Next, Step, Build, Edit

(* Jobs that come one after the other with tasks of their own lose nothing *)
(* of each other.                                                          *)
THEOREM NoLostEditHolds == Spec => []NoLostEdit
<1>1. EditInv => NoLostEdit
  BY DEF EditInv
<1> QED
  BY <1>1, TypeInit, TypeStep, EditInit, EditStep, PTL DEF Spec
-----------------------------------------------------------------------------
(* What a list of patches does.  Induction over its length is by the least *)
(* number for which a statement fails, as a set of numbers.                *)

LEMMA LeastNumber ==
    ASSUME NEW T \in SUBSET Nat, T # {}
    PROVE  \E n \in T : \A m \in T : ~(m < n)
<1> DEFINE R == OpToRel(<, Nat)
<1>1. IsWellFoundedOn(R, Nat)
  BY NatLessThanWellFounded
<1>2. \A m, n \in Nat : m < n => <<m, n>> \in R
  BY DEF OpToRel
<1> HIDE DEF R
<1>3. PICK n \in T : \A m \in T : <<m, n>> \notin R
  BY <1>1, WFMin
<1> QED
  BY <1>2, <1>3

LEMMA Induction ==
    ASSUME NEW S, 0 \in S, \A n \in Nat : n \in S => n + 1 \in S
    PROVE  \A n \in Nat : n \in S
<1>1. SUFFICES ASSUME Nat \ S # {} PROVE FALSE
  OBVIOUS
<1>2. PICK n \in Nat \ S : \A m \in Nat \ S : ~(m < n)
  BY <1>1, LeastNumber
<1>3. n # 0 /\ n - 1 \in Nat /\ n - 1 < n /\ (n - 1) + 1 = n
  BY <1>2
<1>4. n - 1 \in S
  BY <1>2, <1>3
<1> QED
  BY <1>2, <1>3, <1>4

(* The results of the first n patches. *)
Unchanged(old) == [files |-> old, changed |-> {}, errors |-> {}]
Follows(g, m, old, patches) ==
    g = [n \in 0..m |-> IF n = 0 THEN Unchanged(old) ELSE ApplyOne(g[n - 1], patches[n])]

LEMMA ResultsExist ==
    ASSUME NEW old, NEW patches
    PROVE  \A m \in Nat : \E g : Follows(g, m, old, patches)
<1> DEFINE S == {m \in Nat : \E g : Follows(g, m, old, patches)}
<1>1. 0 \in S
  <2> DEFINE g == [n \in 0..0 |-> Unchanged(old)]
  <2>1. Follows(g, 0, old, patches)
    BY DEF Follows
  <2> QED
    BY <2>1
<1>2. ASSUME NEW m \in S PROVE m + 1 \in S
  <2>1. PICK g : Follows(g, m, old, patches)
    BY <1>2
  <2> DEFINE h == [n \in 0..(m + 1) |-> IF n = m + 1 THEN ApplyOne(g[m], patches[m + 1]) ELSE g[n]]
  <2>2. \A n \in 0..m : h[n] = g[n]
    OBVIOUS
  <2>3. \A n \in 0..m : g[n] = IF n = 0 THEN Unchanged(old) ELSE ApplyOne(g[n - 1], patches[n])
    BY <2>1 DEF Follows
  <2>4. ASSUME NEW n \in 0..(m + 1)
        PROVE  h[n] = IF n = 0 THEN Unchanged(old) ELSE ApplyOne(h[n - 1], patches[n])
    <3>1. CASE n = m + 1
      <4>1. n # 0 /\ n - 1 = m /\ m \in 0..m
        BY <3>1
      <4>2. h[n] = ApplyOne(g[m], patches[n])
        BY <3>1
      <4> QED
        BY <2>2, <4>1, <4>2
    <3>2. CASE n \in 0..m
      <4>1. n # 0 => n - 1 \in 0..m
        BY <3>2
      <4> QED
        BY <2>2, <2>3, <3>2, <4>1
    <3> QED
      BY <3>1, <3>2
  <2>5. h = [n \in 0..(m + 1) |-> h[n]]
    OBVIOUS
  <2> HIDE DEF h
  <2>6. Follows(h, m + 1, old, patches)
    BY <2>4, <2>5 DEF Follows
  <2> QED
    BY <2>6
<1> HIDE DEF S
<1>3. \A m \in Nat : m \in S
  BY <1>1, <1>2, Induction
<1> QED
  BY <1>3 DEF S

(* The result of all of them is the last. *)
LEMMA ResultIsLast ==
    ASSUME NEW old, NEW patches, Len(patches) \in Nat
    PROVE  \E g : /\ Follows(g, Len(patches), old, patches)
                  /\ ApplyPatches(old, patches) = g[Len(patches)]
<1> DEFINE out == CHOOSE g : g = [n \in 0..Len(patches) |->
                                    IF n = 0 THEN [files |-> old, changed |-> {}, errors |-> {}]
                                             ELSE ApplyOne(g[n - 1], patches[n])]
<1>1. ApplyPatches(old, patches) = out[Len(patches)]
  BY DEF ApplyPatches
<1>2. \E g : g = [n \in 0..Len(patches) |->
                    IF n = 0 THEN [files |-> old, changed |-> {}, errors |-> {}]
                             ELSE ApplyOne(g[n - 1], patches[n])]
  <2>1. PICK g : Follows(g, Len(patches), old, patches)
    BY ResultsExist
  <2> QED
    BY <2>1 DEF Follows, Unchanged
<1>3. out = [n \in 0..Len(patches) |->
               IF n = 0 THEN [files |-> old, changed |-> {}, errors |-> {}]
                        ELSE ApplyOne(out[n - 1], patches[n])]
  BY <1>2, Zenon
<1> HIDE DEF out
<1> QED
  BY <1>1, <1>3 DEF Follows, Unchanged

(* What one patch leaves as it is, and what therefore all of them leave.   *)
IsFunction(f) == f = [p \in DOMAIN f |-> f[p]]
IsResult(r, old) ==
    /\ r = [files |-> r.files, changed |-> r.changed, errors |-> r.errors]
    /\ IsFunction(r.files) /\ DOMAIN r.files = DOMAIN old
    /\ \A p \in DOMAIN old \ r.changed : r.files[p] = old[p]

LEMMA OnePatch ==
    ASSUME NEW old, NEW r, IsResult(r, old), NEW patch
    PROVE  IsResult(ApplyOne(r, patch), old)
<1> DEFINE q == ApplyOne(r, patch)
           verdict == Verdict(r.files, patch)
<1>1. CASE verdict = "ok"
  <2> DEFINE next == [r.files EXCEPT ![patch.file] = Patched(@, patch)]
  <2>1. q = [files |-> next, changed |-> r.changed \cup {patch.file}, errors |-> r.errors]
    BY <1>1 DEF ApplyOne
  <2>2. /\ IsFunction(next) /\ DOMAIN next = DOMAIN r.files
        /\ \A p \in DOMAIN r.files \ {patch.file} : next[p] = r.files[p]
    BY DEF IsFunction
  <2> HIDE DEF next, q
  <2>3. q.files = next /\ q.changed = r.changed \cup {patch.file} /\ q.errors = r.errors
    BY <2>1
  <2>4. IsResult(q, old)
    BY <2>1, <2>2, <2>3 DEF IsResult
  <2> QED
    BY <2>4 DEF q
<1>2. CASE verdict # "ok"
  <2>1. q = [r EXCEPT !.errors = @ \cup {verdict}]
    BY <1>2 DEF ApplyOne
  <2> HIDE DEF q
  <2>2. q = [files |-> r.files, changed |-> r.changed, errors |-> r.errors \cup {verdict}]
    BY <2>1 DEF IsResult
  <2>3. IsResult(q, old)
    BY <2>2 DEF IsResult
  <2> QED
    BY <2>3 DEF q
<1> QED
  BY <1>1, <1>2

(* Patches add and remove no files, whatever they are and however many of  *)
(* them are refused, and leave alone what is not among the changed.        *)
THEOREM PatchesKeepFiles ==
    ASSUME NEW old, IsFunction(old), NEW patches, Len(patches) \in Nat
    PROVE  IsResult(ApplyPatches(old, patches), old)
<1> DEFINE N == Len(patches)
<1>1. PICK g : Follows(g, N, old, patches) /\ ApplyPatches(old, patches) = g[N]
  BY ResultIsLast
<1> HIDE DEF N
<1> DEFINE S == {n \in Nat : n <= N => IsResult(g[n], old)}
<1>2. N \in Nat
  BY DEF N
<1>3. 0 \in S
  <2>1. g[0] = Unchanged(old)
    BY <1>1, <1>2 DEF Follows
  <2>2. IsResult(Unchanged(old), old)
    BY DEF IsResult, Unchanged, IsFunction
  <2> QED
    BY <2>1, <2>2
<1>4. ASSUME NEW n \in Nat, n \in S PROVE n + 1 \in S
  <2>1. SUFFICES ASSUME n + 1 <= N PROVE IsResult(g[n + 1], old)
    OBVIOUS
  <2>2. n + 1 \in 0..N /\ n + 1 # 0 /\ (n + 1) - 1 = n /\ n <= N
    BY <1>2, <2>1
  <2>3. g[n + 1] = ApplyOne(g[n], patches[n + 1])
    BY <1>1, <2>2 DEF Follows
  <2>4. IsResult(g[n], old)
    BY <1>4, <2>2
  <2> QED
    BY <2>3, <2>4, OnePatch
<1> HIDE DEF S
<1>5. N \in S
  BY <1>2, <1>3, <1>4, Induction
<1> QED
  BY <1>1, <1>2, <1>5 DEF S

-----------------------------------------------------------------------------
(* A result that was accepted is a change.  The files a job has read, and  *)
(* those that are kept for it, are functions; no job has a plan before its *)
(* patches are accepted or a result is recalled.                           *)
Changing(m) == m.plan # NoFiles => Differing(m) # {}
Sound(stage, m) ==
    /\ IsFunction(m.seen)
    /\ stage \in {"caching", "releasing"} => Changing(m)
    /\ stage \in {"new", "reading", "storing", "recalling", "locking", "asking"} => m.plan = NoFiles
ContextsAreFiles == \A k \in Keys : \A known \in context[k] : IsFunction(known)
ChangeInv == ContextsAreFiles /\ \A j \in Jobs : Sound(at[j], mem[j])

LEMMA BlankSound == \A stage : Sound(stage, Blank)
  BY DEF Sound, Changing, Blank, IsFunction, NoFiles

LEMMA ChangeGo ==
    ASSUME TypeInv, ChangeInv, NEW j \in Jobs, NEW stage, NEW m, Go(j, stage, m), Sound(stage, m),
           ContextsAreFiles'
    PROVE  ChangeInv'
<1>1. at'[j] = stage /\ mem'[j] \in {m, Blank}
  BY DEF Go, TypeInv, TypeOK
<1>2. \A k \in Jobs \ {j} : at'[k] = at[k] /\ mem'[k] = mem[k]
  BY DEF Go, TypeInv, TypeOK
<1>3. Sound(at'[j], mem'[j])
  BY <1>1, BlankSound
<1>4. \A k \in Jobs \ {j} : Sound(at'[k], mem'[k])
  BY <1>2 DEF ChangeInv
<1>5. \A k \in Jobs : Sound(at[k], mem[k])'
  BY <1>3, <1>4 DEF Sound, Changing, Differing
<1> QED
  BY <1>5 DEF ChangeInv

(* A plan that is not the files, and is about the same files, differs. *)
LEMMA Different ==
    ASSUME NEW m, IsFunction(m.seen), IsFunction(m.plan), DOMAIN m.plan = DOMAIN m.seen,
           m.plan # m.seen
    PROVE  Differing(m) # {}
<1>1. SUFFICES ASSUME \A p \in DOMAIN m.seen : m.plan[p] = m.seen[p] PROVE FALSE
  BY DEF Differing
<1>2. m.plan = [p \in DOMAIN m.seen |-> m.plan[p]]
  BY DEF IsFunction
<1>3. [p \in DOMAIN m.seen |-> m.plan[p]] = [p \in DOMAIN m.seen |-> m.seen[p]]
  BY <1>1
<1> QED
  BY <1>2, <1>3 DEF IsFunction

(* The fields that count here. *)
LEMMA SeenAndPlan ==
    ASSUME NEW m, Local(m), NEW x
    PROVE  /\ [m EXCEPT !.seen = x].seen = x /\ [m EXCEPT !.seen = x].plan = m.plan
           /\ [m EXCEPT !.todo = x].seen = m.seen /\ [m EXCEPT !.todo = x].plan = m.plan
           /\ [m EXCEPT !.plan = x].seen = m.seen /\ [m EXCEPT !.plan = x].plan = x
           /\ [m EXCEPT !.tries = x].seen = m.seen /\ [m EXCEPT !.tries = x].plan = m.plan
BY DEF Local, Fields

LEMMA RetrySound ==
    ASSUME NEW j \in Jobs, NEW m, Local(m), IsFunction(m.seen), m.plan = NoFiles, Retry(j, m)
    PROVE  \E stage, n : Go(j, stage, n) /\ Sound(stage, n)
<1>1. CASE m.tries < Attempts
  <2> DEFINE n == [m EXCEPT !.tries = m.tries + 1]
  <2>1. n.seen = m.seen /\ n.plan = m.plan
    BY SeenAndPlan
  <2>2. Go(j, "asking", n)
    BY <1>1 DEF Retry
  <2> HIDE DEF n
  <2>3. Sound("asking", n)
    BY <2>1 DEF Sound
  <2> QED
    BY <2>2, <2>3
<1>2. CASE ~(m.tries < Attempts)
  <2>1. Go(j, "releasing", m) /\ Sound("releasing", m)
    BY <1>2 DEF Retry, Sound, Changing
  <2> QED
    BY <2>1
<1> QED
  BY <1>1, <1>2

LEMMA AnswerSound ==
    ASSUME TypeInv, ChangeInv, NEW j \in Jobs, Answered(j)
    PROVE  \E stage, n : Go(j, stage, n) /\ Sound(stage, n)
<1>1. PICK patches \in Received :
        LET outcome == ApplyPatches(mem[j].seen, patches)
            m == [mem[j] EXCEPT !.tried = Targets(patches),
                                !.missed = "target_mismatch" \in outcome.errors]
        IN \/ Drifts(mem[j], patches) /\ Go(j, "releasing", mem[j])
           \/ /\ ~Drifts(mem[j], patches)
              /\ \E checks \in SUBSET {"feature", "syntax"}, parses \in BOOLEAN :
                    IF Accepts(m, outcome, patches, checks, parses)
                      THEN Go(j, "caching", [m EXCEPT !.plan = outcome.files])
                      ELSE Retry(j, m)
  BY DEF Answered
<1> DEFINE old == mem[j].seen
           outcome == ApplyPatches(old, patches)
           m == [mem[j] EXCEPT !.tried = Targets(patches),
                               !.missed = "target_mismatch" \in outcome.errors]
           n == [m EXCEPT !.plan = outcome.files]
<1>2. at[j] = "asking"
  BY DEF Answered
<1>3. Local(mem[j]) /\ IsFunction(old) /\ mem[j].plan = NoFiles
  BY <1>2 DEF TypeInv, ChangeInv, Sound
<1>4. ("target_mismatch" \in outcome.errors) \in BOOLEAN
  OBVIOUS
<1>5. Local(m) /\ m.seen = old /\ m.plan = NoFiles
  BY <1>3, <1>4, Assigning DEF Local, Fields
<1>6. Len(patches) \in Nat
  BY AnswersAssumption DEF Received
<1>7. IsResult(outcome, old)
  BY <1>3, <1>6, PatchesKeepFiles
<1>8. \/ Go(j, "releasing", mem[j])
      \/ outcome.files # m.seen /\ Go(j, "caching", n)
      \/ Retry(j, m)
  BY <1>1 DEF Accepts
<1>9. n.seen = m.seen /\ n.plan = outcome.files
  BY <1>5, SeenAndPlan
<1> HIDE DEF m, n, outcome, old
<1>10. CASE Go(j, "releasing", mem[j])
  <2>1. Sound("releasing", mem[j])
    BY <1>3 DEF Sound, Changing, old
  <2> QED
    BY <1>10, <2>1
<1>11. CASE outcome.files # m.seen /\ Go(j, "caching", n)
  <2>1. Differing(n) # {}
    BY <1>3, <1>5, <1>7, <1>9, <1>11, Different DEF IsResult
  <2>2. Sound("caching", n)
    BY <1>3, <1>5, <1>9, <2>1 DEF Sound, Changing
  <2> QED
    BY <1>11, <2>2
<1>12. CASE Retry(j, m)
  BY <1>3, <1>5, <1>12, RetrySound
<1> QED
  BY <1>8, <1>10, <1>11, <1>12

LEMMA LeaveSound ==
    ASSUME NEW j \in Jobs, NEW m, Local(m), IsFunction(m.seen), Leave(j, m)
    PROVE  \E stage, n : Go(j, stage, n) /\ Sound(stage, n)
<1> DEFINE n == [m EXCEPT !.todo = Differing(m)]
           stage == IF Differing(m) = {} THEN "failed" ELSE "writing"
<1>1. n.seen = m.seen
  BY SeenAndPlan
<1>2. Go(j, stage, n)
  BY DEF Leave
<1>3. stage \in {"failed", "writing"}
  OBVIOUS
<1> HIDE DEF n, stage
<1>4. Sound(stage, n)
  BY <1>1, <1>3 DEF Sound
<1> QED
  BY <1>2, <1>4

LEMMA ReadSound ==
    ASSUME TypeInv, ChangeInv, NEW j \in Jobs, Read(j)
    PROVE  \E stage, n : Go(j, stage, n) /\ Sound(stage, n)
<1> DEFINE Left(p) == [mem[j] EXCEPT !.todo = @ \ {p}]
           Known(p) == [q \in DOMAIN mem[j].seen \cup {p} |->
                          IF q = p THEN files[ws[j]][p] ELSE mem[j].seen[q]]
<1>1. PICK p \in mem[j].todo, stage \in {"storing", "reading", "failed"} :
          \/ Go(j, stage, [Left(p) EXCEPT !.seen = Known(p)])
          \/ Go(j, stage, Left(p))
  BY DEF Read
<1>2. Sound("reading", mem[j]) /\ Local(mem[j])
  BY DEF Read, TypeInv, ChangeInv
<1>3. IsFunction(mem[j].seen) /\ mem[j].plan = NoFiles
  BY <1>2 DEF Sound
<1>4. Local(Left(p)) /\ Left(p).seen = mem[j].seen /\ Left(p).plan = NoFiles
  BY <1>2, <1>3 DEF Local, Fields
<1>5. IsFunction(Known(p))
  BY DEF IsFunction
<1> HIDE DEF Left, Known
<1> DEFINE n == [Left(p) EXCEPT !.seen = Known(p)]
<1>6. n.seen = Known(p) /\ n.plan = NoFiles
  BY <1>4, SeenAndPlan
<1> HIDE DEF n
<1>7. Sound(stage, Left(p))
  BY <1>3, <1>4 DEF Sound
<1>8. Sound(stage, n)
  BY <1>5, <1>6 DEF Sound
<1>9. Go(j, stage, n) \/ Go(j, stage, Left(p))
  BY <1>1 DEF n
<1> QED
  BY <1>7, <1>8, <1>9

(* The files that a context has, or that have been read, are known. *)
LEMMA BuiltSound ==
    ASSUME TypeInv, NEW j \in Jobs, NEW known, IsFunction(known), mem[j].plan = NoFiles, Built(j, known)
    PROVE  \E stage, n : Go(j, stage, n) /\ Sound(stage, n)
<1> DEFINE n == [mem[j] EXCEPT !.seen = known]
           stage == IF known = NoFiles THEN "failed" ELSE "recalling"
<1>1. n.seen = known /\ n.plan = NoFiles
  BY SeenAndPlan DEF TypeInv
<1>2. Go(j, stage, n)
  BY DEF Built
<1>3. stage \in {"failed", "recalling"}
  OBVIOUS
<1> HIDE DEF n, stage
<1>4. Sound(stage, n)
  BY <1>1, <1>3 DEF Sound
<1> QED
  BY <1>2, <1>4

LEMMA BuildSound ==
    ASSUME TypeInv, ChangeInv, NEW j \in Jobs, Start(j) \/ StoreContext(j)
    PROVE  \E stage, n : Go(j, stage, n) /\ Sound(stage, n)
<1>1. Key(j) \in Keys /\ Local(mem[j])
  BY DEF Key, Keys, TypeInv, TypeOK
<1>2. at[j] \in {"new", "storing"} /\ IsFunction(mem[j].seen) /\ mem[j].plan = NoFiles
  BY DEF Start, StoreContext, ChangeInv, Sound
<1>3. \/ \E known \in context[Key(j)] : Built(j, known)
      \/ Go(j, "reading", [mem[j] EXCEPT !.todo = DOMAIN files[ws[j]]])
      \/ Built(j, mem[j].seen)
  BY DEF Start, StoreContext
<1>4. ASSUME NEW known \in context[Key(j)], Built(j, known)
      PROVE  \E stage, n : Go(j, stage, n) /\ Sound(stage, n)
  <2>1. IsFunction(known)
    BY <1>1 DEF ChangeInv, ContextsAreFiles
  <2> QED
    BY <1>2, <1>4, <2>1, BuiltSound
<1>5. CASE Go(j, "reading", [mem[j] EXCEPT !.todo = DOMAIN files[ws[j]]])
  <2> DEFINE n == [mem[j] EXCEPT !.todo = DOMAIN files[ws[j]]]
  <2>1. n.seen = mem[j].seen /\ n.plan = mem[j].plan
    BY <1>1, SeenAndPlan
  <2>2. Go(j, "reading", n)
    BY <1>5
  <2> HIDE DEF n
  <2>3. Sound("reading", n)
    BY <1>2, <2>1 DEF Sound
  <2> QED
    BY <2>2, <2>3
<1>6. CASE Built(j, mem[j].seen)
  BY <1>2, <1>6, BuiltSound
<1> QED
  BY <1>3, <1>4, <1>5, <1>6

LEMMA EditSound ==
    ASSUME TypeInv, ChangeInv, NEW j \in Jobs,
           Recall(j) \/ Lock(j) \/ NoClient(j) \/ Malformed(j) \/ CacheResult(j) \/ Release(j)
    PROVE  \E stage, n : Go(j, stage, n) /\ Sound(stage, n)
<1>1. Local(mem[j]) /\ Sound(at[j], mem[j])
  BY DEF TypeInv, ChangeInv
<1>2. IsFunction(mem[j].seen)
  BY <1>1 DEF Sound
<1>3. CASE Recall(j)
  <2>1. mem[j].plan = NoFiles
    BY <1>1, <1>3 DEF Recall, Sound
  <2>2. ASSUME NEW known, Leave(j, [mem[j] EXCEPT !.plan = known])
        PROVE  \E stage, n : Go(j, stage, n) /\ Sound(stage, n)
    <3> DEFINE m == [mem[j] EXCEPT !.plan = known]
    <3>1. Local(m) /\ m.seen = mem[j].seen
      BY <1>1, Assigning, SeenAndPlan
    <3>2. Leave(j, m)
      BY <2>2
    <3> HIDE DEF m
    <3> QED
      BY <1>2, <3>1, <3>2, LeaveSound
  <2>3. CASE Go(j, "locking", mem[j])
    <3>1. Sound("locking", mem[j])
      BY <1>2, <2>1 DEF Sound
    <3> QED
      BY <2>3, <3>1
  <2> QED
    BY <1>3, <2>2, <2>3 DEF Recall
<1>4. CASE Lock(j)
  <2> DEFINE n == [mem[j] EXCEPT !.tries = 1]
  <2>1. mem[j].plan = NoFiles
    BY <1>1, <1>4 DEF Lock, Sound
  <2>2. n.seen = mem[j].seen /\ n.plan = NoFiles
    BY <1>1, <2>1, SeenAndPlan
  <2>3. Go(j, "asking", n) \/ Go(j, "processing", mem[j])
    BY <1>4 DEF Lock, Enter
  <2> HIDE DEF n
  <2>4. Sound("asking", n) /\ Sound("processing", mem[j])
    BY <1>2, <2>1, <2>2 DEF Sound
  <2> QED
    BY <2>3, <2>4
<1>5. CASE Malformed(j)
  <2>1. mem[j].plan = NoFiles /\ Retry(j, mem[j])
    BY <1>1, <1>5 DEF Malformed, Sound
  <2> QED
    BY <1>1, <1>2, <2>1, RetrySound
<1>6. CASE CacheResult(j)
  <2>1. Go(j, "releasing", mem[j]) /\ at[j] = "caching"
    BY <1>6 DEF CacheResult
  <2>2. Sound("releasing", mem[j])
    BY <1>1, <2>1 DEF Sound
  <2> QED
    BY <2>1, <2>2
<1>7. CASE Release(j)
  <2>1. Leave(j, mem[j])
    BY <1>7 DEF Release
  <2> QED
    BY <1>1, <1>2, <2>1, LeaveSound
<1>8. CASE NoClient(j)
  <2>1. Go(j, "releasing", mem[j]) /\ at[j] = "asking"
    BY <1>8 DEF NoClient
  <2>2. mem[j].plan = NoFiles
    BY <1>1, <2>1 DEF Sound
  <2>3. Sound("releasing", mem[j])
    BY <1>2, <2>2 DEF Sound, Changing
  <2> QED
    BY <2>1, <2>3
<1> QED
  BY <1>3, <1>4, <1>5, <1>6, <1>7, <1>8

LEMMA WriteSound ==
    ASSUME TypeInv, ChangeInv, NEW j \in Jobs, Write(j) \/ WriteFails(j)
    PROVE  \E stage, n : Go(j, stage, n) /\ Sound(stage, n)
<1>1. Local(mem[j]) /\ IsFunction(mem[j].seen)
  BY DEF TypeInv, ChangeInv, Sound
<1>2. CASE Write(j)
  <2>1. PICK p : LET left == [mem[j] EXCEPT !.todo = @ \ {p}]
                 IN Go(j, IF left.todo = {} THEN "patched" ELSE "writing", left)
    BY <1>2 DEF Write
  <2> DEFINE left == [mem[j] EXCEPT !.todo = mem[j].todo \ {p}]
             stage == IF left.todo = {} THEN "patched" ELSE "writing"
  <2>2. left.seen = mem[j].seen
    BY <1>1, SeenAndPlan
  <2>3. Go(j, stage, left) /\ stage \in {"patched", "writing"}
    BY <2>1
  <2> HIDE DEF left, stage
  <2>4. Sound(stage, left)
    BY <1>1, <2>2, <2>3 DEF Sound
  <2> QED
    BY <2>3, <2>4
<1>3. CASE WriteFails(j)
  <2>1. Go(j, "failed", mem[j]) /\ Sound("failed", mem[j])
    BY <1>1, <1>3 DEF WriteFails, Sound
  <2> QED
    BY <2>1
<1> QED
  BY <1>2, <1>3

LEMMA ContextsStep ==
    ASSUME TypeInv, ChangeInv, [Next]_vars
    PROVE  ContextsAreFiles'
<1>1. ASSUME NEW j \in Jobs, StoreContext(j) PROVE ContextsAreFiles'
  <2>1. IsFunction(mem[j].seen) /\ DOMAIN context = Keys
    BY DEF ChangeInv, Sound, TypeInv, TypeOK
  <2>2. context' = [context EXCEPT ![Key(j)] = {mem[j].seen}] \/ context' = context
    BY <1>1 DEF StoreContext
  <2> QED
    BY <2>1, <2>2 DEF ChangeInv, ContextsAreFiles, IsFunction
<1>2. CASE Forget
  <2>1. (\E k \in Keys : context' = [context EXCEPT ![k] = {}]) \/ context' = context
    BY <1>2 DEF Forget
  <2> QED
    BY <2>1 DEF ChangeInv, ContextsAreFiles, IsFunction, TypeInv, TypeOK
<1>3. CASE context' = context
  <2>1. ContextsAreFiles
    BY Zenon DEF ChangeInv
  <2> QED
    BY <1>3, <2>1 DEF ContextsAreFiles
<1>4. (\E j \in Jobs : StoreContext(j)) \/ Forget \/ context' = context
  BY DEF Next, Step, Build, Edit, Start, Read, Recall, Lock, NoClient, Malformed, Answered, CacheResult,
         Release, Write, WriteFails, Restart, Lapse, redis, vars
<1> QED
  BY <1>1, <1>2, <1>3, <1>4

LEMMA ChangeStep == TypeInv /\ ChangeInv /\ [Next]_vars => ChangeInv'
<1> SUFFICES ASSUME TypeInv, ChangeInv, [Next]_vars PROVE ChangeInv'
  OBVIOUS
<1>1. ContextsAreFiles'
  BY ContextsStep
<1>2. ASSUME NEW j \in Jobs, Step(j) \/ WriteFails(j) PROVE ChangeInv'
  <2>1. \E stage, n : Go(j, stage, n) /\ Sound(stage, n)
    BY <1>2, ReadSound, BuildSound, EditSound, AnswerSound, WriteSound DEF Step, Build, Edit
  <2> QED
    BY <1>1, <2>1, ChangeGo
<1>3. CASE Restart
  <2>1. \A j \in Jobs : mem'[j] = Blank
    BY <1>3 DEF Restart
  <2>2. \A j \in Jobs : Sound(at[j], mem[j])'
    BY <2>1, BlankSound DEF Sound, Changing, Differing
  <2> QED
    BY <1>1, <2>2 DEF ChangeInv
<1>4. CASE UNCHANGED job
  BY <1>1, <1>4 DEF job, ChangeInv, Sound, Changing, Differing
<1>5. \/ \E j \in Jobs : Step(j) \/ WriteFails(j)
      \/ Restart \/ UNCHANGED job
  BY DEF Next, Forget, Lapse, vars
<1> QED
  BY <1>2, <1>3, <1>4, <1>5

(* A result that was accepted differs from the files in a file that will   *)
(* be written, whatever the answers of the model are.                      *)
THEOREM AcceptedIsAChange == Spec => []SuccessIsAChange
<1>1. Init => ChangeInv
  BY BlankSound DEF Init, ChangeInv, ContextsAreFiles
<1>2. ChangeInv => SuccessIsAChange
  BY DEF ChangeInv, Sound, Changing, SuccessIsAChange
<1> QED
  BY <1>1, <1>2, TypeInit, TypeStep, ChangeStep, PTL DEF Spec
=============================================================================
