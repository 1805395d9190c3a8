--------------------------- MODULE ApprovalEngine ---------------------------
(***************************************************************************)
(* One approval of a job: its row in approval_requests with the resume     *)
(* token in a column of its own, the interaction state of the job, and the *)
(* requests that work on them: the gate that asks and pauses the job,      *)
(* decisions (ApprovalEngine.resolve), and replies that let it go on       *)
(* (InteractiveWaitEngine.resume).  Every await is a query, and requests   *)
(* interleave between any two of them.                                     *)
(*                                                                         *)
(* The tokens belong to the last of the job's pending_approval_ids; if     *)
(* there is none they belong to the id of the job, under which no row      *)
(* exists: nothing is stored and nothing found.  jobs.status is left to    *)
(* EventWaitEngine, the texts of messages and audits are left out.         *)
(***************************************************************************)
EXTENDS Naturals, FiniteSets

CONSTANTS
    Requests,    \* the requests
    Nobody,      \* none of them
    Casts,       \* what the requests may be, one function for each mixture
    MaxFaults,   \* bound on queries that fail
    MaxCrashes,  \* bound on restarts of the server
    MaxNights    \* bound on midnights, when the tokens expire

ASSUME BoundsAssumption == {MaxFaults, MaxCrashes, MaxNights} \subseteq Nat

(* "refusal" is a reply whose text starts with REJECT. *)
Decisive == {"approve", "reject", "skip"}
Replies == {"reply", "refusal"}
Kinds == Decisive \cup Replies \cup {"pause"}
Decisions == {"approved", "rejected", "skipped"}

ASSUME RequestsAssumption ==
    /\ Nobody \notin Requests /\ Nobody \notin Decisions
    /\ Casts \subseteq [Requests -> Kinds]

VARIABLES
    kind,           \* kind[o]: what request o is
    linked,         \* pending_approval_ids names the approval
    status, version,  \* the row
    audit,          \* approval_audit: event_type and decision of its rows
    store,          \* the column resume_token
    waiting,        \* interaction_state: "no", "waiting", "resumed"
    at, held, seen, answer,  \* a request: where it is, the token and the
                    \* version it has read, what its caller is told
    author,         \* the request whose decision was saved
    issued,         \* the tokens made so far, ...
    expired,        \* ... up to this one they have expired
    killed,         \* the tokens that were stored as consumed or revoked
    barred,         \* the tokens made before the approval was rejected
    defied,         \* one of them was accepted after that
    pauses, resumes,  \* how often the job was paused and let go
    faults, crashes, nights, alone

row == <<status, version, author, barred>>
tokens == <<store, issued, killed>>
local == <<at, held, seen, answer>>
job == <<waiting, pauses, resumes>>
hazards == <<faults, crashes, nights>>
vars == <<kind, linked, row, audit, tokens, expired, defied, job, local, hazards, alone>>

Fresh(n) == [serial |-> n, consumed |-> FALSE, revoked |-> FALSE]
NoToken == Fresh(0)
Tokens == [serial : Nat, consumed : BOOLEAN, revoked : BOOLEAN]

ResolveStages == {"checking", "loading", "saving", "rereading", "auditing", "recording"}
PauseStages == {"inserting", "pausing", "issueRead", "issueRevoke", "issueWrite"}
ReplyStages == {"opening", "tokenRead", "consumeRead", "consumeWrite", "resuming"}
RevokeStages == {"revokeRead", "revokeWrite"}
Busy == ResolveStages \cup PauseStages \cup ReplyStages \cup RevokeStages

Open == {o \in Requests : at[o] \in Busy}

(* The types of the state. *)
TypeOK ==
    /\ kind \in [Requests -> Kinds]
    /\ linked \in BOOLEAN
    /\ status \in {"none", "pending"} \cup Decisions
    /\ version \in Nat
    /\ audit \subseteq [event : {"approved", "rejected"}, decision : Decisions]
    /\ store \in Tokens
    /\ waiting \in {"no", "waiting", "resumed"}
    /\ at \in [Requests -> Busy \cup {"idle", "closed"}]
    /\ held \in [Requests -> Tokens]
    /\ seen \in [Requests -> Nat]
    /\ answer \in [Requests -> {"none", "accepted", "refused", "unknown"}]
    /\ author \in Requests \cup {Nobody}
    /\ issued \in Nat /\ expired \in Nat /\ barred \in Nat
    /\ killed \subseteq Nat
    /\ defied \in BOOLEAN /\ alone \in BOOLEAN
    /\ pauses \in Nat /\ resumes \in Nat
    /\ faults \in 0..MaxFaults /\ crashes \in 0..MaxCrashes /\ nights \in 0..MaxNights

(* The job runs, no step of it has asked yet. *)
Init ==
    /\ kind \in Casts
    /\ linked \in BOOLEAN
    /\ status = "none" /\ version = 0 /\ author = Nobody /\ barred = 0
    /\ audit = {}
    /\ store = NoToken /\ issued = 0 /\ killed = {} /\ expired = 0
    /\ waiting = "no" /\ pauses = 0 /\ resumes = 0
    /\ at = [o \in Requests |-> "idle"]
    /\ held = [o \in Requests |-> NoToken]
    /\ seen = [o \in Requests |-> 0]
    /\ answer = [o \in Requests |-> "none"]
    /\ defied = FALSE /\ alone = TRUE
    /\ faults = 0 /\ crashes = 0 /\ nights = 0

-----------------------------------------------------------------------------
Go(o, stage) == at' = [at EXCEPT ![o] = stage] /\ UNCHANGED answer

Close(o, text) ==
    /\ at' = [at EXCEPT ![o] = "closed"]
    /\ answer' = [answer EXCEPT ![o] = text]

Wish(k) == CASE k = "approve" -> "approved" [] k = "reject" -> "rejected" [] OTHER -> "skipped"

(* The audit has one word for every decision that is no approval. *)
Entry(k) == [event |-> IF k = "approve" THEN "approved" ELSE "rejected", decision |-> Wish(k)]

(* An UPDATE of the column that holds the token.  It finds the row only if *)
(* the job names the approval.                                             *)
Put(t) ==
    /\ store' = IF linked /\ status # "none" THEN t ELSE store
    /\ killed' = IF linked /\ status # "none" /\ (t.consumed \/ t.revoked)
                 THEN killed \cup {t.serial} ELSE killed

Consumed(t) == [t EXCEPT !.consumed = TRUE]
Revoked(t) == [t EXCEPT !.revoked = TRUE]
Unspent(t) == t # NoToken /\ ~t.consumed /\ ~t.revoked

(* ResumeToken.verify *)
Verifies(t) == ~t.consumed /\ ~t.revoked /\ t.serial > expired

(* A job has one runner: the gate asks when it is not asking already, and  *)
(* a run that finds the job waiting skips it.  A decision needs the id of  *)
(* the approval, which the interaction state gives.                        *)
Begin(o) ==
    /\ at[o] = "idle"
    /\ \/ /\ kind[o] = "pause"
          /\ waiting # "waiting"
          /\ \A p \in Open : kind[p] # "pause"
          /\ Go(o, IF status = "none" THEN "inserting" ELSE "pausing")
       \/ /\ kind[o] \in Decisive
          /\ linked /\ status # "none"
          /\ Go(o, "checking")
       \/ /\ kind[o] \in Replies
          /\ Go(o, "opening")
    /\ alone' = (alone /\ Open = {})
    /\ UNCHANGED <<kind, linked, row, audit, tokens, expired, defied, job, held, seen, hazards>>

-----------------------------------------------------------------------------
(* ApprovalEngine.resolve.                                                 *)

(* The id of the operation ends in the time, so that it is never found. *)
CheckOperation(o) ==
    /\ at[o] = "checking"
    /\ Go(o, "loading")
    /\ UNCHANGED <<kind, linked, row, audit, tokens, expired, defied, job, held, seen, hazards, alone>>

Load(o) ==
    /\ at[o] = "loading"
    /\ IF status = "pending" THEN Go(o, "saving") ELSE Close(o, "refused")
    /\ seen' = [seen EXCEPT ![o] = version]
    /\ UNCHANGED <<kind, linked, row, audit, tokens, expired, defied, job, held, hazards, alone>>

Written(o) ==
    /\ status' = Wish(kind[o])
    /\ version' = seen[o] + 1
    /\ author' = o
    /\ barred' = IF kind[o] = "reject" THEN issued ELSE barred

(* Mutant: the UPDATE does not look at the version. *)
SaveAnyVersion(o) ==
    /\ at[o] = "saving"
    /\ Written(o) /\ Go(o, "auditing")
    /\ UNCHANGED <<kind, linked, audit, tokens, expired, defied, job, held, seen, hazards, alone>>

(* The UPDATE names the version that was loaded, and finds no row if there *)
(* is another by now.                                                      *)
Save(o) ==
    /\ at[o] = "saving"
    /\ IF version = seen[o]
         THEN Written(o) /\ Go(o, "auditing")
         ELSE UNCHANGED row /\ Go(o, "rereading")
    /\ UNCHANGED <<kind, linked, audit, tokens, expired, defied, job, held, seen, hazards, alone>>

(* Mutant: a conflict is answered by the same UPDATE again. *)
SaveAgain(o) ==
    /\ at[o] = "rereading"
    /\ Go(o, "saving")
    /\ UNCHANGED <<kind, linked, row, audit, tokens, expired, defied, job, held, seen, hazards, alone>>

(* The version that is there tells OptimisticLockError from a lost row. *)
Reread(o) ==
    /\ at[o] = "rereading"
    /\ Close(o, "refused")
    /\ UNCHANGED <<kind, linked, row, audit, tokens, expired, defied, job, held, seen, hazards, alone>>

Audit(o) ==
    /\ at[o] = "auditing"
    /\ audit' = audit \cup {Entry(kind[o])}
    /\ Go(o, "recording")
    /\ UNCHANGED <<kind, linked, row, tokens, expired, defied, job, held, seen, hazards, alone>>

(* Mutant: a rejection leaves the token alone. *)
RecordAndAccept(o) ==
    /\ at[o] = "recording"
    /\ Close(o, "accepted")
    /\ UNCHANGED <<kind, linked, row, audit, tokens, expired, defied, job, held, seen, hazards, alone>>

(* IdempotencyGuard.record, which nothing looks at. *)
RecordOperation(o) ==
    /\ at[o] = "recording"
    /\ IF kind[o] = "reject" THEN Go(o, "revokeRead") ELSE Close(o, "accepted")
    /\ UNCHANGED <<kind, linked, row, audit, tokens, expired, defied, job, held, seen, hazards, alone>>

(* ResumeTokenStore.revoke, for a rejection and for a reply that refuses. *)
AfterRevoke(o) == IF kind[o] = "reject" THEN Close(o, "accepted") ELSE Go(o, "resuming")

RevokeRead(o) ==
    /\ at[o] = "revokeRead"
    /\ held' = [held EXCEPT ![o] = store]
    /\ IF store = NoToken THEN AfterRevoke(o) ELSE Go(o, "revokeWrite")
    /\ UNCHANGED <<kind, linked, row, audit, tokens, expired, defied, job, seen, hazards, alone>>

RevokeWrite(o) ==
    /\ at[o] = "revokeWrite"
    /\ Put(Revoked(held[o]))
    /\ AfterRevoke(o)
    /\ UNCHANGED <<kind, linked, row, audit, issued, expired, defied, job, held, seen, hazards, alone>>

-----------------------------------------------------------------------------
(* The gate: ApprovalEngine.evaluate and InteractiveWaitEngine.pause.      *)

Insert(o) ==
    /\ at[o] = "inserting"
    /\ status' = "pending" /\ version' = 1
    /\ Go(o, "pausing")
    /\ UNCHANGED <<kind, linked, author, barred, audit, tokens, expired, defied, job, held, seen, hazards, alone>>

PersistWaiting(o) ==
    /\ at[o] = "pausing"
    /\ waiting' = "waiting" /\ pauses' = pauses + 1
    /\ Go(o, "issueRead")
    /\ UNCHANGED <<kind, linked, row, audit, tokens, expired, defied, resumes, held, seen, hazards, alone>>

(* ResumeTokenStore.issue: a token that is still good is revoked first. *)
IssueRead(o) ==
    /\ at[o] = "issueRead"
    /\ held' = [held EXCEPT ![o] = store]
    /\ Go(o, IF Unspent(store) THEN "issueRevoke" ELSE "issueWrite")
    /\ UNCHANGED <<kind, linked, row, audit, tokens, expired, defied, job, seen, hazards, alone>>

IssueRevoke(o) ==
    /\ at[o] = "issueRevoke"
    /\ Put(Revoked(held[o]))
    /\ Go(o, "issueWrite")
    /\ UNCHANGED <<kind, linked, row, audit, issued, expired, defied, job, held, seen, hazards, alone>>

IssueWrite(o) ==
    /\ at[o] = "issueWrite"
    /\ issued' = issued + 1
    /\ Put(Fresh(issued + 1))
    /\ Close(o, "accepted")
    /\ UNCHANGED <<kind, linked, row, audit, expired, defied, job, held, seen, hazards, alone>>

-----------------------------------------------------------------------------
(* InteractiveWaitEngine.resume.                                           *)

AfterToken(o) == Go(o, IF kind[o] = "refusal" THEN "revokeRead" ELSE "resuming")

(* Mutant: nobody asks whether the job is waiting. *)
OpenAnyState(o) ==
    /\ at[o] = "opening"
    /\ Go(o, "tokenRead")
    /\ UNCHANGED <<kind, linked, row, audit, tokens, expired, defied, job, held, seen, hazards, alone>>

OpenState(o) ==
    /\ at[o] = "opening"
    /\ IF waiting = "waiting" THEN Go(o, "tokenRead") ELSE Close(o, "refused")
    /\ UNCHANGED <<kind, linked, row, audit, tokens, expired, defied, job, held, seen, hazards, alone>>

(* Without a token there is nothing to verify. *)
ReadToken(o) ==
    /\ at[o] = "tokenRead"
    /\ held' = [held EXCEPT ![o] = store]
    /\ IF store = NoToken THEN AfterToken(o)
       ELSE IF Verifies(store) THEN Go(o, "consumeRead") ELSE Close(o, "refused")
    /\ defied' = (defied \/ (store # NoToken /\ Verifies(store) /\ store.serial <= barred))
    /\ UNCHANGED <<kind, linked, row, audit, tokens, expired, job, seen, hazards, alone>>

(* ResumeTokenStore.consume loads it again and writes it back. *)
ConsumeRead(o) ==
    /\ at[o] = "consumeRead"
    /\ held' = [held EXCEPT ![o] = store]
    /\ Go(o, "consumeWrite")
    /\ UNCHANGED <<kind, linked, row, audit, tokens, expired, defied, job, seen, hazards, alone>>

(* Mutant: the nonce is written without its mark. *)
ConsumeNothing(o) ==
    /\ at[o] = "consumeWrite"
    /\ Put(held[o])
    /\ AfterToken(o)
    /\ UNCHANGED <<kind, linked, row, audit, issued, expired, defied, job, held, seen, hazards, alone>>

ConsumeWrite(o) ==
    /\ at[o] = "consumeWrite"
    /\ Put(Consumed(held[o]))
    /\ AfterToken(o)
    /\ UNCHANGED <<kind, linked, row, audit, issued, expired, defied, job, held, seen, hazards, alone>>

PersistResumed(o) ==
    /\ at[o] = "resuming"
    /\ waiting' = "resumed" /\ resumes' = resumes + 1
    /\ Close(o, "accepted")
    /\ UNCHANGED <<kind, linked, row, audit, tokens, expired, defied, pauses, held, seen, hazards, alone>>

-----------------------------------------------------------------------------
(* Failures.                                                               *)

(* Queries whose exception reaches the caller. *)
Raising == (ResolveStages \ {"auditing"}) \cup (PauseStages \ {"issueRead"}) \cup {"resuming"}

Raise(o) ==
    /\ at[o] \in Raising
    /\ faults < MaxFaults /\ faults' = faults + 1
    /\ Close(o, "unknown")
    /\ UNCHANGED <<kind, linked, row, audit, tokens, expired, defied, job, held, seen, crashes, nights, alone>>

(* The UPDATE is carried out and its answer is lost. *)
SaveUnheard(o) ==
    /\ at[o] = "saving"
    /\ version = seen[o]
    /\ faults < MaxFaults /\ faults' = faults + 1
    /\ Written(o)
    /\ Close(o, "unknown")
    /\ UNCHANGED <<kind, linked, audit, tokens, expired, defied, job, held, seen, crashes, nights, alone>>

(* Queries whose exception is logged: the request goes on.  A state that   *)
(* cannot be loaded is a fresh one, a token that cannot be loaded is none. *)
Swallow(o) ==
    /\ faults < MaxFaults /\ faults' = faults + 1
    /\ \/ at[o] = "auditing" /\ Go(o, "recording")
       \/ at[o] \in RevokeStages /\ AfterRevoke(o)
       \/ at[o] = "issueRead" /\ Go(o, "issueWrite")
       \/ at[o] = "opening" /\ Close(o, "refused")
       \/ at[o] \in {"tokenRead", "consumeRead", "consumeWrite"} /\ AfterToken(o)
    /\ UNCHANGED <<kind, linked, row, audit, tokens, expired, defied, job, held, seen, crashes, nights, alone>>

(* A restart: the requests in progress end with a lost connection. *)
Crash ==
    /\ crashes < MaxCrashes /\ crashes' = crashes + 1
    /\ at' = [o \in Requests |-> IF o \in Open THEN "closed" ELSE at[o]]
    /\ answer' = [o \in Requests |-> IF o \in Open THEN "unknown" ELSE answer[o]]
    /\ UNCHANGED <<kind, linked, row, audit, tokens, expired, defied, job, held, seen, faults, nights, alone>>

(* expires_at is the last second of the day the token was made on. *)
Midnight ==
    /\ nights < MaxNights /\ nights' = nights + 1
    /\ expired' = issued
    /\ UNCHANGED <<kind, linked, row, audit, tokens, defied, job, local, faults, crashes, alone>>

-----------------------------------------------------------------------------
Resolve(o) ==
    CheckOperation(o) \/ Load(o) \/ Save(o) \/ Reread(o) \/ Audit(o) \/ RecordOperation(o)
Pause(o) == Insert(o) \/ PersistWaiting(o) \/ IssueRead(o) \/ IssueRevoke(o) \/ IssueWrite(o)
Resume(o) == OpenState(o) \/ ReadToken(o) \/ ConsumeRead(o) \/ ConsumeWrite(o) \/ PersistResumed(o)
Step(o) == Resolve(o) \/ Pause(o) \/ Resume(o) \/ RevokeRead(o) \/ RevokeWrite(o)
Fail(o) == Raise(o) \/ SaveUnheard(o) \/ Swallow(o)

Next ==
    \/ \E o \in Requests : Begin(o) \/ Step(o) \/ Fail(o)
    \/ Crash \/ Midnight

Spec == Init /\ [][Next]_vars

(* The event loop gives every request its turn. *)
FairSpec == Spec /\ \A o \in Requests : WF_vars(Step(o))

-----------------------------------------------------------------------------
(* Refinement.                                                             *)

Wishes == [o \in Requests |-> Wish(kind[o])]
Taken == IF status \in {"none", "pending"} THEN Nobody ELSE status
Told == [o \in Requests |-> IF kind[o] \in Decisive THEN answer[o] ELSE "none"]

(* The row is a register that is written once. *)
Register == INSTANCE DecisionRegister WITH
    Users <- Requests, Open <- Nobody,
    wish <- Wishes, value <- Taken, author <- author, answer <- Told

(* ApprovalEngine.resolve takes one decision, however many arrive at once  *)
(* and whatever fails: who is told it is his took it, who is told of a     *)
(* conflict came after another.                                            *)
RegisterSpec == Register!Spec

(* Safety.                                                                 *)

(* approval_audit tells of the decision that was taken and of no other:   *)
(* its "decision" is the row's, and its "event_type" is that as well       *)
(* unless the approval was skipped, which it calls "rejected".             *)
AuditFollowsRow ==
    \A e \in audit :
        /\ e.decision = status
        /\ e.event = IF status = "skipped" THEN "rejected" ELSE status

(* A token that was once consumed or revoked is never good again: no write *)
(* of a request that has read the column before puts it back.              *)
KilledStaysKilled == Unspent(store) => store.serial \notin killed

(* A job is let go once for every time it was paused, also after faults    *)
(* and restarts, as long as requests do not overlap.                       *)
OnceWhenAlone == alone => resumes <= pauses

(* A rejection is final: as long as requests do not overlap and nothing    *)
(* fails, no token from before it lets the job go.                         *)
RejectionHolds == alone /\ faults = 0 /\ crashes = 0 => ~defied

-----------------------------------------------------------------------------
(* Liveness.                                                               *)

(* Every request is answered: resolve, pause and resume wait for nothing   *)
(* but their queries.                                                      *)
RequestsEnd == \A o \in Requests : at[o] # "idle" ~> at[o] = "closed"
=============================================================================
