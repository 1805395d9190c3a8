-------------------------- MODULE WebhookDelivery --------------------------
(***************************************************************************)
(* GitHub's webhook: the ledger of deliveries that have been processed,    *)
(* and the handlers that keep the row of an installation and the name of a *)
(* connected repository up to date.  Every await of a handler is a query   *)
(* to the database, so requests interleave between any two of them.        *)
(*                                                                         *)
(* GitHub posts its deliveries in order without waiting for the answers,   *)
(* and posts a delivery again when it is asked to.                         *)
(***************************************************************************)
EXTENDS Naturals, FiniteSets

CONSTANTS
    Deliveries,  \* 1..n, in the order of the events
    Kinds,       \* the kinds of events they are about
    MaxPosts,    \* bound on the posts of a delivery
    MaxOpen,     \* bound on the requests in progress
    MaxFaults,   \* bound on queries that fail
    MaxCrashes,  \* bound on restarts of the server
    FirstCount   \* repositories_count at the beginning

Lifecycle == {"suspend", "unsuspend", "deleted"}
Counting == {"added", "removed"}
Naming == {"repo_deleted", "renamed"}
EventKinds == Lifecycle \cup Counting \cup Naming \cup {"created", "other"}

ASSUME DeliveriesAssumption == Deliveries \subseteq Nat /\ IsFiniteSet(Deliveries)
ASSUME KindsAssumption == Kinds \subseteq EventKinds
ASSUME BoundsAssumption ==
    {MaxPosts, MaxOpen, MaxFaults, MaxCrashes, FirstCount} \subseteq Nat

Requests == Deliveries \X (1..MaxPosts)

VARIABLES
    event,       \* event[d]: what delivery d is about
    ledger,      \* github_webhook_deliveries
    status,      \* github_app_installations: its status, ...
    count,       \* ... its repositories_count
    name,        \* github_connections.repo_full_name
    stage, seen, \* a request: where it is, the count it read
    purged,      \* deliveries that have purged the token cache
    applied,     \* how often a delivery has changed the count
    faults, crashes,
    alone        \* no two requests have ever been in progress at a time

rowVars == <<status, count, name>>
hazards == <<faults, crashes, alone>>
vars == <<event, ledger, rowVars, stage, seen, purged, applied, hazards>>

(* Acked is the answer 200; "failed" is 500, "lost" no answer at all. *)
Acked == {"replay", "done"}
Closed == Acked \cup {"failed", "lost"}
Stages == {"unsent", "checking", "dispatched", "purging", "cleaning",
           "counting", "marking", "recording"} \cup Closed

Open == {r \in Requests : stage[r] \notin Closed \cup {"unsent"}}
What(r) == event[r[1]]

(* The types of the state.  repositories_count is never negative: a        *)
(* removal takes it down to 0 at most.                                     *)
TypeOK ==
    /\ event \in [Deliveries -> Kinds]
    /\ ledger \subseteq Deliveries
    /\ status \in {"none", "active", "suspended", "deleted"}
    /\ count \in Nat
    /\ name \in {"first", "renamed", "none"}
    /\ stage \in [Requests -> Stages]
    /\ seen \in [Requests -> Nat]
    /\ purged \subseteq Deliveries
    /\ applied \in [Deliveries -> Nat]
    /\ faults \in 0..MaxFaults
    /\ crashes \in 0..MaxCrashes
    /\ alone \in BOOLEAN

(* The events are any that GitHub sends.  The row exists if the user has connected the App; the webhook of an     *)
(* installation from GitHub's own pages comes before that.                 *)
Init ==
    /\ event \in [Deliveries -> Kinds]
    /\ ledger = {}
    /\ status \in {"none", "active"}
    /\ count = FirstCount
    /\ name = "first"
    /\ stage = [r \in Requests |-> "unsent"]
    /\ seen = [r \in Requests |-> 0]
    /\ purged = {}
    /\ applied = [d \in Deliveries |-> 0]
    /\ faults = 0
    /\ crashes = 0
    /\ alone = TRUE

-----------------------------------------------------------------------------
Move(r, s) == stage' = [stage EXCEPT ![r] = s]

Post(r) ==
    /\ stage[r] = "unsent"
    /\ \A d \in Deliveries : d < r[1] => stage[<<d, 1>>] # "unsent"
    /\ \A k \in 1..MaxPosts : k < r[2] => stage[<<r[1], k>>] # "unsent"
    /\ Cardinality(Open) < MaxOpen
    /\ Move(r, "checking")
    /\ alone' = (alone /\ Open = {})
    /\ UNCHANGED <<event, ledger, rowVars, seen, purged, applied, faults, crashes>>

(* An unknown event is only recorded. *)
AfterCheck(r) == IF What(r) = "other" THEN "recording" ELSE "dispatched"

(* Mutant: the ledger is not looked at. *)
CheckNothing(r) ==
    /\ stage[r] = "checking"
    /\ Move(r, AfterCheck(r))
    /\ UNCHANGED <<event, ledger, rowVars, seen, purged, applied, hazards>>

(* _already_processed *)
Check(r) ==
    /\ stage[r] = "checking"
    /\ Move(r, IF r[1] \in ledger THEN "replay" ELSE AfterCheck(r))
    /\ UNCHANGED <<event, ledger, rowVars, seen, purged, applied, hazards>>

(* _handle_installation, created: the upsert has no user_id, the column is *)
(* NOT NULL and the database refuses it, also when the row is there.       *)
Create(r) ==
    /\ stage[r] = "dispatched"
    /\ What(r) = "created"
    /\ Move(r, "recording")
    /\ UNCHANGED <<event, ledger, rowVars, seen, purged, applied, hazards>>

StatusAfter(kind) ==
    CASE kind = "suspend" -> "suspended"
      [] kind = "unsuspend" -> "active"
      [] kind = "deleted" -> "deleted"

(* suspend, unsuspend, deleted: an update of the row, if it is there. *)
UpdateStatus(r) ==
    /\ stage[r] = "dispatched"
    /\ What(r) \in Lifecycle
    /\ status' = IF status = "none" THEN "none" ELSE StatusAfter(What(r))
    /\ Move(r, "purging")
    /\ UNCHANGED <<event, ledger, count, name, seen, purged, applied, hazards>>

(* Mutant: only a deletion purges. *)
PurgeDeleted(r) ==
    /\ stage[r] = "purging"
    /\ purged' = IF What(r) = "deleted" THEN purged \cup {r[1]} ELSE purged
    /\ Move(r, IF What(r) = "deleted" THEN "cleaning" ELSE "recording")
    /\ UNCHANGED <<event, ledger, rowVars, seen, applied, hazards>>

(* invalidate_installation_token, see InstallationTokens. *)
Purge(r) ==
    /\ stage[r] = "purging"
    /\ purged' = purged \cup {r[1]}
    /\ Move(r, IF What(r) = "deleted" THEN "cleaning" ELSE "recording")
    /\ UNCHANGED <<event, ledger, rowVars, seen, applied, hazards>>

(* _bump_repo_count reads the count ... *)
ReadCount(r) ==
    /\ stage[r] = "dispatched"
    /\ What(r) \in Counting
    /\ seen' = [seen EXCEPT ![r] = IF status = "none" THEN 0 ELSE count]
    /\ Move(r, "counting")
    /\ UNCHANGED <<event, ledger, rowVars, purged, applied, hazards>>

Bumped(n, kind) == IF kind = "added" THEN n + 1 ELSE IF n = 0 THEN 0 ELSE n - 1

(* Where a counting request goes when the count is dealt with. *)
AfterCount(r) == IF What(r) = "removed" THEN "marking" ELSE "recording"

(* ... and writes what it makes of it. *)
WriteCount(r) ==
    /\ stage[r] = "counting"
    /\ count' = IF status = "none" THEN count ELSE Bumped(seen[r], What(r))
    /\ applied' = [applied EXCEPT ![r[1]] = @ + 1]
    /\ Move(r, AfterCount(r))
    /\ UNCHANGED <<event, ledger, status, name, seen, purged, hazards>>

(* _rename_repo, _mark_repo_removed, _cleanup_app_connections *)
SetName(r) ==
    /\ \/ stage[r] \in {"marking", "cleaning"}
       \/ stage[r] = "dispatched" /\ What(r) \in Naming
    /\ name' = IF What(r) = "renamed" THEN "renamed" ELSE "none"
    /\ Move(r, "recording")
    /\ UNCHANGED <<event, ledger, status, count, seen, purged, applied, hazards>>

(* _record_delivery, the last thing a request does.  delivery_id is the    *)
(* primary key: the second insert fails.                                   *)
Record(r) ==
    /\ stage[r] = "recording"
    /\ Move(r, IF r[1] \in ledger THEN "failed" ELSE "done")
    /\ ledger' = ledger \cup {r[1]}
    /\ UNCHANGED <<event, rowVars, seen, purged, applied, hazards>>

(* A query fails.  The helpers swallow the exception and their handler     *)
(* goes on; an exception of a handler is isolated and the delivery is      *)
(* recorded all the same; around the handler it is the answer 500.         *)
AfterFault(r) ==
    CASE stage[r] \in {"checking", "recording"} -> "failed"
      [] stage[r] = "dispatched" /\ What(r) \in Counting -> AfterCount(r)
      [] stage[r] = "counting" -> AfterCount(r)
      [] OTHER -> "recording"

Fault(r) ==
    /\ faults < MaxFaults
    /\ faults' = faults + 1
    /\ stage[r] \in {"checking", "dispatched", "cleaning", "counting", "marking", "recording"}
    /\ Move(r, AfterFault(r))
    /\ UNCHANGED <<event, ledger, rowVars, seen, purged, applied, crashes, alone>>

Crash ==
    /\ crashes < MaxCrashes
    /\ crashes' = crashes + 1
    /\ stage' = [r \in Requests |-> IF r \in Open THEN "lost" ELSE stage[r]]
    /\ UNCHANGED <<event, ledger, rowVars, seen, purged, applied, faults, alone>>

-----------------------------------------------------------------------------
Handle(r) ==
    \/ Check(r)
    \/ Create(r)
    \/ UpdateStatus(r) \/ Purge(r)
    \/ ReadCount(r) \/ WriteCount(r)
    \/ SetName(r)
    \/ Record(r)

Next ==
    \/ \E r \in Requests : Post(r) \/ Handle(r) \/ Fault(r)
    \/ Crash

Spec == Init /\ [][Next]_vars

-----------------------------------------------------------------------------
(* Safety.                                                                 *)

(* GitHub is told that a delivery succeeded only when the ledger, which    *)
(* survives a crash, says so: whatever else was lost can be posted again.  *)
AckedIsRecorded == \A r \in Requests : stage[r] \in Acked => r[1] \in ledger

(* While no query fails, a suspension, its end and a deletion are not      *)
(* acknowledged before the cached token is gone.  (A failing update skips  *)
(* the purge, and the delivery is recorded all the same.)                  *)
AckedIsPurged ==
    faults = 0 => \A r \in Requests :
        stage[r] = "done" /\ What(r) \in Lifecycle => r[1] \in purged

(* An answer 200 keeps both promises: GitHub may forget the delivery, and  *)
(* the token of an installation that lost its rights is no longer used.    *)
AckIsHonest == AckedIsRecorded /\ AckedIsPurged

(* A delivery changes the count once, however often it is posted. *)
AppliedOnce == \A d \in Deliveries : applied[d] <= 1

(* No query has failed, the server has not restarted, and GitHub had the   *)
(* answer to every request before it made the next.                        *)
Undisturbed == faults = 0 /\ crashes = 0 /\ alone

(* What the ledger is for: a delivery that is posted again is not applied  *)
(* again.                                                                  *)
ReplaySkipped == Undisturbed => AppliedOnce

Recorded(kinds) == {d \in ledger : event[d] \in kinds}

(* The row is what the recorded deliveries, each of them once, make of the *)
(* first one: the count has every addition and removal in it, as long as   *)
(* GitHub does not remove more than there was; the status is that of the   *)
(* last event and not of the last request.                                 *)
RowFollowsLedger ==
    Undisturbed /\ Open = {} /\ status # "none" =>
        /\ Cardinality(Recorded({"removed"})) <= FirstCount =>
              count + Cardinality(Recorded({"removed"})) = FirstCount + Cardinality(Recorded({"added"}))
        /\ \A d \in Recorded(Lifecycle) :
              (\A e \in Recorded(Lifecycle) : e <= d) => status = StatusAfter(event[d])

=============================================================================
