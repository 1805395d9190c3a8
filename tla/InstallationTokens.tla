------------------------- MODULE InstallationTokens -------------------------
(***************************************************************************)
(* The cache of GitHub App installation tokens.  Every process has its own *)
(* dictionary and its own asyncio.Lock per installation; installations are *)
(* independent, so the module has one.  get_installation_token returns a   *)
(* cached token that is not near its expiry without taking the lock, and   *)
(* looks again under the lock before it asks GitHub for another.           *)
(* The request goes through github_api_call, which waits out one rate      *)
(* limit, and github_request, which tries again what was lost on the way.  *)
(* invalidate_installation_token, called when the webhook of a suspension, *)
(* its end or a deletion arrives, drops the entry under the same lock.     *)
(*                                                                         *)
(* GitHub revokes the tokens of an installation it suspends or deletes:    *)
(* epoch counts these revocations, and a token carries the epoch in which  *)
(* it was issued.                                                          *)
(***************************************************************************)
EXTENDS Naturals

CONSTANTS
    Procs,      \* processes that use tokens
    Api,        \* those the webhook reaches
    Getters,    \* concurrent calls of get_installation_token in a process
    Purgers,    \* concurrent invalidations in a process
    None,
    Lifetime,   \* for how long GitHub accepts a token
    Leeway,     \* _TOKEN_REFRESH_LEEWAY
    MaxTries,   \* GITHUB_API_MAX_RETRIES and the first try
    MaxClock,   \* bound on time
    MaxEpoch    \* bound on revocations

ASSUME ProcsAssumption == Api \subseteq Procs
ASSUME TasksAssumption == Getters \cap Purgers = {}
ASSUME TimesAssumption == {Lifetime, Leeway, MaxClock, MaxEpoch} \subseteq Nat /\ Leeway < Lifetime
ASSUME TriesAssumption == MaxTries \in Nat \ {0}

(* A task of the event loop of a process. *)
GetTasks == Procs \X Getters
PurgeTasks == Api \X Purgers
Tasks == GetTasks \cup PurgeTasks
Home(t) == t[1]

Tokens == [epoch : 0..MaxEpoch, expires : 0..(MaxClock + Lifetime)]

ASSUME NoneAssumption == None \notin Tasks /\ None \notin Tokens

VARIABLES
    clock, epoch,   \* the time, and the revocations at GitHub
    cache,          \* _token_cache of a process: a token or None
    holder,         \* the task that holds the lock of a process
    pc,
    now,            \* the time a call read when it began
    tries,          \* how often a call has sent its request, since it waited
    waited,         \* whether it has waited out a rate limit; both are those
                    \* of the request that is out
    token,          \* what a call has in hand: GitHub's reply or its result
    since,          \* a purge: the revocation it follows; a call: the last
                    \* one that was purged when it began
    lastPurge       \* the last revocation whose purge has dropped the entry

worldVars == <<clock, epoch>>
httpVars == <<tries, waited>>
tokenVars == <<worldVars, cache, holder, pc, now, httpVars, token, since, lastPurge>>

(* "hit": the fast path has its token and awaits the audit.  Under the     *)
(* lock: "minting", the request is out; "issued", GitHub has answered it;  *)
(* "done", the result is there and the audit is awaited.                   *)
Critical == {"minting", "issued", "done"}
States == {"idle", "hit", "waiting"} \cup Critical

TokenTypeOK ==
    /\ clock \in 0..MaxClock
    /\ epoch \in 0..MaxEpoch
    /\ cache \in [Procs -> Tokens \cup {None}]
    /\ holder \in [Procs -> Tasks \cup {None}]
    /\ pc \in [Tasks -> States]
    /\ now \in [Tasks -> 0..MaxClock]
    /\ tries \in [Tasks -> 0..MaxTries]
    /\ waited \in [Tasks -> BOOLEAN]
    /\ token \in [Tasks -> Tokens \cup {None}]
    /\ since \in [Tasks -> 0..MaxEpoch]
    /\ lastPurge \in [Procs -> 0..MaxEpoch]

TokenInit ==
    /\ clock = 0
    /\ epoch = 0
    /\ cache = [p \in Procs |-> None]
    /\ holder = [p \in Procs |-> None]
    /\ pc = [t \in Tasks |-> "idle"]
    /\ now = [t \in Tasks |-> 0]
    /\ tries = [t \in Tasks |-> 0]
    /\ waited = [t \in Tasks |-> FALSE]
    /\ token = [t \in Tasks |-> None]
    /\ since = [t \in Tasks |-> 0]
    /\ lastPurge = [p \in Procs |-> 0]

-----------------------------------------------------------------------------
(* get_installation_token.                                                 *)

(* Mutant: without the leeway. *)
UsableToTheEnd(entry, time) == entry # None /\ time < entry.expires

(* The entry is there and not near its expiry. *)
Usable(entry, time) == entry # None /\ time + Leeway < entry.expires

(* The call looks without the lock, and queues for it when it misses. *)
Get(t) ==
    LET entry == cache[Home(t)] IN
    /\ pc[t] = "idle"
    /\ now' = [now EXCEPT ![t] = clock]
    /\ since' = [since EXCEPT ![t] = lastPurge[Home(t)]]
    /\ IF Usable(entry, clock)
       THEN pc' = [pc EXCEPT ![t] = "hit"] /\ token' = [token EXCEPT ![t] = entry]
       ELSE pc' = [pc EXCEPT ![t] = "waiting"] /\ UNCHANGED token
    /\ UNCHANGED <<httpVars, worldVars, cache, holder, lastPurge>>

ReturnHit(t) ==
    /\ pc[t] = "hit"
    /\ pc' = [pc EXCEPT ![t] = "idle"]
    /\ token' = [token EXCEPT ![t] = None]
    /\ UNCHANGED <<httpVars, worldVars, cache, holder, now, since, lastPurge>>

(* Mutant: nothing is locked. *)
LockIgnored(t) ==
    /\ pc[t] = "waiting"
    /\ holder' = [holder EXCEPT ![Home(t)] = t]

Lock(t) ==
    /\ pc[t] = "waiting"
    /\ holder[Home(t)] = None
    /\ holder' = [holder EXCEPT ![Home(t)] = t]

(* It looks again under the lock, with the time it read before. *)
Recheck(t) ==
    LET entry == cache[Home(t)] IN
    /\ Lock(t)
    /\ IF Usable(entry, now[t])
       THEN /\ pc' = [pc EXCEPT ![t] = "done"]
            /\ token' = [token EXCEPT ![t] = entry]
            /\ UNCHANGED httpVars
       ELSE /\ pc' = [pc EXCEPT ![t] = "minting"]
            /\ tries' = [tries EXCEPT ![t] = 1]
            /\ UNCHANGED <<waited, token>>
    /\ UNCHANGED <<worldVars, cache, now, since, lastPurge>>

(* GitHub issues a token. *)
Issue(t) ==
    /\ pc[t] = "minting"
    /\ pc' = [pc EXCEPT ![t] = "issued"]
    /\ token' = [token EXCEPT ![t] = [epoch |-> epoch, expires |-> clock + Lifetime]]
    /\ UNCHANGED <<httpVars, worldVars, cache, holder, now, since, lastPurge>>

(* What else a request may end in.  A rationed one may say for how long,   *)
(* as a number of seconds (Retry-After) and as a date (X-RateLimit-Reset). *)
Waits == {"none", "short", "long"}
Replies ==
    {[status |-> s, after |-> "none", reset |-> "none"] : s \in {"lost", "gateway", "refused"}}
    \cup [status : {"limited"}, after : Waits, reset : Waits]

(* A timeout or a broken connection; 502, 503 and 504. *)
Transient(r) == r.status \in {"lost", "gateway"}

(* 429, and 403 with nothing remaining: another 403 is a refusal. *)
Limited(r) == r.status = "limited"

(* _compute_wait_seconds *)
WaitOf(r) == IF r.after # "none" THEN r.after ELSE r.reset

(* How github_api_call tells them apart. *)
Outcome(r) ==
    CASE Transient(r) -> "transient"
      [] Limited(r)   -> WaitOf(r)
      [] OTHER        -> "refused"

Outcomes == {Outcome(r) : r \in Replies}

(* Mutant: a try is not counted. *)
RetryUncounted(t, outcome) ==
    /\ outcome = "transient"
    /\ pc[t] \in {"minting", "issued"}
    /\ tries[t] < MaxTries
    /\ pc' = [pc EXCEPT ![t] = "minting"]
    /\ token' = [token EXCEPT ![t] = None]
    /\ UNCHANGED <<httpVars, worldVars, cache, holder, now, since, lastPurge>>

(* The request or the reply is lost, or a gateway answers: after a pause   *)
(* the request is sent again.                                              *)
Retry(t, outcome) ==
    /\ outcome = "transient"
    /\ pc[t] \in {"minting", "issued"}
    /\ tries[t] < MaxTries
    /\ tries' = [tries EXCEPT ![t] = @ + 1]
    /\ pc' = [pc EXCEPT ![t] = "minting"]
    /\ token' = [token EXCEPT ![t] = None]
    /\ UNCHANGED <<waited, worldVars, cache, holder, now, since, lastPurge>>

(* A request that was rationed and could pass soon waits once, and begins  *)
(* anew.                                                                   *)
WaitOut(t, outcome) ==
    /\ outcome = "short"
    /\ ~waited[t]
    /\ pc[t] = "minting"
    /\ waited' = [waited EXCEPT ![t] = TRUE]
    /\ tries' = [tries EXCEPT ![t] = 1]
    /\ UNCHANGED <<worldVars, cache, holder, pc, now, token, since, lastPurge>>

(* The request of the call is over, one way or the other. *)
RequestEnds(t) ==
    /\ tries' = [tries EXCEPT ![t] = 0]
    /\ waited' = [waited EXCEPT ![t] = FALSE]

Store(t) ==
    /\ pc[t] = "issued"
    /\ RequestEnds(t)
    /\ pc' = [pc EXCEPT ![t] = "done"]
    /\ cache' = [cache EXCEPT ![Home(t)] = token[t]]
    /\ UNCHANGED <<worldVars, holder, now, token, since, lastPurge>>

(* GitHub refuses or rations, or the last try is lost: the entry goes. *)
Fail(t, outcome) ==
    /\ \/ pc[t] \in {"minting", "issued"} /\ outcome = "transient" /\ tries[t] = MaxTries
       \/ pc[t] = "minting" /\ outcome \in {"refused", "none", "long"}
       \/ pc[t] = "minting" /\ outcome = "short" /\ waited[t]
    /\ RequestEnds(t)
    /\ pc' = [pc EXCEPT ![t] = "done"]
    /\ cache' = [cache EXCEPT ![Home(t)] = None]
    /\ token' = [token EXCEPT ![t] = None]
    /\ UNCHANGED <<worldVars, holder, now, since, lastPurge>>

(* The audit is done, the async with ends, the call returns or raises. *)
Release(t) ==
    /\ pc[t] = "done"
    /\ pc' = [pc EXCEPT ![t] = "idle"]
    /\ token' = [token EXCEPT ![t] = None]
    /\ holder' = [holder EXCEPT ![Home(t)] = None]
    /\ UNCHANGED <<httpVars, worldVars, cache, now, since, lastPurge>>

(* The job that makes the call is cancelled at an await. *)
Cancel(t) ==
    /\ pc[t] # "idle"
    /\ RequestEnds(t)
    /\ pc' = [pc EXCEPT ![t] = "idle"]
    /\ token' = [token EXCEPT ![t] = None]
    /\ holder' = [holder EXCEPT ![Home(t)] = IF @ = t THEN None ELSE @]
    /\ UNCHANGED <<worldVars, cache, now, since, lastPurge>>

-----------------------------------------------------------------------------
(* invalidate_installation_token.                                          *)

(* The webhook of the latest revocation has arrived. *)
BeginPurge(t) ==
    /\ pc[t] = "idle"
    /\ pc' = [pc EXCEPT ![t] = "waiting"]
    /\ since' = [since EXCEPT ![t] = epoch]
    /\ UNCHANGED <<httpVars, worldVars, cache, holder, now, token, lastPurge>>

LaterOf(m, n) == IF m < n THEN n ELSE m

(* The entry is dropped under the lock. *)
Drop(t) ==
    /\ Lock(t)
    /\ pc' = [pc EXCEPT ![t] = "done"]
    /\ cache' = [cache EXCEPT ![Home(t)] = None]
    /\ lastPurge' = [lastPurge EXCEPT ![Home(t)] = LaterOf(@, since[t])]
    /\ UNCHANGED <<httpVars, worldVars, now, token, since>>

-----------------------------------------------------------------------------
(* The world.  A call ends within Leeway: the token it decided to use at   *)
(* the time it read is given out no later than that.                       *)

Tick ==
    /\ clock < MaxClock
    /\ \A t \in GetTasks : pc[t] # "idle" => clock < now[t] + Leeway
    /\ clock' = clock + 1
    /\ UNCHANGED <<httpVars, epoch, cache, holder, pc, now, token, since, lastPurge>>

(* GitHub suspends or deletes the installation. *)
Revoke ==
    /\ epoch < MaxEpoch
    /\ epoch' = epoch + 1
    /\ UNCHANGED <<httpVars, clock, cache, holder, pc, now, token, since, lastPurge>>

(* A process restarts: its cache, its lock and its tasks are gone. *)
Restart(p) ==
    /\ cache' = [cache EXCEPT ![p] = None]
    /\ holder' = [holder EXCEPT ![p] = None]
    /\ pc' = [t \in Tasks |-> IF Home(t) = p THEN "idle" ELSE pc[t]]
    /\ token' = [t \in Tasks |-> IF Home(t) = p THEN None ELSE token[t]]
    /\ tries' = [t \in Tasks |-> IF Home(t) = p THEN 0 ELSE tries[t]]
    /\ waited' = [t \in Tasks |-> Home(t) # p /\ waited[t]]
    /\ UNCHANGED <<worldVars, now, since, lastPurge>>

-----------------------------------------------------------------------------
(* A try ends without a token. *)
EndTry(t) ==
    \E outcome \in Outcomes :
        Retry(t, outcome) \/ WaitOut(t, outcome) \/ Fail(t, outcome)

GetStep(t) ==
    \/ Get(t) \/ ReturnHit(t)
    \/ Recheck(t) \/ Issue(t) \/ Store(t)
    \/ EndTry(t)
    \/ Release(t)
    \/ Cancel(t)

PurgeStep(t) == BeginPurge(t) \/ Drop(t) \/ Release(t)

TokenNext ==
    \/ \E t \in GetTasks : GetStep(t)
    \/ \E t \in PurgeTasks : PurgeStep(t)
    \/ Tick
    \/ Revoke
    \/ \E p \in Procs : Restart(p)

TokenSpec == TokenInit /\ [][TokenNext]_tokenVars

(* asyncio.Lock wakes its waiters in turn, a request to GitHub ends one    *)
(* way or the other within its timeout, and an awaited audit returns.      *)
Fairness ==
    /\ \A t \in GetTasks : SF_tokenVars(Recheck(t)) /\ WF_tokenVars(ReturnHit(t))
    /\ \A t \in GetTasks : WF_tokenVars(Issue(t) \/ Store(t) \/ EndTry(t))
    /\ \A t \in PurgeTasks : SF_tokenVars(Drop(t))
    /\ \A t \in Tasks : WF_tokenVars(Release(t))

FairTokenSpec == TokenSpec /\ Fairness

-----------------------------------------------------------------------------
(* Safety.                                                                 *)

(* One request per process is out: a crowd of calls that miss does not     *)
(* become a crowd of requests to GitHub.                                   *)
SingleFlight ==
    \A s, t \in GetTasks :
        /\ Home(s) = Home(t)
        /\ {pc[s], pc[t]} \subseteq {"minting", "issued"}
        => s = t

(* Once a purge has dropped the entry, no token from before the revocation *)
(* it follows comes back into the cache of the process, not even from a    *)
(* request that was out when the purge began.  Only of this process: the   *)
(* webhook purges the processes of Api, and a standalone worker goes on    *)
(* with its own entry.                                                     *)
NoStaleWrite ==
    \A p \in Procs : cache[p] # None => cache[p].epoch >= lastPurge[p]

(* A call that begins after a purge is not given a token the purge dropped. *)
NoStaleToken ==
    \A t \in GetTasks : token[t] # None => token[t].epoch >= since[t]

(* A token is still accepted by GitHub when it is given out, unless it was *)
(* revoked.                                                                *)
NotExpired ==
    \A t \in GetTasks : token[t] # None => clock < token[t].expires

(* What a caller is given is worth using: not from before a revocation     *)
(* that was over when the call began, and not past its time.               *)
GivenTokenIsGood == NoStaleToken /\ NotExpired

(* A token that is good for longer than the leeway is not replaced. *)
LiveTokenKept ==
    [][\A p \in Procs :
          /\ cache[p] # None
          /\ cache'[p] \notin {None, cache[p]}
          => cache[p].expires <= clock + Leeway]_tokenVars

-----------------------------------------------------------------------------
(* Liveness.                                                               *)

(* Every call and every purge that queues for the lock gets out. *)
CallsEnd == \A t \in Tasks : pc[t] = "waiting" ~> pc[t] = "idle"
=============================================================================
