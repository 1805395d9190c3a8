---------------------------- MODULE GitHub_proofs ----------------------------
(* Proofs about what the server shares with GitHub.                        *)
(*                                                                         *)
(* The token cache (InstallationTokens): the lock, what a purge promises,  *)
(* and the lifetime of the tokens that are given out.                      *)
(*                                                                         *)
(* The webhook (WebhookDelivery): what an answer promises in every         *)
(* interleaving, and what the ledger is worth as long as requests do not   *)
(* overlap: a post again changes nothing, and the row says what the ledger *)
(* says.                                                                   *)
EXTENDS InstallationTokens, WebhookDelivery, FiniteSetTheorems, TLAPS

-----------------------------------------------------------------------------
(* The token cache.                                                        *)

(* The tasks between their turn for the lock and the end of the async with *)
(* are the holders of the lock.                                            *)
LockInv == \A t \in Tasks : pc[t] \in Critical => holder[Home(t)] = t

(* A revocation is purged after it happened, and a call began after the    *)
(* purge it remembers.                                                     *)
PurgeInv ==
    /\ \A p \in Procs : lastPurge[p] <= epoch
    /\ \A t \in PurgeTasks : since[t] <= epoch
    /\ \A t \in GetTasks : since[t] <= lastPurge[Home(t)]

(* What a call has in hand, and how old the time is that it goes by. *)
HandInv ==
    \A t \in GetTasks :
        /\ pc[t] # "idle" => now[t] <= clock /\ clock <= now[t] + Leeway
        /\ pc[t] \in {"idle", "waiting", "minting"} => token[t] = None
        /\ token[t] # None => token[t].epoch >= since[t] /\ now[t] + Leeway < token[t].expires
        /\ pc[t] = "issued" => token[t] # None /\ token[t].epoch >= lastPurge[Home(t)]

(* A call asks GitHub only when the entry is of no use to it, and nobody   *)
(* changes the entry meanwhile.                                            *)
MintInv ==
    \A t \in GetTasks :
        pc[t] \in {"minting", "issued"} /\ cache[Home(t)] # None
            => cache[Home(t)].expires <= now[t] + Leeway

CacheInv == TokenTypeOK /\ LockInv /\ PurgeInv /\ HandInv /\ MintInv /\ NoStaleWrite

-----------------------------------------------------------------------------
(* A task runs in a process, and is a call or a purge but not both. *)
LEMMA TaskFacts ==
    /\ \A t \in Tasks : Home(t) \in Procs
    /\ GetTasks \subseteq Tasks /\ PurgeTasks \subseteq Tasks
    /\ GetTasks \cap PurgeTasks = {}
BY ProcsAssumption, TasksAssumption DEF Tasks, GetTasks, PurgeTasks, Home

LEMMA CacheInvInit == TokenInit => CacheInv
BY TaskFacts, TimesAssumption, TriesAssumption DEF TokenInit, CacheInv, TokenTypeOK, LockInv,
   PurgeInv, HandInv, MintInv,
   NoStaleWrite, States, Critical

(* Every step keeps the invariant. *)
LEMMA CacheInvStep == CacheInv /\ [TokenNext]_tokenVars => CacheInv'
<1> SUFFICES ASSUME CacheInv, [TokenNext]_tokenVars PROVE CacheInv'
  OBVIOUS
<1> USE TaskFacts, TimesAssumption, TriesAssumption, NoneAssumption
<1>t. /\ TokenTypeOK /\ LockInv /\ PurgeInv /\ HandInv /\ MintInv /\ NoStaleWrite
      /\ Leeway \in Nat /\ Lifetime \in Nat /\ clock \in Nat /\ epoch \in Nat
      /\ MaxTries \in Nat /\ 1 \in 0..MaxTries /\ 0 \in 0..MaxTries
  BY DEF CacheInv, TokenTypeOK
<1> USE <1>t
<1>1. ASSUME NEW t \in GetTasks, Get(t) PROVE CacheInv'
  <2>1. TokenTypeOK'
    BY <1>1 DEF Get, Usable, TokenTypeOK, States, worldVars, httpVars
  <2>2. LockInv'
    BY <1>1 DEF Get, TokenTypeOK, LockInv, Critical
  <2>3. PurgeInv'
    BY <1>1 DEF Get, TokenTypeOK, PurgeInv, worldVars, httpVars
  <2>4. HandInv'
    <3>1. cache[Home(t)] # None => cache[Home(t)] \in Tokens
      BY DEF TokenTypeOK
    <3> QED
      BY <1>1, <3>1 DEF Get, Usable, TokenTypeOK, HandInv, NoStaleWrite, worldVars, httpVars, Tokens
  <2>5. MintInv' /\ NoStaleWrite'
    BY <1>1 DEF Get, TokenTypeOK, MintInv, NoStaleWrite
  <2> QED
    BY <2>1, <2>2, <2>3, <2>4, <2>5 DEF CacheInv
<1>2. ASSUME NEW t \in GetTasks, ReturnHit(t) PROVE CacheInv'
  BY <1>2 DEF ReturnHit, CacheInv, TokenTypeOK, LockInv, PurgeInv, HandInv, MintInv, NoStaleWrite,
     States, Critical, worldVars, httpVars
<1>3. ASSUME NEW t \in GetTasks, Recheck(t) PROVE CacheInv'
  <2>1. TokenTypeOK'
    BY <1>3 DEF Recheck, Lock, Usable, TokenTypeOK, States, Critical, worldVars, httpVars
  <2>2. LockInv'
    BY <1>3 DEF Recheck, Lock, TokenTypeOK, LockInv, Critical
  <2>3. PurgeInv' /\ NoStaleWrite'
    BY <1>3 DEF Recheck, PurgeInv, NoStaleWrite, worldVars, httpVars
  <2>4. HandInv'
    <3>1. cache[Home(t)] # None => cache[Home(t)] \in Tokens
      BY DEF TokenTypeOK
    <3> QED
      BY <1>3, <3>1 DEF Recheck, Lock, Usable, TokenTypeOK, HandInv, PurgeInv, NoStaleWrite,
         worldVars, httpVars, Tokens
  <2>5. MintInv'
    <3>1. cache[Home(t)] # None => cache[Home(t)].expires \in Nat
      BY DEF TokenTypeOK, Tokens
    <3> QED
      BY <1>3, <3>1 DEF Recheck, Lock, Usable, TokenTypeOK, MintInv
  <2> QED
    BY <2>1, <2>2, <2>3, <2>4, <2>5 DEF CacheInv
<1>4. ASSUME NEW t \in GetTasks, Issue(t) PROVE CacheInv'
  <2>1. [epoch |-> epoch, expires |-> clock + Lifetime] \in Tokens
    BY DEF TokenTypeOK, Tokens
  <2>2. TokenTypeOK'
    BY <1>4, <2>1 DEF Issue, TokenTypeOK, States, Critical, worldVars, httpVars
  <2>3. LockInv' /\ PurgeInv' /\ MintInv' /\ NoStaleWrite'
    BY <1>4 DEF Issue, TokenTypeOK, LockInv, PurgeInv, MintInv, NoStaleWrite, Critical,
       worldVars, httpVars
  <2>4. HandInv'
    <3>1. now[t] \in Nat /\ now[t] <= clock /\ since[t] <= epoch /\ lastPurge[Home(t)] <= epoch
      BY <1>4 DEF Issue, TokenTypeOK, HandInv, PurgeInv
    <3>2. now[t] + Leeway < clock + Lifetime
      BY <3>1
    <3> QED
      BY <1>4, <2>1, <3>1, <3>2 DEF Issue, TokenTypeOK, HandInv, worldVars, httpVars
  <2> QED
    BY <2>2, <2>3, <2>4 DEF CacheInv
<1>5. ASSUME NEW t \in GetTasks, Store(t) PROVE CacheInv'
  <2>1. TokenTypeOK'
    BY <1>5 DEF Store, RequestEnds, TokenTypeOK, HandInv, States, Critical, worldVars, httpVars
  <2>2. LockInv' /\ PurgeInv' /\ HandInv'
    BY <1>5 DEF Store, RequestEnds, TokenTypeOK, LockInv, PurgeInv, HandInv, Critical, worldVars,
       httpVars
  <2>3. NoStaleWrite'
    BY <1>5 DEF Store, RequestEnds, TokenTypeOK, HandInv, NoStaleWrite
  <2>4. MintInv'
    <3> SUFFICES ASSUME NEW s \in GetTasks, pc'[s] \in {"minting", "issued"},
                        cache'[Home(s)] # None
                 PROVE  cache'[Home(s)].expires <= now'[s] + Leeway
      BY DEF MintInv
    <3>1. s # t /\ pc[s] = pc'[s]
      BY <1>5 DEF Store, RequestEnds, TokenTypeOK
    <3>2. Home(s) # Home(t)
      BY <1>5, <3>1 DEF Store, RequestEnds, LockInv, Critical
    <3> QED
      BY <1>5, <3>1, <3>2 DEF Store, RequestEnds, MintInv
  <2> QED
    BY <2>1, <2>2, <2>3, <2>4 DEF CacheInv
<1>6. ASSUME NEW t \in GetTasks, NEW o \in Outcomes, Fail(t, o) PROVE CacheInv'
  <2>1. TokenTypeOK' /\ LockInv' /\ PurgeInv' /\ HandInv'
    BY <1>6 DEF Fail, RequestEnds, TokenTypeOK, LockInv, PurgeInv, HandInv, States, Critical,
       worldVars, httpVars
  <2>2. MintInv' /\ NoStaleWrite'
    BY <1>6 DEF Fail, RequestEnds, TokenTypeOK, MintInv, NoStaleWrite
  <2> QED
    BY <2>1, <2>2 DEF CacheInv
<1>7. ASSUME NEW t \in Tasks, Release(t) PROVE CacheInv'
  BY <1>7 DEF Release, CacheInv, TokenTypeOK, LockInv, PurgeInv, HandInv, MintInv, NoStaleWrite,
     States, Critical, worldVars, httpVars
<1>8. ASSUME NEW t \in GetTasks, Cancel(t) PROVE CacheInv'
  BY <1>8 DEF Cancel, RequestEnds, CacheInv, TokenTypeOK, LockInv, PurgeInv, HandInv, MintInv,
     NoStaleWrite,
     States, Critical, worldVars, httpVars
<1>9. ASSUME NEW t \in PurgeTasks, BeginPurge(t) PROVE CacheInv'
  BY <1>9 DEF BeginPurge, CacheInv, TokenTypeOK, LockInv, PurgeInv, HandInv, MintInv, NoStaleWrite,
     States, Critical, worldVars, httpVars
<1>10. ASSUME NEW t \in PurgeTasks, Drop(t) PROVE CacheInv'
  <2>1. /\ lastPurge'[Home(t)] \in {lastPurge[Home(t)], since[t]}
        /\ lastPurge'[Home(t)] >= lastPurge[Home(t)]
        /\ \A p \in Procs : p # Home(t) => lastPurge'[p] = lastPurge[p]
        /\ lastPurge' \in [Procs -> 0..MaxEpoch]
    BY <1>10 DEF Drop, LaterOf, TokenTypeOK
  <2>2. \A s \in GetTasks : Home(s) = Home(t) => pc[s] \notin Critical
    BY <1>10 DEF Drop, Lock, LockInv
  <2>3. TokenTypeOK'
    BY <1>10, <2>1 DEF Drop, Lock, TokenTypeOK, States, Critical, worldVars, httpVars
  <2>4. LockInv'
    BY <1>10 DEF Drop, Lock, TokenTypeOK, LockInv, Critical
  <2>5. PurgeInv'
    <3>1. since[t] <= epoch /\ lastPurge[Home(t)] <= epoch
      BY DEF PurgeInv
    <3> QED
      BY <1>10, <2>1, <3>1 DEF Drop, TokenTypeOK, PurgeInv, worldVars, httpVars
  <2>6. HandInv'
    <3> SUFFICES ASSUME NEW s \in GetTasks
                 PROVE  /\ pc'[s] # "idle" => now'[s] <= clock' /\ clock' <= now'[s] + Leeway
                        /\ pc'[s] \in {"idle", "waiting", "minting"} => token'[s] = None
                        /\ token'[s] # None => token'[s].epoch >= since'[s]
                                             /\ now'[s] + Leeway < token'[s].expires
                        /\ pc'[s] = "issued" => token'[s] # None
                                             /\ token'[s].epoch >= lastPurge'[Home(s)]
      BY DEF HandInv
    <3>1. s # t /\ pc'[s] = pc[s]
      BY <1>10 DEF Drop, TokenTypeOK
    <3>2. UNCHANGED <<clock, epoch, now, token, since>>
      BY <1>10 DEF Drop, worldVars, httpVars
    <3>3. pc[s] = "issued" => lastPurge'[Home(s)] = lastPurge[Home(s)]
      BY <2>1, <2>2 DEF Critical
    <3> QED
      BY <3>1, <3>2, <3>3 DEF HandInv
  <2>7. MintInv' /\ NoStaleWrite'
    BY <1>10, <2>1 DEF Drop, TokenTypeOK, MintInv, NoStaleWrite
  <2> QED
    BY <2>3, <2>4, <2>5, <2>6, <2>7 DEF CacheInv
<1>11. CASE Tick
  <2>1. TokenTypeOK' /\ LockInv' /\ PurgeInv' /\ MintInv' /\ NoStaleWrite'
    BY <1>11 DEF Tick, httpVars, TokenTypeOK, LockInv, PurgeInv, MintInv, NoStaleWrite
  <2>2. HandInv'
    BY <1>11 DEF Tick, TokenTypeOK, HandInv
  <2> QED
    BY <2>1, <2>2 DEF CacheInv
<1>12. CASE Revoke
  <2>1. TokenTypeOK' /\ LockInv' /\ HandInv' /\ MintInv' /\ NoStaleWrite'
    BY <1>12 DEF Revoke, httpVars, TokenTypeOK, LockInv, HandInv, MintInv, NoStaleWrite
  <2>2. PurgeInv'
    BY <1>12 DEF Revoke, TokenTypeOK, PurgeInv
  <2> QED
    BY <2>1, <2>2 DEF CacheInv
<1>13. ASSUME NEW p \in Procs, Restart(p) PROVE CacheInv'
  BY <1>13 DEF Restart, CacheInv, TokenTypeOK, LockInv, PurgeInv, HandInv, MintInv, NoStaleWrite,
     States, Critical, worldVars, httpVars
<1>14. ASSUME NEW t \in GetTasks, NEW o \in Outcomes, Retry(t, o) PROVE CacheInv'
  <2>1. TokenTypeOK'
    BY <1>14 DEF Retry, TokenTypeOK, States, Critical, worldVars
  <2>2. LockInv' /\ PurgeInv' /\ HandInv' /\ MintInv' /\ NoStaleWrite'
    BY <1>14 DEF Retry, TokenTypeOK, LockInv, PurgeInv, HandInv, MintInv, NoStaleWrite, Critical,
       worldVars
  <2> QED
    BY <2>1, <2>2 DEF CacheInv
<1>15. ASSUME NEW t \in GetTasks, NEW o \in Outcomes, WaitOut(t, o) PROVE CacheInv'
  <2>1. TokenTypeOK'
    BY <1>15 DEF WaitOut, TokenTypeOK, worldVars
  <2>2. LockInv' /\ PurgeInv' /\ HandInv' /\ MintInv' /\ NoStaleWrite'
    BY <1>15 DEF WaitOut, LockInv, PurgeInv, HandInv, MintInv, NoStaleWrite, worldVars
  <2> QED
    BY <2>1, <2>2 DEF CacheInv
<1>16. CASE UNCHANGED tokenVars
  BY <1>16 DEF tokenVars, worldVars, httpVars, CacheInv, TokenTypeOK, LockInv, PurgeInv, HandInv,
     MintInv, NoStaleWrite
<1> QED
  BY <1>1, <1>2, <1>3, <1>4, <1>5, <1>6, <1>7, <1>8, <1>9, <1>10, <1>11, <1>12, <1>13, <1>14,
     <1>15, <1>16
     DEF TokenNext, GetStep, EndTry, PurgeStep

-----------------------------------------------------------------------------
(* The types of the token cache. *)
THEOREM TokensTypeCorrect == TokenSpec => []TokenTypeOK
<1>1. CacheInv => TokenTypeOK
  BY DEF CacheInv
<1> QED
  BY <1>1, CacheInvInit, CacheInvStep, PTL DEF TokenSpec

(* A process has one request for a token of the installation out. *)
THEOREM OneRequest == TokenSpec => []SingleFlight
<1>1. CacheInv => SingleFlight
  BY TaskFacts DEF CacheInv, LockInv, SingleFlight, Critical
<1> QED
  BY <1>1, CacheInvInit, CacheInvStep, PTL DEF TokenSpec

(* The stale write cannot happen: what a purge dropped stays out. *)
THEOREM PurgeHolds == TokenSpec => []NoStaleWrite
<1>1. CacheInv => NoStaleWrite
  BY DEF CacheInv
<1> QED
  BY <1>1, CacheInvInit, CacheInvStep, PTL DEF TokenSpec

(* A call that begins after a purge gets a token from after the revocation. *)
THEOREM CallsSeePurge == TokenSpec => []NoStaleToken
<1>1. CacheInv => NoStaleToken
  BY DEF CacheInv, HandInv, NoStaleToken
<1> QED
  BY <1>1, CacheInvInit, CacheInvStep, PTL DEF TokenSpec

(* The time a call goes by may be old, the token it gives out is not: the  *)
(* leeway covers the wait for the lock.                                    *)
THEOREM TokensLive == TokenSpec => []NotExpired
<1>1. CacheInv => NotExpired
  <2> SUFFICES ASSUME CacheInv, NEW t \in GetTasks, token[t] # None
               PROVE  clock < token[t].expires
    BY DEF NotExpired
  <2>1. clock \in Nat /\ now[t] \in Nat /\ token[t].expires \in Nat /\ Leeway \in Nat
    BY TaskFacts, TimesAssumption DEF CacheInv, TokenTypeOK, Tokens
  <2> QED
    BY <2>1 DEF CacheInv, HandInv
<1> QED
  BY <1>1, CacheInvInit, CacheInvStep, PTL DEF TokenSpec

(* Whatever a caller is given is worth using. *)
THEOREM GivenTokensAreGood == TokenSpec => []GivenTokenIsGood
<1>1. NoStaleToken /\ NotExpired => GivenTokenIsGood
  BY DEF GivenTokenIsGood
<1> QED
  BY <1>1, CallsSeePurge, TokensLive, PTL

(* Nobody asks for a token to replace one that is still good. *)
THEOREM GoodTokensStay == TokenSpec => LiveTokenKept
<1>1. CacheInv /\ [TokenNext]_tokenVars =>
        [\A p \in Procs :
            /\ cache[p] # None
            /\ cache'[p] \notin {None, cache[p]}
            => cache[p].expires <= clock + Leeway]_tokenVars
  <2> SUFFICES ASSUME CacheInv, TokenNext, NEW p \in Procs,
                      cache[p] # None, cache'[p] \notin {None, cache[p]}
               PROVE  cache[p].expires <= clock + Leeway
    OBVIOUS
  <2>1. PICK t \in GetTasks : Store(t)
    <3>1. cache' # cache /\ ~(\E q \in Procs : cache' = [cache EXCEPT ![q] = None])
      BY DEF CacheInv, TokenTypeOK
    <3> QED
      BY <3>1, TaskFacts DEF TokenNext, GetStep, EndTry, PurgeStep, Get, ReturnHit, Recheck, Issue,
         Retry, WaitOut,
         Fail, Release, Cancel, BeginPurge, Drop, Tick, Revoke, Restart
  <2>2. Home(t) = p
    BY <2>1, TaskFacts DEF Store, RequestEnds, CacheInv, TokenTypeOK
  <2>3. cache[p].expires <= now[t] + Leeway /\ now[t] <= clock
    BY <2>1, <2>2 DEF Store, RequestEnds, CacheInv, MintInv, HandInv
  <2> QED
    BY <2>3, TaskFacts, TimesAssumption DEF CacheInv, TokenTypeOK, Tokens
<1> QED
  BY <1>1, CacheInvInit, CacheInvStep, PTL DEF TokenSpec, LiveTokenKept

-----------------------------------------------------------------------------
(* The webhook.                                                            *)

DeliveryInv == TypeOK /\ AckedIsRecorded

(* A request is a post of a delivery, whose event is of a known kind. *)
LEMMA RequestFacts ==
    event \in [Deliveries -> Kinds] => \A r \in Requests : r[1] \in Deliveries /\ What(r) \in EventKinds
BY KindsAssumption DEF Requests, What

(* The invariant holds at the beginning. *)
LEMMA DeliveryInvInit == Init => DeliveryInv
BY BoundsAssumption, RequestFacts DEF Init, DeliveryInv, TypeOK, AckedIsRecorded, Stages, Acked, Closed

(* Every step keeps the invariant: the ledger only grows, and the answer   *)
(* 200 is given when the row is there.                                     *)
LEMMA DeliveryInvStep == DeliveryInv /\ [Next]_vars => DeliveryInv'
<1> SUFFICES ASSUME DeliveryInv, [Next]_vars PROVE DeliveryInv'
  OBVIOUS
<1> USE RequestFacts, BoundsAssumption
    DEF DeliveryInv, TypeOK, AckedIsRecorded, Stages, Acked, Closed, rowVars, hazards, Move, What
<1>1. ASSUME NEW r \in Requests, Post(r) PROVE DeliveryInv'
  BY <1>1 DEF Post
<1>2. ASSUME NEW r \in Requests, Check(r) PROVE DeliveryInv'
  BY <1>2 DEF Check, AfterCheck
<1>3. ASSUME NEW r \in Requests, Create(r) PROVE DeliveryInv'
  BY <1>3 DEF Create
<1>4. ASSUME NEW r \in Requests, UpdateStatus(r) PROVE DeliveryInv'
  BY <1>4 DEF UpdateStatus, StatusAfter, Lifecycle
<1>5. ASSUME NEW r \in Requests, Purge(r) PROVE DeliveryInv'
  BY <1>5 DEF Purge
<1>6. ASSUME NEW r \in Requests, ReadCount(r) PROVE DeliveryInv'
  BY <1>6 DEF ReadCount
<1>7. ASSUME NEW r \in Requests, WriteCount(r) PROVE DeliveryInv'
  BY <1>7 DEF WriteCount, Bumped, AfterCount
<1>8. ASSUME NEW r \in Requests, SetName(r) PROVE DeliveryInv'
  BY <1>8 DEF SetName
<1>9. ASSUME NEW r \in Requests, Record(r) PROVE DeliveryInv'
  BY <1>9 DEF Record
<1>10. ASSUME NEW r \in Requests, Fault(r) PROVE DeliveryInv'
  BY <1>10 DEF Fault, AfterFault, AfterCount
<1>11. CASE Crash
  BY <1>11 DEF Crash, Open
<1>12. CASE UNCHANGED vars
  BY <1>12 DEF vars, hazards
<1> QED
  BY <1>1, <1>2, <1>3, <1>4, <1>5, <1>6, <1>7, <1>8, <1>9, <1>10, <1>11, <1>12 DEF Next, Handle

(* TypeOK of every run: the counters and the stages have their types, and  *)
(* _bump_repo_count keeps the count at 0 or above.                         *)
THEOREM WebhookTypeCorrect == Spec => []TypeOK
<1>1. DeliveryInv => TypeOK
  BY DEF DeliveryInv
<1> QED
  BY DeliveryInvInit, DeliveryInvStep, <1>1, PTL DEF Spec

(* process_webhook answers 200 only when the ledger has the delivery, with *)
(* any number of overlapping posts, failing queries and restarts.          *)
THEOREM AnswersAreRecorded == Spec => []AckedIsRecorded
<1>1. DeliveryInv => AckedIsRecorded
  BY DEF DeliveryInv
<1> QED
  BY DeliveryInvInit, DeliveryInvStep, <1>1, PTL DEF Spec

-----------------------------------------------------------------------------
(* The way of a request through its handler: the stages that only some     *)
(* events reach, and the purge that comes before the rest of a deletion.   *)
WayInv ==
    /\ DeliveryInv
    /\ \A r \in Requests :
          /\ stage[r] = "counting" => What(r) \in Counting
          /\ stage[r] = "marking" => What(r) = "removed"
          /\ stage[r] \in {"purging", "cleaning"} => What(r) \in Lifecycle
          /\ faults = 0 /\ stage[r] \in {"cleaning", "recording", "done"} /\ What(r) \in Lifecycle
                => r[1] \in purged

(* Every step keeps the way; one that fails only the kinds of stages. *)
LEMMA WayInvStep == WayInv /\ [Next]_vars => WayInv'
<1> SUFFICES ASSUME WayInv, [Next]_vars PROVE WayInv'
  OBVIOUS
<1>d. DeliveryInv'
  BY DeliveryInvStep DEF WayInv
<1>t. stage \in [Requests -> Stages] /\ purged \subseteq Deliveries /\ faults \in Nat
      /\ event \in [Deliveries -> Kinds]
  BY BoundsAssumption DEF WayInv, DeliveryInv, TypeOK
<1> USE RequestFacts, <1>d, <1>t DEF WayInv, Move, Lifecycle, Counting, Naming, What, hazards
<1>1. ASSUME NEW r \in Requests, Post(r) PROVE WayInv'
  BY <1>1 DEF Post
<1>2. ASSUME NEW r \in Requests, Check(r) PROVE WayInv'
  BY <1>2 DEF Check, AfterCheck
<1>3. ASSUME NEW r \in Requests, Create(r) PROVE WayInv'
  BY <1>3 DEF Create
<1>4. ASSUME NEW r \in Requests, UpdateStatus(r) PROVE WayInv'
  BY <1>4 DEF UpdateStatus
<1>5. ASSUME NEW r \in Requests, Purge(r) PROVE WayInv'
  BY <1>5 DEF Purge
<1>6. ASSUME NEW r \in Requests, ReadCount(r) PROVE WayInv'
  BY <1>6 DEF ReadCount
<1>7. ASSUME NEW r \in Requests, WriteCount(r) PROVE WayInv'
  BY <1>7 DEF WriteCount, AfterCount
<1>8. ASSUME NEW r \in Requests, SetName(r) PROVE WayInv'
  BY <1>8 DEF SetName
<1>9. ASSUME NEW r \in Requests, Record(r) PROVE WayInv'
  BY <1>9 DEF Record
<1>10. ASSUME NEW r \in Requests, Fault(r) PROVE WayInv'
  BY <1>10 DEF Fault, AfterFault, AfterCount
<1>11. CASE Crash
  BY <1>11 DEF Crash, Open
<1>12. CASE UNCHANGED vars
  BY <1>12 DEF vars, hazards
<1> QED
  BY <1>1, <1>2, <1>3, <1>4, <1>5, <1>6, <1>7, <1>8, <1>9, <1>10, <1>11, <1>12 DEF Next, Handle

(* A suspension, its end or a deletion that is acknowledged has purged the *)
(* cached token as long as no query has failed, however the requests       *)
(* interleave and the server restarts.  A query that fails breaks it: the  *)
(* handler is skipped and the delivery is recorded all the same.           *)
THEOREM AnswersArePurged == Spec => []AckedIsPurged
<1>1. Init => WayInv
  BY DeliveryInvInit DEF Init, WayInv
<1>2. WayInv => AckedIsPurged
  BY DEF WayInv, AckedIsPurged
<1>3. WayInv /\ [Next]_vars => WayInv'
  BY WayInvStep
<1> QED
  BY <1>1, <1>2, <1>3, PTL DEF Spec

(* The answer 200 keeps both promises. *)
THEOREM AnswersAreHonest == Spec => []AckIsHonest
<1>1. AckedIsRecorded /\ AckedIsPurged => AckIsHonest
  BY DEF AckIsHonest
<1> QED
  BY <1>1, AnswersAreRecorded, AnswersArePurged, PTL

-----------------------------------------------------------------------------
(* One request at a time: what is beyond the check has no row in the       *)
(* ledger, and a count that has been changed is on its way to one.         *)
Beyond == Stages \ (Closed \cup {"unsent", "checking"})

SerialInv ==
    /\ DeliveryInv
    /\ Undisturbed =>
          /\ \A r, s \in Open : r = s
          /\ \A r \in Requests : stage[r] \in Beyond => r[1] \notin ledger
          /\ \A d \in Deliveries : applied[d] > 0 =>
                \/ d \in ledger
                \/ \E r \in Requests : r[1] = d /\ stage[r] \in {"marking", "recording"}
          /\ AppliedOnce

(* Every step of one request at a time keeps it.  The cases that matter:   *)
(* WriteCount finds no row and, being the only open request, no change;    *)
(* Record writes the row of the one request that is beyond the check.      *)
LEMMA SerialInvStep == SerialInv /\ [Next]_vars => SerialInv'
<1> SUFFICES ASSUME SerialInv, [Next]_vars PROVE SerialInv'
  OBVIOUS
<1>d. DeliveryInv'
  BY DeliveryInvStep DEF SerialInv
<1>t. /\ stage \in [Requests -> Stages] /\ ledger \subseteq Deliveries /\ applied \in [Deliveries -> Nat]
      /\ event \in [Deliveries -> Kinds] /\ faults \in Nat /\ crashes \in Nat
  BY BoundsAssumption DEF SerialInv, DeliveryInv, TypeOK
<1> USE RequestFacts, <1>d, <1>t DEF SerialInv, Move, AppliedOnce, Undisturbed, hazards, What
<1>1. ASSUME NEW r \in Requests, Post(r) PROVE SerialInv'
  <2>1. Undisturbed' => Undisturbed /\ Open = {}
    BY <1>1 DEF Post
  <2> QED
    BY <1>1, <2>1 DEF Post, Open, Beyond, Closed, Acked
<1>2. ASSUME NEW r \in Requests, Check(r) PROVE SerialInv'
  BY <1>2 DEF Check, AfterCheck, Open, Beyond, Stages, Closed, Acked
<1>3. ASSUME NEW r \in Requests, Create(r) PROVE SerialInv'
  BY <1>3 DEF Create, Open, Beyond, Stages, Closed, Acked
<1>4. ASSUME NEW r \in Requests, UpdateStatus(r) PROVE SerialInv'
  BY <1>4 DEF UpdateStatus, Open, Beyond, Stages, Closed, Acked
<1>5. ASSUME NEW r \in Requests, Purge(r) PROVE SerialInv'
  BY <1>5 DEF Purge, Open, Beyond, Stages, Closed, Acked
<1>6. ASSUME NEW r \in Requests, ReadCount(r) PROVE SerialInv'
  BY <1>6 DEF ReadCount, Open, Beyond, Stages, Closed, Acked
<1>7. ASSUME NEW r \in Requests, WriteCount(r) PROVE SerialInv'
  <2>1. r \in Open /\ stage[r] \in Beyond
    BY <1>7 DEF WriteCount, Open, Beyond, Stages, Closed, Acked
  <2>2. Undisturbed => applied[r[1]] = 0
    <3> SUFFICES ASSUME Undisturbed PROVE ~(applied[r[1]] > 0)
      OBVIOUS
    <3>1. r[1] \notin ledger
      BY <2>1
    <3>2. ASSUME NEW s \in Requests, stage[s] \in {"marking", "recording"} PROVE FALSE
      <4>1. s \in Open
        BY <3>2 DEF Open, Closed, Acked
      <4> QED
        BY <1>7, <2>1, <3>2, <4>1 DEF WriteCount
    <3> QED
      BY <3>1, <3>2
  <2> QED
    BY <1>7, <2>1, <2>2 DEF WriteCount, AfterCount, Open, Beyond, Stages, Closed, Acked
<1>8. ASSUME NEW r \in Requests, SetName(r) PROVE SerialInv'
  BY <1>8 DEF SetName, Open, Beyond, Stages, Closed, Acked
<1>9. ASSUME NEW r \in Requests, Record(r) PROVE SerialInv'
  <2>1. r \in Open
    BY <1>9 DEF Record, Open, Closed, Acked
  <2>2. Undisturbed => \A s \in Requests : stage[s] \in Beyond => s = r
    BY <2>1 DEF Open, Beyond
  <2> QED
    BY <1>9, <2>2 DEF Record, Open, Beyond, Stages, Closed, Acked
<1>10. ASSUME NEW r \in Requests, Fault(r) PROVE SerialInv'
  BY <1>10 DEF Fault
<1>11. CASE Crash
  BY <1>11 DEF Crash
<1>12. CASE UNCHANGED vars
  BY <1>12 DEF vars, hazards, rowVars, Open, Beyond
<1> QED
  BY <1>1, <1>2, <1>3, <1>4, <1>5, <1>6, <1>7, <1>8, <1>9, <1>10, <1>11, <1>12 DEF Next, Handle

(* Replay protection does what it promises as long as GitHub has one       *)
(* request out at a time and no query or server fails: a delivery that is  *)
(* posted again does not change the count again.  With two open requests   *)
(* it does, and so it does with a restart before                           *)
(* _record_delivery.                                                       *)
THEOREM SerialReplaysAreSkipped == Spec => []ReplaySkipped
<1>1. Init => SerialInv
  BY DeliveryInvInit DEF Init, SerialInv, Open, Beyond, AppliedOnce
<1>2. SerialInv => ReplaySkipped
  BY DEF SerialInv, ReplaySkipped
<1>3. SerialInv /\ [Next]_vars => SerialInv'
  BY SerialInvStep
<1> QED
  BY <1>1, <1>2, <1>3, PTL DEF Spec
-----------------------------------------------------------------------------
(* What the row owes to the deliveries, the one in progress included: those *)
(* that have changed the count, and those that have changed the status.    *)
Counted(kind) == {d \in Deliveries : event[d] = kind /\ applied[d] > 0}

Told == {d \in Deliveries :
            /\ event[d] \in Lifecycle
            /\ \/ d \in ledger
               \/ \E r \in Requests : r[1] = d /\ stage[r] \in {"purging", "cleaning", "recording"}}

(* No request has failed, the deliveries are posted in their order, and so *)
(* they are recorded in it.                                                *)
InOrder ==
    /\ \A r \in Requests : stage[r] \notin {"failed", "lost"}
    /\ \A r \in Requests : stage[r] # "unsent" =>
          \A d \in Deliveries : d < r[1] => stage[<<d, 1>>] # "unsent"
    /\ \A d \in ledger, e \in Deliveries : e < d => e \in ledger

(* The count a request has read is still there, a delivery that is about   *)
(* to be recorded is in the count, and the count is the sum.               *)
CountAddsUp ==
    /\ \A r \in Requests : stage[r] = "counting" => seen[r] = count \/ status = "none"
    /\ \A r \in Requests : stage[r] \in {"marking", "recording"} /\ What(r) \in Counting =>
          applied[r[1]] > 0
    /\ \A d \in ledger : event[d] \in Counting => applied[d] > 0
    /\ status # "none" /\ Cardinality(Counted("removed")) <= FirstCount =>
          count + Cardinality(Counted("removed")) = FirstCount + Cardinality(Counted("added"))

StatusIsLast ==
    status # "none" => \A d \in Told : (\A e \in Told : e <= d) => status = StatusAfter(event[d])

RowInv == WayInv /\ SerialInv /\ (Undisturbed => InOrder /\ CountAddsUp /\ StatusIsLast)

(* What an undisturbed step leaves alone: it was undisturbed before it. *)
LEMMA UndisturbedBefore ==
    TypeOK /\ [Next]_vars /\ Undisturbed' =>
        Undisturbed /\ ~Crash /\ ~(\E r \in Requests : Fault(r))
<1> SUFFICES ASSUME TypeOK, [Next]_vars, Undisturbed'
             PROVE  Undisturbed /\ ~Crash /\ ~(\E r \in Requests : Fault(r))
  OBVIOUS
<1>1. faults \in Nat /\ crashes \in Nat
  BY BoundsAssumption DEF TypeOK
<1>2. faults' = 0 /\ crashes' = 0
  BY DEF Undisturbed
<1>3. ~Crash
  BY <1>1, <1>2 DEF Crash
<1>4. ASSUME NEW r \in Requests PROVE ~Fault(r)
  BY <1>1, <1>2 DEF Fault
<1>5. ASSUME NEW r \in Requests, Post(r) PROVE Undisturbed
  BY <1>5 DEF Post, Undisturbed
<1>6. ASSUME NEW r \in Requests, Handle(r) PROVE Undisturbed
  <2>1. UNCHANGED hazards
    BY <1>6 DEF Handle, Check, Create, UpdateStatus, Purge, ReadCount, WriteCount, SetName, Record
  <2> QED
    BY <2>1, Zenon DEF Undisturbed, hazards
<1>7. ASSUME UNCHANGED vars PROVE Undisturbed
  <2>1. UNCHANGED hazards
    BY <1>7 DEF vars
  <2> QED
    BY <2>1, Zenon DEF Undisturbed, hazards
<1> QED
  BY <1>3, <1>4, <1>5, <1>6, <1>7 DEF Next

(* The one request in progress is the only one a handler step can be about, *)
(* and it has no row in the ledger once it is beyond the check.            *)
LEMMA OneAtATime ==
    ASSUME SerialInv, Undisturbed, NEW r \in Requests, stage[r] \in Stages \ (Closed \cup {"unsent"})
    PROVE  /\ \A s \in Requests : stage[s] \in Stages \ (Closed \cup {"unsent"}) => s = r
           /\ stage[r] # "checking" => r[1] \notin ledger
BY DEF SerialInv, Open, Beyond

LEMMA InOrderStep ==
    ASSUME RowInv, Undisturbed, Undisturbed', [Next]_vars PROVE InOrder'
<1>t. stage \in [Requests -> Stages] /\ ledger \subseteq Deliveries /\ AckedIsRecorded
  BY DEF RowInv, WayInv, DeliveryInv, TypeOK
<1>o. InOrder
  BY DEF RowInv
<1>f. ~Crash /\ ~(\E r \in Requests : Fault(r))
  BY UndisturbedBefore DEF RowInv, WayInv, DeliveryInv
<1>1. ASSUME NEW r \in Requests, Post(r) PROVE InOrder'
  BY <1>1, <1>t, <1>o DEF Post, InOrder, Move, Stages
<1>2. ASSUME NEW r \in Requests, NEW s \in Stages \ {"failed", "lost", "unsent"},
             Move(r, s), stage[r] # "unsent", ledger' = ledger
      PROVE  InOrder'
  BY <1>2, <1>t, <1>o DEF InOrder, Move
<1>3. ASSUME NEW r \in Requests, Record(r) PROVE InOrder'
  <2>1. /\ \A s \in Requests : stage[s] \in Stages \ (Closed \cup {"unsent"}) => s = r
        /\ r[1] \notin ledger
    BY <1>3, OneAtATime DEF RowInv, Record, Stages, Closed, Acked
  <2>2. Move(r, "done") /\ ledger' = ledger \cup {r[1]} /\ stage[r] = "recording"
    BY <1>3, <2>1 DEF Record
  <2>3. ASSUME NEW d \in Deliveries, d < r[1] PROVE d \in ledger
    <3>1. <<d, 1>> \in Requests
      BY BoundsAssumption DEF Requests
    <3>2. stage[<<d, 1>>] # "unsent" /\ <<d, 1>> # r
      <4>1. r[1] \in Nat /\ d \in Nat
        BY DeliveriesAssumption DEF Requests
      <4>2. stage[<<d, 1>>] # "unsent"
        BY <2>2, <2>3, <1>o DEF InOrder
      <4> QED
        BY <4>1, <4>2, <2>3
    <3>3. stage[<<d, 1>>] \in Acked
      BY <2>1, <3>1, <3>2, <1>t, <1>o DEF InOrder, Closed
    <3> QED
      BY <3>1, <3>3, <1>t DEF AckedIsRecorded
  <2>4. \A d \in ledger', e \in Deliveries : e < d => e \in ledger'
    BY <2>2, <2>3, <1>o DEF InOrder
  <2>5. \A q \in Requests : stage'[q] \notin {"failed", "lost"}
    BY <2>2, <1>t, <1>o DEF InOrder, Move
  <2>6. \A q \in Requests : stage'[q] = "unsent" <=> stage[q] = "unsent"
    BY <2>2, <1>t DEF Move
  <2>7. ASSUME NEW q \in Requests, stage'[q] # "unsent", NEW d \in Deliveries, d < q[1]
        PROVE  stage'[<<d, 1>>] # "unsent"
    <3>1. <<d, 1>> \in Requests
      BY BoundsAssumption DEF Requests
    <3> QED
      BY <3>1, <2>6, <2>7, <1>o DEF InOrder
  <2> QED
    BY <2>4, <2>5, <2>7 DEF InOrder
<1>4. ASSUME NEW r \in Requests,
             \/ Check(r) \/ Create(r) \/ UpdateStatus(r) \/ Purge(r)
             \/ ReadCount(r) \/ WriteCount(r) \/ SetName(r)
      PROVE  InOrder'
  <2>1. /\ \E s \in Stages \ {"failed", "lost", "unsent"} : Move(r, s)
        /\ stage[r] # "unsent" /\ ledger' = ledger
    BY <1>4 DEF Check, Create, UpdateStatus, Purge, ReadCount, WriteCount, SetName, AfterCheck,
       AfterCount, Stages, Closed, Acked
  <2> QED
    BY <2>1, <1>2
<1>5. CASE UNCHANGED vars
  BY <1>5, <1>o DEF vars, InOrder
<1> QED
  BY <1>f, <1>1, <1>3, <1>4, <1>5 DEF Next, Handle

(* Finite sets of deliveries can be counted. *)
LEMMA CountedFinite ==
    ASSUME NEW kind
    PROVE  IsFiniteSet(Counted(kind)) /\ Cardinality(Counted(kind)) \in Nat
<1>1. Counted(kind) \subseteq Deliveries
  BY DEF Counted
<1> QED
  BY <1>1, DeliveriesAssumption, FS_Subset, FS_CardinalityType

LEMMA CountAddsUpStep ==
    ASSUME RowInv, Undisturbed, Undisturbed', [Next]_vars PROVE CountAddsUp'
<1>t. /\ stage \in [Requests -> Stages] /\ ledger \subseteq Deliveries
      /\ event \in [Deliveries -> Kinds] /\ applied \in [Deliveries -> Nat]
      /\ seen \in [Requests -> Nat] /\ count \in Nat /\ FirstCount \in Nat
  BY BoundsAssumption DEF RowInv, WayInv, DeliveryInv, TypeOK
<1>c. CountAddsUp
  BY DEF RowInv
<1>w. \A r \in Requests :
        /\ stage[r] = "counting" => What(r) \in Counting
        /\ stage[r] = "marking" => What(r) = "removed"
        /\ stage[r] \in {"purging", "cleaning"} => What(r) \in Lifecycle
  BY DEF RowInv, WayInv
<1>k. \A r \in Requests : r[1] \in Deliveries /\ What(r) \in EventKinds
  BY <1>t, RequestFacts
<1>f. ~Crash /\ ~(\E r \in Requests : Fault(r))
  BY UndisturbedBefore DEF RowInv, WayInv, DeliveryInv
<1>1. ASSUME NEW r \in Requests, NEW s \in Stages, Move(r, s),
             UNCHANGED <<event, ledger, count, applied>>, status' = "none" <=> status = "none",
             \A q \in Requests \ {r} : seen'[q] = seen[q],
             s = "counting" => seen'[r] = count \/ status = "none",
             s \in {"marking", "recording"} /\ What(r) \in Counting => applied[r[1]] > 0
      PROVE  CountAddsUp'
  <2>1. \A kind : Counted(kind)' = Counted(kind)
    BY <1>1 DEF Counted
  <2>2. \A q \in Requests : stage'[q] = IF q = r THEN s ELSE stage[q]
    BY <1>1, <1>t DEF Move
  <2> QED
    BY <1>1, <1>c, <2>1, <2>2 DEF CountAddsUp, What
<1>2. ASSUME NEW r \in Requests,
             Post(r) \/ Check(r) \/ Create(r) \/ UpdateStatus(r) \/ Purge(r) \/ SetName(r)
      PROVE  CountAddsUp'
  <2>1. \E s \in Stages \ {"counting"} : Move(r, s)
            /\ (s \in {"marking", "recording"} /\ What(r) \in Counting => applied[r[1]] > 0)
    <3>1. CASE Post(r)
      BY <3>1 DEF Post, Stages
    <3>2. CASE Check(r)
      BY <3>2 DEF Check, AfterCheck, Stages, Closed, Acked, Counting
    <3>3. CASE Create(r)
      BY <3>3 DEF Create, Stages, Counting
    <3>4. CASE UpdateStatus(r)
      BY <3>4 DEF UpdateStatus, Stages
    <3>5. CASE Purge(r)
      BY <3>5, <1>w DEF Purge, Stages, Counting, Lifecycle
    <3>6. CASE SetName(r)
      BY <3>6, <1>w, <1>c DEF SetName, Stages, Counting, Lifecycle, Naming, CountAddsUp
    <3> QED
      BY <1>2, <3>1, <3>2, <3>3, <3>4, <3>5, <3>6
  <2>2. UNCHANGED <<event, ledger, count, applied, seen>> /\ (status' = "none" <=> status = "none")
    BY <1>2 DEF Post, Check, Create, UpdateStatus, Purge, SetName, rowVars, StatusAfter, Lifecycle
  <2> QED
    BY <2>1, <2>2, <1>1
<1>3. ASSUME NEW r \in Requests, ReadCount(r) PROVE CountAddsUp'
  BY <1>1, <1>3, <1>t DEF ReadCount, Stages, rowVars
<1>4. ASSUME NEW r \in Requests, WriteCount(r) PROVE CountAddsUp'
  <2>1. /\ stage[r] = "counting" /\ What(r) \in Counting
        /\ count' = IF status = "none" THEN count ELSE Bumped(seen[r], What(r))
        /\ applied' = [applied EXCEPT ![r[1]] = @ + 1]
        /\ Move(r, AfterCount(r))
        /\ UNCHANGED <<event, ledger, status, seen>>
    BY <1>4, <1>w DEF WriteCount
  <2>2. /\ \A s \in Requests : stage[s] \in Stages \ (Closed \cup {"unsent"}) => s = r
        /\ r[1] \notin ledger
    BY <2>1, OneAtATime DEF RowInv, Stages, Closed, Acked
  <2>3. applied[r[1]] = 0
    <3>1. ~(applied[r[1]] > 0)
      <4> SUFFICES ASSUME applied[r[1]] > 0 PROVE FALSE
        OBVIOUS
      <4>1. PICK q \in Requests : q[1] = r[1] /\ stage[q] \in {"marking", "recording"}
        BY <2>2, <1>k DEF RowInv, SerialInv
      <4>2. q = r
        BY <4>1, <2>2 DEF Stages, Closed, Acked
      <4> QED
        BY <4>1, <4>2, <2>1
    <3> QED
      BY <3>1, <1>k, <1>t
  <2>4. /\ \A d \in Deliveries : applied'[d] = IF d = r[1] THEN 1 ELSE applied[d]
        /\ \A q \in Requests : stage'[q] = IF q = r THEN AfterCount(r) ELSE stage[q]
    BY <2>1, <2>3, <1>t, <1>k DEF Move
  <2>5. ASSUME NEW q \in Requests, stage'[q] = "counting" PROVE FALSE
    BY <2>2, <2>4, <2>5 DEF AfterCount, Stages, Closed, Acked
  <2>6. ASSUME NEW q \in Requests, stage'[q] \in {"marking", "recording"}, What(q)' \in Counting
        PROVE  applied'[q[1]] > 0
    BY <2>1, <2>4, <2>6, <1>c, <1>k DEF CountAddsUp, What
  <2>7. \A d \in ledger' : event'[d] \in Counting => applied'[d] > 0
    BY <2>1, <2>4, <1>c, <1>t DEF CountAddsUp
  <2>8. status' # "none" /\ Cardinality(Counted("removed")') <= FirstCount =>
          count' + Cardinality(Counted("removed")') = FirstCount + Cardinality(Counted("added")')
    <3>1. ASSUME NEW kind
          PROVE  Cardinality(Counted(kind)') = Cardinality(Counted(kind)) + (IF What(r) = kind THEN 1 ELSE 0)
      <4>1. r[1] \notin Counted(kind)
        BY <2>3 DEF Counted
      <4>2. CASE What(r) = kind
        <5>1. Counted(kind)' = Counted(kind) \cup {r[1]}
          BY <2>1, <2>4, <4>2, <1>k, <1>t DEF Counted, What
        <5> QED
          BY <5>1, <4>1, <4>2, CountedFinite, FS_AddElement
      <4>3. CASE What(r) # kind
        <5>1. Counted(kind)' = Counted(kind)
          BY <2>1, <2>4, <4>3, <1>k, <1>t DEF Counted, What
        <5> QED
          BY <5>1, <4>3, CountedFinite
      <4> QED
        BY <4>2, <4>3
    <3>2. /\ Cardinality(Counted("removed")) \in Nat /\ Cardinality(Counted("added")) \in Nat
      BY CountedFinite
    <3>3. status # "none" => seen[r] = count
      BY <2>1, <1>c DEF CountAddsUp
    <3>4. CASE What(r) = "added"
      BY <2>1, <3>1, <3>2, <3>3, <3>4, <1>c, <1>t DEF CountAddsUp, Bumped
    <3>5. CASE What(r) = "removed"
      BY <2>1, <3>1, <3>2, <3>3, <3>5, <1>c, <1>t DEF CountAddsUp, Bumped
    <3> QED
      BY <2>1, <3>4, <3>5 DEF Counting
  <2> QED
    BY <2>5, <2>6, <2>7, <2>8 DEF CountAddsUp
<1>5. ASSUME NEW r \in Requests, Record(r) PROVE CountAddsUp'
  <2>1. /\ stage[r] = "recording" /\ \E s \in {"failed", "done"} : Move(r, s)
        /\ ledger' = ledger \cup {r[1]}
        /\ UNCHANGED <<event, status, count, applied, seen>>
    BY <1>5 DEF Record, rowVars
  <2>2. \A kind : Counted(kind)' = Counted(kind)
    BY <2>1 DEF Counted
  <2>3. \A q \in Requests : stage'[q] \in {"counting", "marking", "recording"} => stage'[q] = stage[q]
    BY <2>1, <1>t DEF Move
  <2>4. \A d \in ledger' : event'[d] \in Counting => applied'[d] > 0
    BY <2>1, <1>c DEF CountAddsUp, What
  <2> QED
    BY <2>1, <2>2, <2>3, <2>4, <1>c DEF CountAddsUp, What
<1>6. CASE UNCHANGED vars
  <2>1. /\ UNCHANGED <<event, ledger, status, count, applied, seen, stage>>
    BY <1>6 DEF vars, rowVars
  <2>2. \A kind : Counted(kind)' = Counted(kind)
    BY <2>1 DEF Counted
  <2> QED
    BY <2>1, <2>2, <1>c DEF CountAddsUp, What
<1> QED
  BY <1>f, <1>2, <1>3, <1>4, <1>5, <1>6 DEF Next, Handle

LEMMA StatusIsLastStep ==
    ASSUME RowInv, Undisturbed, Undisturbed', [Next]_vars PROVE StatusIsLast'
<1> DEFINE Telling == {"purging", "cleaning", "recording"}
<1>t. /\ stage \in [Requests -> Stages] /\ ledger \subseteq Deliveries
      /\ event \in [Deliveries -> Kinds]
  BY DEF RowInv, WayInv, DeliveryInv, TypeOK
<1>s. StatusIsLast /\ InOrder
  BY DEF RowInv
<1>w. \A r \in Requests :
        /\ stage[r] = "counting" => What(r) \in Counting
        /\ stage[r] = "marking" => What(r) = "removed"
        /\ stage[r] \in {"purging", "cleaning"} => What(r) \in Lifecycle
  BY DEF RowInv, WayInv
<1>k. \A r \in Requests : r[1] \in Deliveries /\ What(r) \in EventKinds
  BY <1>t, RequestFacts
<1>f. ~Crash /\ ~(\E r \in Requests : Fault(r))
  BY UndisturbedBefore DEF RowInv, WayInv, DeliveryInv
<1>1. ASSUME Told' = Told, UNCHANGED <<event, status>> PROVE StatusIsLast'
  BY <1>1, <1>s DEF StatusIsLast
<1>2. ASSUME NEW r \in Requests, NEW s \in Stages, Move(r, s), UNCHANGED <<event, ledger, status>>,
             What(r) \in Lifecycle => (stage[r] \in Telling <=> s \in Telling)
      PROVE  StatusIsLast'
  <2>1. \A q \in Requests : stage'[q] = IF q = r THEN s ELSE stage[q]
    BY <1>2, <1>t DEF Move
  <2>2. ASSUME NEW d \in Deliveries, event[d] \in Lifecycle
        PROVE  (\E q \in Requests : q[1] = d /\ stage'[q] \in Telling)
                  <=> (\E q \in Requests : q[1] = d /\ stage[q] \in Telling)
    BY <1>2, <2>1, <2>2 DEF What
  <2>3. Told' = Told
    BY <1>2, <2>2 DEF Told
  <2> QED
    BY <1>1, <1>2, <2>3
<1>3. ASSUME NEW r \in Requests,
             \/ Post(r) \/ Check(r) \/ Create(r) \/ Purge(r)
             \/ ReadCount(r) \/ WriteCount(r) \/ SetName(r)
      PROVE  StatusIsLast'
  <2>1. UNCHANGED <<event, ledger, status>>
    BY <1>3 DEF Post, Check, Create, Purge, ReadCount, WriteCount, SetName, rowVars
  <2>2. \E s \in Stages : Move(r, s) /\ (What(r) \in Lifecycle => (stage[r] \in Telling <=> s \in Telling))
    <3>1. CASE Post(r)
      BY <3>1 DEF Post, Stages
    <3>2. CASE Check(r)
      BY <3>2 DEF Check, AfterCheck, Stages, Closed, Acked, Lifecycle
    <3>3. CASE Create(r)
      BY <3>3 DEF Create, Stages, Lifecycle
    <3>4. CASE Purge(r)
      BY <3>4 DEF Purge, Stages
    <3>5. CASE ReadCount(r) \/ WriteCount(r)
      BY <3>5, <1>w DEF ReadCount, WriteCount, AfterCount, Stages, Counting, Lifecycle
    <3>6. CASE SetName(r)
      BY <3>6, <1>w DEF SetName, Stages, Lifecycle, Naming
    <3> QED
      BY <1>3, <3>1, <3>2, <3>3, <3>4, <3>5, <3>6
  <2> QED
    BY <2>1, <2>2, <1>2
<1>4. ASSUME NEW r \in Requests, UpdateStatus(r) PROVE StatusIsLast'
  <2>1. /\ stage[r] = "dispatched" /\ What(r) \in Lifecycle
        /\ status' = IF status = "none" THEN "none" ELSE StatusAfter(What(r))
        /\ Move(r, "purging") /\ UNCHANGED <<event, ledger>>
    BY <1>4 DEF UpdateStatus
  <2>2. /\ \A s \in Requests : stage[s] \in Stages \ (Closed \cup {"unsent"}) => s = r
        /\ r[1] \notin ledger
    BY <2>1, OneAtATime DEF RowInv, Stages, Closed, Acked
  <2>3. \A q \in Requests : stage'[q] = IF q = r THEN "purging" ELSE stage[q]
    BY <2>1, <1>t DEF Move
  <2>4. r[1] \in Told'
    BY <2>1, <2>3, <1>k DEF Told, What
  <2>5. ASSUME NEW d \in Told' PROVE d = r[1] \/ d \in ledger
    BY <2>1, <2>2, <2>3 DEF Told, Stages, Closed, Acked
  <2>6. ASSUME NEW d \in ledger PROVE d \in Nat /\ ~(r[1] < d)
    BY <2>2, <1>s, <1>t, <1>k, DeliveriesAssumption DEF InOrder
  <2>7. ASSUME NEW d \in Told', \A e \in Told' : e <= d PROVE d = r[1]
    <3>1. r[1] <= d /\ r[1] \in Nat
      BY <2>4, <2>7, <1>k, DeliveriesAssumption
    <3>2. CASE d \in ledger
      BY <3>1, <3>2, <2>6
    <3> QED
      BY <3>2, <2>5
  <2> QED
    BY <2>1, <2>7 DEF StatusIsLast, What
<1>5. ASSUME NEW r \in Requests, Record(r) PROVE StatusIsLast'
  <2>1. /\ stage[r] = "recording" /\ \E s \in {"failed", "done"} : Move(r, s)
        /\ ledger' = ledger \cup {r[1]}
        /\ UNCHANGED <<event, status>>
    BY <1>5 DEF Record, rowVars
  <2>2. \A q \in Requests : stage'[q] = stage[q] \/ (q = r /\ stage'[q] \notin Telling)
    <3>1. PICK s \in {"failed", "done"} : stage' = [stage EXCEPT ![r] = s]
      BY <2>1 DEF Move
    <3>2. \A q \in Requests : stage'[q] = IF q = r THEN s ELSE stage[q]
      BY <3>1, <1>t
    <3> QED
      BY <3>1, <3>2
  <2>3. Told' = Told
    BY <2>1, <2>2, <1>k DEF Told
  <2> QED
    BY <1>1, <2>1, <2>3
<1>6. CASE UNCHANGED vars
  <2>1. UNCHANGED <<event, ledger, status, stage>>
    BY <1>6 DEF vars, rowVars
  <2>2. Told' = Told
    BY <2>1 DEF Told
  <2> QED
    BY <1>1, <2>1, <2>2
<1> QED
  BY <1>f, <1>3, <1>4, <1>5, <1>6 DEF Next, Handle

(* As long as nothing fails and GitHub has one request out at a time, the  *)
(* row of an installation says, between two requests, what the recorded    *)
(* deliveries say: posts again of old events, and events of rows that are  *)
(* not there, change nothing.                                              *)
THEOREM RowAlwaysFollowsLedger == Spec => []RowFollowsLedger
<1>1. Init => RowInv
  <2> SUFFICES ASSUME Init PROVE RowInv
    OBVIOUS
  <2>1. WayInv /\ SerialInv
    BY DeliveryInvInit DEF Init, WayInv, SerialInv, Open, Beyond, AppliedOnce
  <2>2. InOrder /\ StatusIsLast
    BY DEF Init, InOrder, StatusIsLast, Told
  <2>3. \A kind : Counted(kind) = {}
    BY DEF Init, Counted
  <2>4. CountAddsUp
    BY <2>3, FS_EmptySet, BoundsAssumption DEF Init, CountAddsUp
  <2> QED
    BY <2>1, <2>2, <2>4 DEF RowInv
<1>2. RowInv /\ [Next]_vars => RowInv'
  BY WayInvStep, SerialInvStep, UndisturbedBefore, InOrderStep, CountAddsUpStep, StatusIsLastStep
  DEF RowInv, WayInv, DeliveryInv
<1>3. RowInv => RowFollowsLedger
  <2> SUFFICES ASSUME RowInv, Undisturbed, Open = {}, status # "none"
               PROVE  /\ Cardinality(Recorded({"removed"})) <= FirstCount =>
                           count + Cardinality(Recorded({"removed"}))
                             = FirstCount + Cardinality(Recorded({"added"}))
                      /\ \A d \in Recorded(Lifecycle) :
                            (\A e \in Recorded(Lifecycle) : e <= d) => status = StatusAfter(event[d])
    BY DEF RowFollowsLedger
  <2>1. CountAddsUp /\ StatusIsLast /\ ledger \subseteq Deliveries
    BY DEF RowInv, WayInv, DeliveryInv, TypeOK
  <2>2. \A r \in Requests : stage[r] \in Closed \cup {"unsent"}
    BY DEF Open
  <2>3. ASSUME NEW kind \in Counting PROVE Recorded({kind}) = Counted(kind)
    <3>1. \A d \in Deliveries : applied[d] > 0 => d \in ledger
      BY <2>2 DEF RowInv, SerialInv, Closed, Acked
    <3> QED
      BY <3>1, <2>1, <2>3 DEF Recorded, Counted, CountAddsUp
  <2>4. Recorded(Lifecycle) = Told
    BY <2>1, <2>2 DEF Recorded, Told, Closed, Acked
  <2>5. Recorded({"removed"}) = Counted("removed") /\ Recorded({"added"}) = Counted("added")
    BY <2>3 DEF Counting
  <2> QED
    BY <2>1, <2>4, <2>5 DEF CountAddsUp, StatusIsLast
<1> QED
  BY <1>1, <1>2, <1>3, PTL DEF Spec
=============================================================================
