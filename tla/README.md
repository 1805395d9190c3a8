# Verification of thinksyncc

TLA+ models of the backend of thinksyncc (`src/backend`): from the job queue over
the agent pipeline, its planner, executor, tools and approvals, to the gateway in
front of the workspaces, the GitHub integration, and the operations that create and
delete what a user owns.  Each module is translated from the Python source at this
commit; `PROJECT.json` says for every definition which lines it stands for.  TLC
checks every component on small instances; TLAPS proves every safety property of the
runs for every value of the constants.  What stays with TLC alone is liveness.

Contents: 1 the system · 2 the modules · 3 the runs · 4 fairness · 5 the proofs ·
6 disagreements met while modelling · 7 what is not modelled · 8 the plan.

## 1. The system

The backend is a FastAPI application, run as one uvicorn process
(`infra/systemd/thinksync-backend.service`, `Restart=always`, 30 s to stop), in
front of PostgreSQL (through Supabase) and Redis.  Its lifespan (`main.py`) also
runs the worker loop and a recovery loop as asyncio tasks.  A worker can be
started on its own as well (`python -m services.worker_service`).  Nothing in the
backend uses a database transaction over two statements: everything that spans
two rows, two tables, two keys of Redis or a table and a remote server is a sequence
of awaits, between which every other task of the process, and every other process,
may run.

A job goes this way: a request inserts its row; a worker claims it and calls the
**pipeline**, which classifies it, plans it and runs it as a conversation, a program
or a plan on a server; the **executor** passes every step through a gate, where an
**approval** may suspend the job (the pipeline returns, the worker is free, a driver
on the **event bus** waits for a signal), then through a **tool**, which sends a
script over SSH.  What happens is published on the job's **event stream**.

| Component | State | Operations | Interacts with | Hard behaviour | What makes it correct |
|---|---|---|---|---|---|
| Job queue (`worker_service.py`, `main.py`) and user recovery (`job_recovery.py`) | `jobs.status/worker_id/heartbeat_at`, `worker_heartbeats`, the current job of a process | submit, claim, heartbeat, mark completed or failed, release, recovery pass, dead-worker cleanup, stop, two marks of a user | the pipeline writes the same rows; recovery passes of all processes act on all rows | crash, SIGTERM, cancellation, stale snapshots, two cleanups for one crash, a mark on a running job | one executor per job, nobody else overwrites its outcome, no job is lost, every job settles |
| Pipeline (`agent_service.py`) | `jobs.status`, what has been told, what is parked | classify, route, plan, run, conclude, and every way each of them fails | queue, executor, code writer, bus, stream | handlers that overlap, writes that are lost, exceptions past every handler | the outcome is told once and as the row says; every run ends |
| Decisions (`agent_decision_engine.py`, `decision_*.py`) | none | decide, resolve a route | pipeline | four modes, exceptions | a route never has more privilege than the intent |
| Language model and planning (`agent_llm.py`, `structured_output.py`, `planner.py`) | a cache of answers | classify, size, plan, ask | pipeline, executor | timeouts, answers of any shape | what is decided without an answer |
| Platform context (`capability_service.py`) | none | load | planner, executor | three sources, each of which may be down | a deployment is not planned or probed by guess |
| Executor and self-healing (`executor.py`, `self_healing.py`) | step, tries, results; fixes used | gate, run, validate, retry, abort, probe; run, fix | approvals, tools, permissions | hooks that raise, retries, several exits | success is earned, gated steps wait, no fix twice |
| Writing of programs (`implementation_intelligence.py`, `templates.py`, `guardrails.py`) | the files of a workspace | choose, look at, write, compile, give up | pipeline, tools, patch editor | a way that is given up leaves files | a program is of one piece |
| Patch editor (`agent_llm.py`, `context_engine.py`, `guardrails.py`) | contexts, results and locks in Redis; the files | build a context, ask, apply, validate, write back | model, tools | two jobs on one task or one workspace, locks that expire, stale contexts | one asks at a time, no edit is lost, a success is a change |
| Tools and SSH (`tools.py`, `ssh_service.py`) | the workspace on the server, scripts under way | guard, send, wait, classify | executor, git | scripts that outlive their caller, die, hang; lost exit codes; links out of the root | answers are true, what runs is what was sent, calls return |
| Approvals (`approval_engine.py`, `models/approval.py`, `interactive_wait.py`) | requests with versions, resume tokens, the interaction state | pause, decide, issue, revoke, consume, resume | executor, bus | two decisions, writes without a version, failures between writes | one decision, a spent token stays spent |
| Event bus (`event_wait_engine.py`, `conversation_continuation.py`, `resume_manager.py`) | four dictionaries of a process, a driver task per suspension, cursors | register, wait, signal, time out, clear, post an event, reply | pipeline, HTTP handlers, queue | signal before wait, two suspensions, timeouts, restarts | no wake is lost, every driver ends |
| Event stream (`execution_event_service.py`, `agent_service.py`, `routers/ws.py`) | sequence, history and channel in Redis, a websocket | number, push, trim, announce; read, subscribe, send | pipeline, browser | publishers beside each other, the gap between history and subscription | order, no silent loss but that gap |
| Port pool and gateway (`port_allocator.py`, `routers/gateway.py`) | sets of ports and keys in Redis, counters of a process | allocate, assign, route, mark as unhealthy | workspace creation, the programs of users | two processes, ends of processes, keys that expire | nobody answers for another; no port is lost without a failure |
| Workspace lifecycle (`workspace_service.py`, `workspace_lifecycle.py`, `server_service.py`, `github_service.py`) | rows of workspaces, connections, servers and keys, remote directories, a ledger in memory | create, delete, disconnect, the agent's own workspaces, connect and give up a server, register and forget a key, compensate | SSH, foreign keys and unique indexes of the schema | steps that fail, lose their answer or fail silently, operations that meet, restarts | all or nothing, what is listed is usable, the stores agree |
| Tokens (`github_app_service.py`, `github_http.py`) | a cache and a lock per process and installation | get, store, invalidate, retry, wait for the limit | the webhook purges; git tools get | purge during a request, cancellation of the lock holder, expiry while waiting | a purged token does not come back, one request at a time |
| Webhook (`github_webhook_service.py`) | ledger of deliveries, installation row, connection names | check, handle, record | GitHub repeats deliveries; tokens are purged | repeats that overlap, failing queries, restarts | an answer is honest, a repeat changes nothing, the row follows the events |
| Rest | see `PROJECT.json`, `components` | | | sessions, deployments, memory, authentication, frontend | section 7 |

The hazards, each at its line, are in `PROJECT.json`; the properties are chosen
for them.

## 2. The modules

`X_proofs.tla` holds the theorems about `X.tla`, `MCX.tla` its TLC instance; three proof
modules are about two components each (section 5).
Operators called *mutants* in comments are plausible wrong versions of a
definition, none of which is used by a specification; each is the change of the
code under which the property named in `PROJECT.json` fails.  An action is the code
between two awaits, and its guard is the code's; every bound is a constant.

### Jobs

**WorkerService** (with **JobLease**).  The two tables, and for every process where
it is (`pc`), its `_current_job_id` (`cur`), whether it was asked to stop, and its
recovery pass (the snapshot of stale jobs, of dead workers, and the job it is about
to free).  One action per UPDATE: `ClaimNextJob`, `HeartbeatJob`, `MarkCompleted` (after
a separate `ReadStatus`, as in the code), `MarkFailed`, `RecoverStaleJob`,
`ReleaseDeadJob`, and so on; the pipeline is its writes to the row.  Stops are SIGTERM to
a standalone worker and the cancellation of the lifespan.  The marks of a user
(`MaxMarks`) are by id alone, as in `job_recovery.py`.  Clocks are abstracted to what
the cutoffs tell apart: a heartbeat is null, fresh or old.  `JobLease` is the
abstract promise: who works on a job, and whether its outcome is settled;
`WorkerService` refines it with `holders[j]` = the processes that execute j and
`closed[j]` = settled and not held.

**AgentPipeline** composes **StepExecutor**, **SelfHealing**, **DecisionRouter**,
**CodeWriter** and what they extend, and adds the stages of `run_agent_pipeline`, each
with its handler or without one: `stage`, the row, the intents before and after the
router, what has been published (`told`), whether the job is parked on the bus, how
`run_job` ended, up to the mark of the worker.  `_db_update` swallows an APIError: a
status write may be lost.

- *StepExecutor*: the loop over preflight checks, plan and probes, with gate, tool,
  validation, retries of an ACTION, abort and the success contract.  A step is what
  distinguishes it: its type, whether it waits for an approval, whether its effect
  is validated, whether it needs `allow_write`.  Its plans come from *LanguageModel*
  (what becomes of an answer of any shape, and what the words of an objective decide
  without one), its probes from *WorkspaceContext* (what is known of port, gateway
  and subdomain when a source is down), its permissions from *Permissions*.
- *SelfHealing*: run, recognise the error, apply its fix, run again; background mode.
- *CodeWriter*: the report, the old template, the edit and the model as authors of a
  program; each is looked at, written file by file, compiled, and may make way for
  the next one.  *TemplateChoice* has the catalogue, scores in integer arithmetic,
  strategies and what generation can produce.
- *DecisionRouter*: `decide`, the four modes and `resolve_route` as operators.

**ApprovalEngine** (with **DecisionRegister**).  One approval: its row and version, the
column of its resume token, the interaction state, and requests of six kinds
(pause, approve, reject, skip, reply, refusal), each a sequence of queries.  Tokens are
numbers; `expired` is a midnight that has passed.  `DecisionRegister` is a register
that is written once and tells every caller the truth; `ApprovalEngine` refines it.

**EventWaitEngine.**  The dictionaries `waits`, `signals`, `timer` per process and job
(the n-th registration of a job makes its n-th `asyncio.Event`), the set of Events
that are set, the run of a job as far as the bus sees it, every driver
(`await_and_resume`) with the Event it looked up when it got its turn, and the replies
that are reading their context (`Context`, `Modify`, `Continue`).  A run starts by looking
for a resume bundle.  `verify_resume_safety` is modelled by its result: it fails for
every job, because nothing writes the column it filters on.

**PatchEditor** (with **TextPatches**).  Jobs that edit files: context from the files or
from Redis, lock, result of an earlier job, requests to the model with the drift
rule, validation, write-back of what differs.  An SSH connection that fails while the
context is built, and a missing API key (`NoClient`), end the job.  `TextPatches` is
`apply_text_patches` and `validate_patched_files` on files that are sequences of blocks.

**Toolbox.**  A call is a record, an order; the workspace is one file, a `.env` and what
is committed.  A call is guarded, sends a script, waits; a script runs on the server
whether or not its caller still waits for it.  `owed` is what the workspace may be
if every answer so far was true.  A program is a chain of scripts.

**EventStream.**  Publishers that number, push, trim and announce in separate queries, with
the fallbacks of a process while Redis fails, and websockets that read the
history, subscribe and send.

### Workspaces and GitHub

**Gateway.**  The pool, the pending key and the port of each workspace, its
subdomain, the marks of unhealthy workspaces, creations in several processes and
the requests of clients, with the concurrency limit of a process.

**WorkspaceLifecycle.**  `row`, `conn`, `dir` of every workspace, the user's `server` and
`key`, and for each operation its plan, its place in it and whether it is going on or
undoing (`CompensationLedger`).  `Permitted` is the schema: unique indexes and foreign
keys, with their `ON DELETE` rules.  A step may be refused, be done with its answer
lost, fail silently (`SSHService.execute` does not raise on an exit code) or refuse
to be undone; `faults` remembers which kinds there have been, so that a property can
say what it needs.

**InstallationTokens.**  Per process the cached token, the holder of the `asyncio.Lock`,
and per call where it is, the time it read when it began, its tries and what it has
in hand.  An answer of GitHub has an outcome (`Outcomes`): given, transient (tried
again), limited (waited out once), refused.  `epoch` counts revocations at GitHub;
`purged` and `since` are history variables.  The environment assumption is in
`Tick`: a call ends within the leeway of 300 s (two rounds of four tries of 30 s with
their pauses and one wait of at most 30 s come to less than 290 s).

**WebhookDelivery.**  The ledger, the row of one installation and the name of one
connection, and for each request its place in the handler of its event.  `applied`,
`purged` and `alone` are history variables.  Post order is GitHub's; a repeat may overlap.

### Composition

AgentPipeline composes the modules of a run by EXTENDS and has one state.  The
other components meet by an interface that each models as the other leaves it:
`WorkerService` sees the pipeline as its writes to the row, `EventWaitEngine` uses that
a job has one executor in `Run` (`SoleExecutor`), `WebhookDelivery!Purge` is a purge of
`InstallationTokens`, `CodeWriter!EditProject` is a job of `PatchEditor`, a tool of
`StepExecutor` is an order of `Toolbox`, `AgentPipeline`'s suspension is a pause of
`ApprovalEngine`.  Each assumes of the other more behaviours than it has: any exit
code, any failure, any order.

## 3. The runs

Every run passes.  Deadlock is checked where the system never stops
(`queue_core`, `queue_failures`) or has an explicit end (`pipeline_core`); elsewhere
the requests of the instance are answered and nothing is left to do.

| Run | Instance | Shows |
|---|---|---|
| `queue_core` | 2 jobs, API server and 2 standalone workers, 1 stop, `Timely`, `Serial`, not `Interruptible`, no crash | rows follow executors, only an executor overwrites an outcome and only in two cases, refinement of `JobLease` |
| `queue_failures` | 1 job, API server and standalone worker, overlapping passes, one of: a crash, a stop in the middle of a job, a mark of the user | no orphan is invisible, every job settles |
| `pipeline_core` | plans of 1 or 2 steps of 4 kinds, 3 tries, 2 fixes, 1 missing module, 2 lost writes, all choices of templates for every objective of up to 3 keywords | success is earned, gated steps wait, programs are whole, the outcome is told, runs end |
| `approvals_core` | 4 mixtures of 4 requests in every order and interleaving, 1 failing query, 1 restart, 1 midnight | spent tokens stay spent, one resume and no resume after a rejection for requests that do not overlap, refinement of `DecisionRegister`, requests end |
| `bus_core` | 1 job, 2 processes, 2 suspensions, 3 requests of any kind, 1 restart | no lost wake, the driver is reachable, drivers end |
| `patch_core` | 2 jobs in 3 mixtures (same task, same workspace), 8 answers, 2 tries, 1 failure, restart or expired lock | one asks at a time, no edit is lost, a success is a change, jobs end |
| `tools_core` | 2 jobs, 2 calls of 38 orders, 1 fault | answers are true, what runs is what was sent, calls return |
| `stream_core` | a pipeline of 3 events and a task of 1, a history of 2, 1 websocket, 1 failing query | order, only the gap is missed, streams end |
| `gateway_core` | 3 workspaces, 2 ports, 2 processes, 2 clients, 1 failure or end of a process | nobody answers for another, the pool is sound, a workspace is answered again |
| `lifecycle_core` | any 3 of 13 operations on 4 workspaces, any two kinds of failures, or one and a restart | usable when listed, all or nothing, agreement |
| `tokens_core` | 1 process, 2 calls and a purge, 2 revocations, lifetime 3, leeway 1, time to 3, 2 tries | one request at a time, given tokens are good, calls end |
| `webhook_core` | 2 deliveries of 7 kinds of events, 2 posts each, 2 open requests, 1 failing query, 1 restart | answers are honest, repeats are skipped, the row follows the ledger |

Why these bounds are enough for what they show.  Jobs, installations, approvals and
deliveries share no state but a worker's single slot and one row, so that two of
them (one to hold, one to take by mistake; an earlier and a later event) show every
conflict; three processes are a holder, a recoverer and a claimer.  Every crash,
stop, failing query and restart may come at any step.  A second suspension is what
makes a driver meet a wait that is not its own.  A plan of two steps has a step that
is retried and one that follows; three tries are the code's.  In `approvals_core` the
mixtures are the pairs of requests that touch the same row: two decisions (one of them a skip
in one mixture), two pauses, a rejection and the reply that says the same.  In `patch_core` the answers are
one of each kind the patcher tells apart.  `stream_core` needs a history that
overflows.  Two ports for three workspaces exhaust the pool.  Two revocations
distinguish a purge from an older one.  `FirstCount = 1` lets an
addition and a removal meet, and a removal reach zero, which a second one must not pass.  In the
lifecycle, failures of a kind are not bounded: an operation turns back at most once.
The runs with liveness properties use no symmetry.

Premises.  A property that holds under a condition states it; each premise is
there because TLC shows the property without it to fail, and section 6 has the
reasons.

- `AckIsHonest` (the purge, as long as no query has failed), `ReplaySkipped` and
  `RowFollowsLedger` (`Undisturbed`: no overlap, no failure; the count, as long as GitHub
  does not report more removals than there were repositories, because the code stops at zero);
- `OrphanVisible` (one crash, stop or mark, not two);
- `ParkedIsReachable` (first suspension);
- `OnceWhenAlone` and `RejectionHolds` (requests that do not overlap; for the latter no
  failure and no restart either);
- `OneAsker` (`Calm`: Redis answers and no lock expires), `NoLostEdit` (jobs that come one
  after the other, with tasks of their own and no restart);
- `OrderKept` and `OnlyTheGapIsMissed` (no failing query; what was announced between
  reading the history and subscribing, and what was trimmed away, are named by the second
  property);
- `WorkIsKept`, `RunsItsOwnCode` (`Truthful`: no call has met another or a script that
  was given up, no script died, no exit code was lost);
- `NoStrangerAnswers`, `PoolIsSound` (two processes have not found the pool missing at
  the same time);
- `RowHasDir`, `CreateAllOrNothing` (`OnlyCreated`: clean failures, nothing but creates has
  begun on the workspace), `Consistent` (no failure so far);
- `queue_core` as a whole (`Timely`, `Serial`, no crash).

## 4. Fairness

- Queue: the loop and the pipeline of a process that is up go on (asyncio tasks,
  and calls of the pipeline with timeouts), its recovery loop turns
  (`main.py:145-167`), heartbeats grow old with time, systemd restarts the API
  server (`Restart=always`).  No fairness for a standalone worker's start, for
  submissions, stops, crashes, heartbeats or marks.
- Pipeline: `WF_vars(Next)`: one coroutine that goes on.  Every script it sends has a
  timeout (`ssh_service.py`), every request to the model one of 900 s, so that nothing
  it awaits is silent for ever.
- Bus: workers poll, a run goes on, the event loop gives every task its turn,
  sleeps end, a reply that has been accepted goes on.  New requests are never assumed.
- Approvals, patches, stream: the event loop gives every request, job, publisher and
  websocket its turn.
- Tools: a coroutine goes on and a command over SSH has a timeout; the server runs
  what it was sent unless it hangs.
- Gateway: creations and requests that have begun go on, marks expire (their key has
  a lifetime), and clients keep asking; `AnsweredAgain` states as its premise that the
  limiter does not turn them away for ever.
- Tokens: strong fairness of taking the lock, because `asyncio.Lock` is first come
  first served; the request to GitHub ends one way or the other (timeouts in
  `github_http.py`); an awaited audit returns.
- Webhook and lifecycle: no liveness is stated.

Failures are never assumed to happen or to stop.

## 5. The proofs

All are `Spec => []P` (or `Spec => [][A]_v`, or a refinement) for every value of the
constants that the named assumptions of the modules allow: any number of jobs,
processes, requests, failures, crashes.  Every safety property of the runs is a
theorem.  Each rests on an inductive invariant, whose parts are named here.

- `WorkerService_proofs`: `TypeCorrect`; then, under `Calm` (heartbeats in time, one
  recovery pass at a time, no crash, no mark, no stop of a process that has a job),
  `MutualExclusion`, `RowsFollowExecutors`, `OnlyTheExecutorOverwrites` and `LeaseImplemented`, the
  refinement of `JobLease`.  `SoleExecutor` is not inductive: a claim is safe only if
  no held job is queued, which needs every writer of the row, the snapshots of
  recovery passes included.  The invariant has these parts: a process remembers a
  job exactly while it is busy (`JobWhileBusy`), one holder per job (`OneHolder`), what
  the row of a held job may say at every point of its holder (`HolderOwnsRow`), one pass
  (`OnePass`), snapshots list running rows with an old heartbeat, which no holder has
  (`SnapshotOfOrphans`), and no worker is ever found dead (`NobodyDead`).  Without
  `Calm` the theorems are false (section 6).  `OrphansAreVisible` needs only `Timely` and
  `Serial`: until the first crash, stop or mark the queue is as under `Calm`; after it
  a running row without a heartbeat has a holder that has yet to read or to write its
  outcome (`VisibleInv`), and nothing is left that may stop that one.  The run
  shows it with overlapping passes for a single job, where they do no harm.
- `AgentPipeline_proofs`, for every plan, bound and failure: `GatedStepsAlwaysWait`
  (from `WhereInv`, where a run can be, and `GateInv`: a gated step that has its
  turn has passed its gate by an exception that was swallowed);
  `SuccessIsAlwaysEarned` (`OrderInv`: the results so far are a prefix of the steps
  that are required as long as all of them are valid; `ProbeInv`: a deployment is
  closed with probes of the contract, the first of which exits 0);
  `RetriesAlwaysJustified`, `TriesAlwaysEnd` (`JournalInv`, and `HealInv` for the fixes);
  `WritingPlansFail`; `ProgramIsAlwaysWhole` (`DiskInv`, `WrittenInv`, `AuthorInv`: main.py is
  written first, and a template whose name the report and the old way share has the
  same files); `OnlyScriptsFit` (arithmetic of the scores); `RouteNeverEscalates`,
  `WeightedIsAlwaysBlocked`, `RouteIsAlwaysKept` about the decision engine;
  `OutcomeIsAlwaysTold` (`OutcomeInv`: what each stage of the pipeline may have told and
  written); `TypeCorrect`, `HealingBounded`.
- `ApprovalEngine_proofs`, in every interleaving: `OneDecisionIsTaken` (the refinement of
  `DecisionRegister`), `AuditTellsOfTheRow`, `TokensDieOnce`; and for requests that do not
  overlap `LetGoOnce`, `RejectionIsFinal`.  `StageInv` and `RowInv` relate what a request
  has read to the row (its version is not above the row's, and equal to it only if
  nothing has been written since); `TokenInv`, `AloneInv` and `BarInv` say which tokens can
  still be in whose hand.
- `Events_proofs`, the bus: `BusTypeCorrect`, `WakeIsNeverLost` and `ParkedIsAlwaysReachable`
  in every interleaving, with any number of processes, jobs, requests, replies and
  restarts.  `NoLostWake` needs little beside itself: the types, and that the run in
  progress has registrations left (`RunsInBounds`), so that the n-th Event is there.
  `ReachInv` adds that a driver sits in a process which has the wait from the
  suspension on.  Lemmas say for each method of the engine what it leaves of the
  dictionaries.
- `Events_proofs`, the stream: `OrderIsKept` and `NothingElseIsMissed`, for any publishers,
  plans, websockets and length of the history, while no query fails.  `NumberInv`: the
  event a publisher has on its way is the newest of its events; `HistoryInv`: the
  history is the end of all that was pushed, cut only where it is full; `LineInv`: what
  a websocket has sent and what waits for it is in order, and a publisher's event comes
  again only if it was in the history and is announced afterwards, so at most one of them
  is on its way; `MissInv`: everything since the beginning of the history it read is in
  that line or in the gap.  Order is not inductive without the numbers of events that
  are not pushed yet, nor the "at most one" without those that are not announced yet.
- `PatchEditor_proofs`, for any jobs, files and answers: `OneAskerHolds` (`LockInv`: who asks
  has set the lock), `RefusalHolds`, `NoLostEditHolds` (`EditInv`: a job alone with its
  task finds no context of it in Redis, and what it has read is what is there),
  `AcceptedIsAChange` (`ChangeInv`: what is accepted, or recalled and written, has a changed
  file that differs from what the job has read).  The last one needs what patches do to
  files, `PatchesKeepFiles`: they add and remove none, and leave alone what is not among
  the changed, however many there are.  That is an induction over the list of patches;
  the library's theorems for it take an operator, so `LeastNumber` and `Induction` state it for
  a set of numbers, from `WFMin`, and `outcome` is a recursive function that
  `ResultsExist` shows to exist.
- `GitHub_proofs`, tokens: type correctness and all safety properties, the action
  property `LiveTokenKept` included; `GivenTokensAreGood` joins two of them.  `CacheInv`
  says who may be under the lock (`LockInv`), and what a call has in hand at each
  stage (`HandInv`): what is requested or issued under the lock cannot be older than
  the last purge, because a purge waits for the lock (`PurgeInv`), and the entry is of
  no use to the call that asks for another (`MintInv`).
- `GitHub_proofs`, webhook: `WebhookTypeCorrect`, `AnswersAreRecorded` and
  `AnswersArePurged` (`WayInv`: the way of a request through its handler), together
  `AnswersAreHonest`; `SerialReplaysAreSkipped` (`SerialInv`: as long as nothing has
  overlapped or failed there is one open request, beyond the check its delivery is
  not in the ledger, and what has been applied is recorded or about to be);
  `RowAlwaysFollowsLedger` (`RowInv`: deliveries come in order, `InOrder`; the count is the
  first one with every applied addition and removal in it, and what a request has read is
  still there when it writes, `CountAddsUp`; the status is that of the last event that
  was applied, `StatusIsLast`), for any number of deliveries.
- `WorkspaceLifecycle_proofs`: under `CreatesOnly` (creates of different workspaces, plain,
  with an App or with a key; clean failures; restarts) `CreateIsAllOrNothing` and
  `ListedIsUsable`; `SagaInv` gives the world of a create at each step of its plan, the
  same going on and undoing.  `RowsAndDirectoriesAgree`, for all thirteen operations on
  any workspaces, without failures, from `FreshAssumption` (an id is made up once, and
  the server is connected once): `AgreeInv` says what a workspace that is listed rests on
  (`RowHolds`), and that every directory and every connection without its row is minded by
  an operation that is under way and will remove it or give it its row
  (`DirIsMinded`, `ConnIsMinded`, `MakerInv`, `TakerInv`).  The heart of the argument is
  that every step is *considerate* (`Considerate`, `Minding`): it leaves the other operations
  where they are, takes from rows and makes none but its own, and minds what it leaves
  behind.
- `Servers_proofs`, the gateway: `GatewayTypes`, `NoStrangerEverAnswers`, `PoolStaysSound` and
  the action property `PortIsForGood` (the port a request has looked up stays its
  workspace's, across every await), with failures and ends of processes, as
  long as two processes have not found the pool missing at once.  `CreationInv`: where a
  creation is, what it has in hand and what it has stored fit; `PoolInv`: free and used
  are apart and nothing is lost, which a second filling of the pool would break;
  `OwnInv`: a port in a hand or a row is used and belongs to one workspace only;
  `LossInv`: every used port of nobody has a failure to its name.
- `Servers_proofs`, the tools: `AnswersAreTrue` and `ProgramsAreTheirOwn`, for any jobs, orders
  and calls, with timeouts, lost connections and hanging scripts.  `ToolInv`: as long as
  nothing has met, there is one script (`CallInv`); the workspace between two scripts is
  what the call has promised so far (`RestInv`); a script that is awaited has done
  nothing, or will do, or has done what its order promises (`AwaitedInv`); and one that
  was given up can only lead to what is owed (`GivenUpInv`), which is why a call that
  timed out may be followed by an answer that is true.

Proved and in no run: the type invariants, `SoleExecutor`, `TriesAreBounded`,
`NoPlanWrites`, `RouteIsKept`, `AuditFollowsRow`, `RefusalIsTrue`, `LiveTokenKept`, `PatchesKeepFiles`,
`PortIsForGood` and the parts of joint properties.

What the theorems assume of the constants: bounds are natural numbers, sentinels
such as `None` are no members of the sets they are kept apart from, what is
enumerated is of its kind (plans, requests, answers, orders), a history holds at least
one event (`StreamAssumption`), a workspace starts with one file at most
(`ToolboxAssumption`), a token lives longer than its leeway (`TimesAssumption`), and
`FreshAssumption`.  All of them are evaluated by TLC in the runs.

Model-checked only.  Liveness (`EveryJobSettles`, `RunsEnd`, `RequestsEnd`, `DriversEnd`,
`JobsEnd`, `StreamsEnd`, `CallsReturn`, `CallsEnd`, `AnsweredAgain`) is out of the
prover's reach, and holds for the instances of the runs.  No module has a RECURSIVE
operator; what is recursive in the code is a recursive function.

## 6. Disagreements met while modelling

What the code does against what a comment, a document or a test says of it, or
against what one would expect; each was seen while a definition was translated or
as a counterexample of TLC when a premise was dropped.  They are the reasons for
the premises and constants above.

**Queue.**
- *A failure is overwritten* (`worker_service.py:270`, `:401-406`, against
  `RELIABILITY_SPRINT_V2_REPORT.md:109`): the pipeline writes FAILED and returns, the worker
  marks the job completed.  So an outcome does not simply stick: `OnlyExecutorOverwrites`
  names this overwrite and that of a clarification (under *Pipeline*) as the two there
  are, both by the process that still executes the job, and rules out every other.
  "`failed` | Error | `status='failed'`" of the report is not kept.
- *Two executors after one crash* (`:627`): `recover_stale_jobs` requeues the job and
  `cleanup_dead_workers` requeues it again from the worker's row, also after another
  worker has claimed it: `MaxCrashes = 0` in `queue_core`.
- *Overlapping passes* (`:574`): a pass requeues from its snapshot what another pass
  has requeued and a worker has claimed (`Serial`).  With two jobs and overlapping
  passes this even loses a job: the second requeue takes owner and heartbeat from
  the holder, and if that one crashes after its next write the row is running, with
  no owner and no heartbeat, and no query matches it.  (With `Serial` two jobs keep
  `OrphanVisible` and `EveryJobSettles`; that instance has 700 199 states and is not in
  the runs.)
- *A claim takes every queued row* (`:171-187`): the UPDATE has no limit; what is beyond
  the first row is running for the table, owned by the worker and executed by nobody
  until its heartbeat is stale.  The model has it (`ClaimRows`); "one job per worker"
  (`:45`) is therefore not a property.
- *SIGTERM during a job* (`:150`): `stop()` releases the job while its coroutine is
  suspended; another worker may execute it as well (`Interruptible`).  Killed
  afterwards, the job is lost for good: running with a NULL heartbeat (`:509`).
- *A swallowed cancellation* (`:287`, `main.py:196`): one that arrives while the heartbeat
  task is awaited is taken for that task's; the loop goes on.
- *Marks of a user* (`job_recovery.py:142`) are by id: a running job that is marked
  recoverable is claimed and executed a second time, the transition row says "from
  running" whatever the job was, owner and heartbeat stay.  After such a mark and a
  crash of the second executor an orphan is invisible: one fault in `queue_failures`, not
  two.  `JobQueue.claim_job`, `heartbeat` and `release_job` have no caller, so that
  `is_job_heartbeat_stale` always says yes.
- *One-shot jobs* (`routers/agents.py:392`, `agent_service.py:2934-3094`): POST /route inserts a
  queued row and executes it in the request, without owner or heartbeat; a worker may
  claim and execute it too.

**Pipeline.**
- *A successful plan ends failed* (`agent_service.py:2706`, against
  `RELIABILITY_SPRINT_V2_REPORT.md:108`): the run's `loop_result` has no `verification_results`;
  the AttributeError passes every handler, the worker marks the job failed and nobody
  is told.  The model has this branch, and "told success" is never told of a plan.
- *A plan that writes can never succeed* (`executor.py:484-493`): the executor asks for the
  permission of the user `""`, who owns nothing; `WritingPlansFail` proves it.
- *A step that was saved by a retry* still counts as failed (`executor.py:1034`): a retried
  run never succeeds.
- *The gate fails open* (`executor.py:693`): an exception of the hook that is not a
  suspension is logged and the step runs; `GatedStepsWait` names these executions.
  While the interaction state says WAITING_FOR_USER every check of the hook is skipped
  (`agent_service.py:2364-2372`).
- *A wait may be marked completed* (`agent_service.py:2425`, `interactive_wait.py:452-463`): both
  writes of WAITING_FOR_USER swallow their errors; if both are lost the row still says
  running when the pipeline returns, and `_mark_completed` takes the job for done while
  its driver is parked.  `OutcomeIsTold` asks for a row that waits unless both were lost.
- *The lock of a workspace refuses nobody* (`executor.py:394`): SET NX reports a refusal
  as None, the code looks for False.
- *Clarifications* (`agent_service.py:1910`, `worker_service.py:278`): the suspension leaves
  `run_job` as an exception past the handler for it; the worker marks the job failed.
- *Decisions*: the authoritative mode never changes a route (`RouteIsAlwaysKept`); the
  weighted mode counts every code or server job BLOCKED (`WeightedIsAlwaysBlocked`); the
  risk threshold plays no part in `_resolve_policy`; `supported_tools` lacks `github_pull`
  and `github_push`, so that a plan with them raises.
- *A background program* is a success unseen (`agent_service.py:2131`).
- *The context of a plan has no intent* (`agent_llm.py:1777`): whether the platform is
  needed depends on the words alone, and every context that was loaded is accepted,
  also one without a port (`KnownPlatform`).  `detect_capabilities` keeps its first
  answer for the life of the process, also when the server could not be reached.
- *Answers*: best efforts that miss required keys are cached for 300 s; logs say 45 s
  where the timeout is 900 s.

**Programs.**
- *The model never writes a program by the new way*: `llm_chat` does not exist, so that
  generation, repair and hybrid completion produce no file; `spec` is always None, and
  an empty report is valid.
- *A template that needs a library never fits* (`OnlyScriptsFit`): no capability reports
  `available_libraries`.  A reviewer's NEW_IMPLEMENTATION or a score below 0.5 ("do NOT
  force a bad template", `implementation_intelligence.py:421-426`) still ends in the first
  matching template by the old way.
- Files of a report that was given up stay in the workspace until the next author
  overwrites them; a program of the model is normalised after it was validated; the
  forced template for Telegram cannot be reached from a code job.

**Patches.**  Whole files are written back, so that overlapping jobs lose edits, and so do
contexts older than a restart (`NoLostEdit`); the lock is a key that is deleted whoever
holds it; "single atomic SSH op" (the docstring of the patch tool) truncates and writes
in place.

**Tools.**
- A refused or unreachable CHECK (code 1) counts as success, in plan mode and out of scope
  too.  Unknown commands, `ls` among them, are "dangerous" and refused without
  `confirm`; `_READ_ONLY_PREFIXES` and `_WRITE_ONLY_TOOLS` are not used.
- `SSHService` maps a missing exit status to 0 (`ssh_service.py:367`), and its `except
  BaseException` (`:386`) turns a cancellation into an HTTPException; the remote script
  goes on after a timeout.
- Closing a connection (`ssh_service.py:211-213`) waits without a timeout of its own; the
  model, and with it `CallsReturn`, takes it to return.
- A program whose workspace is a link out of the root is reported as running although every
  script exits 13; exit codes of writing and of pip are ignored (a file that is too large
  leaves the old code, which is run); the pid is overwritten and the old program not
  stopped.  `set_env` raises a TypeError when the `.env` has a line of another key, although
  it "Replaces … or appends".
- Git: pull and push run git on the backend although the workspace is elsewhere; with an
  App the token and askpass file are not on the server, and branch, strategy, force and
  tags are ignored; after a timeout git is not killed; a merge that failed leaves the
  repository half merged, and the next `git_commit` (`add -A`) commits the conflict markers;
  fetching before `--force-with-lease` defeats the lease.

**Approvals.**
- *A resume may happen twice* (`interactive_wait.py:222`, against
  `conversation_reliability.py:361`): two replies that overlap both pass
  (`OnceWhenAlone`).  `ExactlyOnceResumeGuard` has no caller; `save_all`, documented as atomic,
  is not and has none either.
- *A skip is audited as a rejection* (`approval_engine.py:260-262`, against
  `models/approval.py:194`, which lists "skipped" among the event types): the row and the
  `decision` of the entry say "skipped", its `event_type` says "rejected".  `AuditFollowsRow`
  names this case; everything else in the audit agrees with the row.  No present caller
  sends SKIPPED.
- `pending_approval_ids` is never filled, so that tokens are looked up by the id of the job,
  under which there is no row, and resume is not validated; a failed look-up counts as "no
  token" (`:234`).
- Every new run of a gate inserts another pending approval; the idempotency check never
  finds a duplicate; if recording it fails, the decision is stored and the token not
  revoked (`RejectionHolds`); a rejection while a token is issued leaves it alive; a
  crash between consuming a token and writing the state strands the job; tokens expire
  at 23:59:59 of the same day.

**Bus.**
- *An answer does not resume a job* (`event_wait_engine.py:547`, against `:44-47`): no code
  writes `jobs.conversation_id`, verification fails for every job, the driver clears the bus
  and the job stays `waiting_for_user` although the caller was told that it woke.  For the
  same reason `load_resume_bundle` finds no job; a row that answers make RESUMED is run by
  nobody; APPROVE, REJECT, CONTINUE and MODIFY replies always raise.
  `verify_resume_safety` (`:476`) and the timeout handler (`:537`) call methods that do not
  exist.
- *A driver removes a later wait* (`:314`, against `:157-159`), and with two suspensions two
  drivers may hear one Event: `ParkedIsReachable` is about the first suspension.
- *A reply moves a job that does not wait* (`interactive_wait.py:384`, against `:99`).
- *Sessions are never stored*: `timezone.utc()` is called in `models/conversation.py` and
  `requirement_patch.py:109`, which raises TypeError.

**Stream.**  What is announced between reading the history and subscribing is missed
(`routers/ws.py:74`); the stream of a failed job never ends; the local queues of `subscribe`
are dead code, because the module of the Redis client raises without a URL.

**Gateway.**
- Two processes that fill an empty pool at the same time may give one port twice
  (`port_allocator.py:59-62`; `overlapped`).  A port of an allocation that failed or was cut
  off stays used for ever; `release_port` has no caller, ports of deleted workspaces stay
  used and their subdomains routed.  A workspace whose allocation failed answers 500 for
  ever.
- The limiter counts the requests it refuses; every status of the program counts as
  healthy; the gateway proxies to 127.0.0.1 of the API's own host.

**Lifecycle.**
- *A workspace cannot be cloned from GitHub* (`github_app_service.py:676`, against `:658`): the
  archive is read after the remote tar has ended and never sent.  `git ls-remote … HEAD url`
  has its arguments in the wrong order, so that checks of access fail.
- *A lost answer* (`workspace_lifecycle.py:151`, against `workspace_service.py:504-506`): a step
  that was done but did not return is not undone.
- *A deletion that fails late* (`:389`): the row comes back, the directory does not.
  *Two deletions*, *a deletion and a disconnection*, *a deletion and a create of the same
  name* (`:327`): the row that is put back is the one read at validation.
- *SSH commands that fail with an exit code* (`:353`): the deletion is confirmed and the
  directory stays.
- The agent's own workspace makes its directory a second time, after a deletion has removed it.
  A server that is given up takes the rows of its workspaces; their App connections stay
  and block further creates of the installation through the unique index
  (`db/migrations/20260717_github_connection.sql:87-98`).  The private key that is documented
  to be returned "EXACTLY ONCE" is dropped by the response model.  `delete_connection` also
  deletes App connections.  Slugs are random, so that a workspace is never found by its name.

**GitHub.**
- *An overlapping repeat is applied twice* (`github_webhook_service.py:425`, against `:6-7`); *a
  restart between handler and ledger* (`:478`) and *two interleaved updates of the count*
  (`:317`, against `:210`): `Undisturbed`.
- *An installation created on GitHub's pages is not stored* (`:138`, against `:137`): the
  upsert has no `user_id`, which is NOT NULL; the delivery is recorded as handled.
- *Tokens of a standalone worker* (`github_app_service.py:80`, against
  `github_webhook_service.py:186`): the purge reaches the API process only.

**Requirements.**  `run_discovery` always raises (its upsert omits `spec_json`, which is NOT NULL,
`db/migrations/20260713_sprint3_finalization.sql:48-58`; a UUID meets an integer column,
`requirement_discovery.py:726`), so that `project_spec` is always None and adaptive
clarification never asks.  `create_deployment` always raises.

## 7. What is not modelled

Of the modelled components: Redis copies of heartbeats and locks of the queue
(written, never read), failing database writes of the queue, one-shot jobs,
what follows a successful `verify_resume_safety`, the clarification driver, `job_events`
and the expiry of histories, outputs and their redaction, the learned strategies of
the patch editor and which files a task selects, the window of the rate limiter,
slugs, domains and the repair of old rows, listings and the OAuth flow of GitHub.

Not at all: conversation sessions (most paths raise), requirement discovery (always
raises), deployments (always raises), memory and repository index (text for
prompts), the audit trail (nobody reads it back), authentication, frontend,
infrastructure, and `MERGE_ANALYSIS` (old copies).  Dead code is left out where it is
met: `run_tool_calling_loop` (documented as the primary loop, `agent_service.py:4`),
`evaluate_step`, `revise_plan`, `await_clarification_reply`, the health checker,
`release_port`, `JobQueue`, the batch functions of `job_recovery.py`.

## 8. The plan

Done: the queue, the bus, tokens, webhook, lifecycle; the pipeline with executor,
fixes, decisions, programs, planning and permissions; approvals; patches; the stream; tools;
the gateway; proofs of all their safety properties.

Left, in this order:

1. An abstract token service and an abstract mailbox that `InstallationTokens` and
   `EventStream` implement, with the refinements proved as those of `JobLease` and
   `DecisionRegister` are.
2. Weaker premises: `RowsFollowExecutors` while a process is being stopped between two
   jobs, `ListedIsUsable` with deletions of other workspaces, `RejectionIsFinal` with
   restarts.
3. Compositions with one state: the queue with the pipeline, `ApprovalEngine` with
   `EventWaitEngine`, `StepExecutor` with `Toolbox`.
4. One-shot jobs beside the queue; conversation sessions and discovery once their code
   runs.
