# Verification of Auto-AT: runs, dispatch, the bridge, vision and the page

TLA+ models, TLC configurations and TLAPS proofs for the protocols of the
repository:

* the engine that executes a test-automation *pipeline* (a DAG of agents) as a
  background task of a web server, under pause, resume, cancel and delete
  requests, with retries, derived runs, a database that may raise and a server
  that may go down;
* the way a page of the front end *follows* such a run: events over a WebSocket
  that breaks and is opened again, and queries whose answers come late;
* the dispatch of a *test run* in auto-at-ui, from the request through outbox,
  workflow, activity and Playwright worker to the recorded verdict, with
  redelivery, retries, timeouts, late answers, cancellations and restarts;
* the *Codex bridge* of auto-at-ui, where two processes that share nothing but a
  directory hand each other jobs, and either may die between any two files;
* a *visual exploration* of auto-at-ui, whose browser primitives can neither be
  taken back nor repeated, while explorer, lease and browser worker fail one by
  one.

Everything is translated from the sources under `src/`; `PROJECT.json` maps
each definition to its lines, lists the hazards of the code at the line where
they bite, and names the runs, the mutants and the theorems.

    tlc -workers 2 -config MCPipelineRunner_control.cfg MCPipelineRunner
    tlc -workers 2 -config MCDagResolver.cfg MCDagResolver
    tlc -workers 2 -config MCTestRunDispatch.cfg MCTestRunDispatch
    tlc -workers 2 -config MCCodexBridge_live.cfg MCCodexBridge
    tlc -workers 2 -config MCVisionOperations.cfg MCVisionOperations
    tlc -workers 2 -config MCRunFollowing.cfg MCRunFollowing
    tlapm PipelineRunner_proofs.tla
    tlapm TestRunDispatch_proofs.tla
    tlapm PipelineRecords_proofs.tla
    tlapm VisionOperations_proofs.tla
    tlapm VisionDecisions_proofs.tla
    tlapm CodexBridge_proofs.tla
    tlapm RunFollowing_proofs.tla
    tlapm DagResolver_proofs.tla


## 1. The system

### Backend (`src/backend/app`, FastAPI + MongoDB + asyncio)

| Part | State it keeps | Operations | Interacts with |
|------|----------------|------------|----------------|
| DAG resolver (`core/dag_resolver.py`) | none: a function of a template | `validate`, `get_execution_layers`, `get_node_parents/children` | called by the runner and by template validation |
| Background task (`api/v1/pipeline/_background.py`) | none of its own | loads template and documents, runs the runner, turns an exception into `failed` | created by the create and derive endpoints, lives in the event loop only |
| DAG runner (`core/dag_pipeline_runner.py`) | `_node_outputs` (cache), `_inherited_nodes`, loop position, one task per node of the layer | layer loop, `_execute_node_with_retry`, `_load_inherited_nodes`, `_handle_cancel` | database, signal manager, WebSocket events |
| Signal manager (`core/signal_manager.py`) | one signal and one resume event per run, under a lock | `set_signal`, `get_signal`, `wait_for_resume` | written by the control endpoints, read by the runner |
| Control and deletion (`api/v1/pipeline/control.py`, `runs.py`) | none | pause, resume, cancel, delete, create, derive | read the run document, then signal |
| Store (`db/crud.py`, `db/models.py`) | run documents, result documents | `update_pipeline_run`, `save_node_result`, `delete_pipeline_run`, `recover_orphaned_runs` | everything |
| WebSocket manager (`api/v1/websocket.py`) | connections per run | accept, one broadcast task per event, clean-up of dead connections | called by the runner's events, feeds the page |
| Event bus | queues | publish, subscribe | fire and forget |
| Test-planning review loop, crews, agents, tools | per node | language-model and HTTP work inside one node | seen by the runner as one outcome |
| Templates, agents, profiles, auth, export, artifacts | documents | CRUD | a template may change under a run |

### auto-at-ui (`src/auto-at-ui`, FastAPI + SQL + Temporal + file spool)

| Part | State it keeps | Hard behaviour |
|------|----------------|----------------|
| Test runs (`domain/runs.py`, `application/runs.py`, `api/v1/routes/runs.py`) | run with a version, outbox events | create, cancel and result requests racing the dispatched activity |
| Outbox publisher (`PublishOutbox`, `temporal_worker.py`) | one open transaction | effects outside the database stay when the marks of a batch are rolled back; an event that raises in a batch |
| Workflows and activities (`infrastructure/workflows`, `infrastructure/runners.py`) | Temporal histories, a pool of threads | retries, duplicate starts, cancellation of closed workflows, threads and executions nobody waits for |
| Codex bridge (`domain/codex_bridge.py`, `infrastructure/codex_bridge`, `infrastructure/vision/codex_batch.py`) | job directories shared by two processes, a row per job | every order of claim, cancel, response and acknowledge; deaths between two files; a session taken over by another worker |
| Vision (`domain/vision.py`, `application/vision*.py`, `workers/playwright/src/vision-operations.ts`) | lease with a fencing token, operations and frames in the database; browser, records and staged frames in the worker | an expired lease whose holder goes on, a request on its way to a worker that has been told otherwise, evidence that is lost |
| Playwright worker (`workers/playwright/src/server.ts`) | executions by run, cancelled runs, both in memory | two executions of a run, cancellation before and during one, restart |
| Dashboard, contracts | - | views |

### Front end (`src/packages/shared`, used by `src/apps`)

| Part | State it keeps | Hard behaviour |
|------|----------------|----------------|
| `WSManager` (`lib/wsManager.ts`) | one socket, its run, a retry timer | a socket replaced while its events are on their way; a timer that outlives the run |
| Session (`store/pipelineStore.ts`) | the run followed and the status shown | two sources, events and query answers, in any order |
| Run page (`components/pipeline/PipelineRunPage.tsx`) | a cached query | one query when it is shown; mounted and unmounted at any time |

The other pages, the sample application (`src/code`, `src/TodoCode`),
infrastructure files, plans and generated outputs hold no protocol of their own.

### What is hard in it

* Everything in the backend runs in one event loop and interleaves at awaits.
  A control handler reads the status, awaits, and signals: what it checked may
  be over. The signal is one slot per run: the last writer wins.
* Sibling nodes of a layer are concurrent tasks that all write the same run
  document, each from a cache that lacks the others.
* The runner reads signals only between layers; a pause waits with a timer that
  races the resume.
* A database call may raise before or after it took effect; the exception
  handler then writes a status over whatever is there.
* Background tasks live in memory. A crash leaves documents in any state, and
  recovery knows only two of them.
* A derived run takes results over from its parent by *layer*, while data flows
  by *edge*.
* The two sides of the bridge see each other one file at a time, and a side that
  starts again has only the files to tell what its predecessor had done.
* A click in a browser has happened or not; who asked for it may not learn which,
  and must neither repeat it nor call it undone.
* The page hears of a run twice, and the two tellings are not ordered.

### What makes each part correct

* **Resolver:** rejects exactly the templates with a cycle or an orphan; its
  layers hold each enabled node once, after everything it depends on.
* **Runner:** a node works only with all its inputs; `completed` means all
  nodes; a stored result exists for whatever was accepted; retries are bounded.
* **Status:** terminal statuses stay; a paused run has somebody who waits; no
  node works in a run that is paused or over; clients hear the status that is
  stored; every run ends.
* **Derivation:** nothing downstream of the rerun node is taken from the
  parent, and nothing taken over is executed.
* **Test-run dispatch:** a recorded verdict is what that execution of that run
  ended with, and is final; the outbox says about a run what the table says;
  every event is delivered, and delivering it again adds nothing that stays;
  after a delivered cancellation the workflow is over and nothing is executed.
* **Codex bridge:** a job is started at most once and decided once; the row and
  the caller say the same; the queue keeps its bound; every claim is answered.
* **Vision:** nothing happens that the database did not announce first; what is
  called undone was not done; no picture is deleted before it is stored; the
  trace of a session that is over is final; every session ends.
* **Following a run:** an end that is shown is the stored end; one socket feeds
  the session; no broadcast and no clean-up leaves a live connection out.


## 2. Modules

| Module | Models |
|--------|--------|
| `RunLifecycle` | the abstract promise of a run: two variables, the status and the set of accepted nodes |
| `PipelineRunner` | background task, layer loop, node tasks, signal manager, control and delete handlers, documents, crash and recovery of one run |
| `MCPipelineRunner` | templates of four and six nodes for TLC |
| `PipelineRunner_proofs` | the inductive invariant, the theorems, the refinement |
| `PipelineRecords_proofs` | extends it: result documents, inherited results, the list of completed nodes |
| `DagResolver` | validation and layers as functions of a template, and the two calls that use them; the properties are stated without queues, degrees and depths |
| `DagResolver_proofs` | that the functions compute what they should, for templates of any size |
| `TestRunDispatch` | create, cancel and result endpoints; the outbox and the publisher's transaction; the workflow of a run, its activity on a pool of threads; the Playwright worker |
| `MCTestRunDispatch` | one run and an unfavourable order of its events' ids for TLC |
| `TestRunDispatch_proofs` | the inductive invariant and the theorems of it |
| `OneShotCall` | the abstract promise of a call handed to somebody who may die: attempted once at most, decided once, accepted only if attempted. The bridge and vision both implement it |
| `CodexBridge`, `MCCodexBridge` | producer, consumer, spool directory and job rows, one file operation or transaction per step |
| `CodexBridge_proofs` | the inductive invariant, the theorems, the refinement of `OneShotCall` |
| `VisionOperations`, `MCVisionOperations` | lease, explorers and recovery, operations and frames, the browser worker and the requests on their way to it |
| `VisionOperations_proofs` | the inductive invariant and the theorems of it |
| `VisionDecisions_proofs` | extends it: no session ends with an operation open |
| `RunFollowing`, `MCRunFollowing` | stored status and events of a run, connection manager, network, `WSManager`, session store, page and query |
| `RunFollowing_proofs` | the inductive invariant and the theorems of it |
| `MCDagResolver` | every small template of four nodes for TLC |

`DagResolver` and `PipelineRunner` meet in `PlanAssumption`: what
`PipelineRunner` assumes of `Layers` and `Parents` (disjoint layers, INPUT alone
in its layer, dependencies in earlier layers) holds of the resolver's output for
every template that validates (theorem `ValidTemplateIsPlan`). What
`RunFollowing` assumes of a run (an end is stored before it is said, a pause said
before it is stored, nothing is said after the end) is the order in which
`PipelineRunner` sets `status` and `last_event`; `ClientsKnowTheEnd` is checked and
proved there.

### How `PipelineRunner` corresponds to the code

| Variables | Code |
|-----------|------|
| `status`, `completed_nodes`, `node_statuses` | fields of `PipelineRunDocument`; `"deleted"` when it is gone |
| `results`, `latest` | result documents of a node: how many are `completed`, and the kind of the newest, which `get_node_result` hands to derived runs |
| `pc`, `layer`, `todo`, `node_outputs`, `inherited_nodes` | locals and fields of the runner |
| `task`, `attempt` | the asyncio task of each node of the layer, and its attempt |
| `signal`, `resume_event` | the run's entries of `SignalManager` |
| `inflight`, `deleting` | control and delete handlers that have checked and not yet acted |
| `last_event` | the last `run.*` event handed to the WebSocket callback |
| `up`, `crashes`, `faults`, `calls`, `cancel_acked` | the process, the bounds, and the fact that a cancel was answered |

Grain of the actions. An action is a stretch of code between two awaits at
which another coroutine can change something that the stretch reads. Awaits that
touch only what nobody else writes are merged with their neighbours: the lock
inside `set_signal` is held for assignments only, and `get_signal` is one read.
A database call that may raise has, besides its success, two outcomes: the
exception before the write and the exception after it. `update_pipeline_run`
reads, updates and reads again, so both happen. The calls are those of the
background task, the runner and its nodes; a handler that raises answers an error
and changes no more.

Payloads are abstracted away: a node's output is the fact that it is in the
cache. Work of a node is one step with the outcomes the retry loop tells apart:
an output, an exception or timeout (another attempt), and a structured error
(final, no retry).

`delete_pipeline_run` is split into its check, its signal, the deletion of the
results and the deletion of the document; `save_node_result` goes on inserting
afterwards, as the code does. `Crash` erases everything in memory, `Restart` is
the start-up hook with `recover_orphaned_runs`.

### How `TestRunDispatch` corresponds to the code

| Variables | Code |
|-----------|------|
| `status`, `version`, `result` | the columns of `test_runs`; a result is an execution and its verdict |
| `pending`, `published` | `outbox_events` with and without `published_at` empty |
| `proposals` | triage proposals per run |
| `cancelling`, `posting` | requests that have read the run and not yet updated it |
| `step`, `batch`, `handled`, `drafts` | the publisher's open transaction: what it took, marked and added |
| `workflow`, `attempt`, `tries` | the Temporal workflow `auto-at-run-<id>` and its one activity |
| `thread` | the threads of the activity executor; `live` says that Temporal still waits for what the thread does |
| `executions`, `active`, `cancelledRuns` | the Playwright worker: what it ever executed, `activeExecutions`, `cancelledRuns` |
| `failures`, `restarted` | the bound, and the fact that the Playwright worker lost its memory |

Grain of the actions. A request or an activity that reads a run and updates it
under a version check is two steps. The publisher's transaction takes a step
per event, two for a cancellation, which calls two services; nothing of it is
visible in the database before `Commit`. An exception in it, or a crash, is
`Rollback`: the marks go, the calls stay. An activity is one step per call it
makes, so that a thread whose attempt has timed out goes on at its own pace, and
so does an execution whose HTTP request has timed out.

What is taken of the outside:

* Temporal starts a workflow id again when its last execution is closed (the
  default reuse policy; `start_run` gives none), raises while it is open, takes
  the cancellation of a closed workflow without effect, and raises for an
  unknown one.
* There is one publisher, as in the repository's compose file, which starts one
  worker process.
* `skipped` and `errored` runs are handled in the code like `passed` and
  `failed` ones, and are not told apart from them.
* Every update of a run is its last, so the version a request has read is 1.
* The random ids of the events are a constant, `Id`, about which the proofs
  assume that they differ.


### How `CodexBridge` corresponds to the code

| Variables | Code |
|-----------|------|
| `status` | the row of the job (`codex_bridge_repository.py`), written by the producer's side only |
| `dir`, `files`, `stage` | the job's directory: hidden, listed or absent; its files; the last stage in `events.jsonl` |
| `plock`, `heartbeat` | `.producer.lock`; a fresh `.heartbeat.json` that says ready |
| `pc` | where the call of `CodexModelBatch` is, one per job |
| `cpc`, `cur`, `todo`, `asof`, `doomed`, `result` | where the consumer's `_run_locked` is: the job in hand, the listed jobs, the deadlines as `reconcile` read them, the files it still has to unlink, the outcome of the process |
| `late`, `fenced` | the deadline has passed; another worker has claimed the session |
| `launches`, `crashes` | how often the CLI was started; the bound |

A step is what the other side can see as one: a file created, replaced or
unlinked, a rename, a transaction. Files are written beside their name and moved
over it; what matters of the temporary file is that a listing may contain it and
the look-up that follows may not find it, which `LoadFails` and
`ReconcileRaises` say. The content of requests and answers is an output or a
failure, the policy is a refusal that may come at any check, the receipt of an
authorisation is a file that expires, and the event stream of the CLI is the
outcome of the process.

### How `VisionOperations` corresponds to the code

| Variables | Code |
|-----------|------|
| `sess`, `reason`, `published` | the session row, and the mark of its outbox event |
| `token`, `held` | fencing token and lease of the session; an explorer is named by its token |
| `op`, `owner`, `frames` | operation rows: status, the token that created them, the stored frames |
| `pc`, `cur`, `result`, `why`, `answer` | a coroutine that has claimed the session: its place, its operation, what the worker told it, the reason it ends with, the HTTP answer on its way |
| `worker`, `expired`, `browser`, `job`, `pending` | the session in the browser worker: its memory, its deadline, the browser, the request being served, the operation prepared and not executed |
| `wop`, `wframes`, `acked` | the worker's record of each operation, the frames it staged, and that it deleted them |
| `effects` | how often the primitive happened in the browser |
| `mail` | requests on their way to the worker, which may arrive late or never |

Explorer 1 explores. Every later claim only recovers: it asks the worker what
became of the open operations, stores the evidence that is left, and ends the
session. Each commit of `application/vision_operations.py` is a step under the
check of owner, token and lease; each request and each answer is a step of its
own, and so are the stages of a job in the worker, between which its deadline may
pass and its browser may be closed. `abandoned` and `lost` are the statuses
`failed` and `unknown` where the control plane declared them, kept apart from
those the worker answered. What to explore is a free choice.

### How `RunFollowing` corresponds to the code

| Variables | Code |
|-----------|------|
| `status`, `half` | the stored status, and which of storing and saying the runner still owes |
| `queue`, `task` | the broadcast tasks not yet begun, and those under way with the connections still to be visited and those found dead |
| `registry`, `handler` | `ConnectionManager`'s sets, and the coroutine of each connection |
| `of`, `link`, `wire`, `opened` | the sockets: their run, whether they are broken, what is under way |
| `ws`, `attached`, `runId`, `retryCount`, `timer`, `heard`, `wsStatus` | fields of `WSManager`, and which sockets still have their handlers |
| `session`, `shown`, `ended`, `starting`, `busy`, `stopping` | the session of `pipelineStore.ts`; creations and cancellations that have been sent and not answered |
| `mounted`, `asked`, `fetch`, `cached` | the page, and its query: sent, answered, cached |

Of the runner only what is stored and said of the status is left; events of
layers and nodes are left out. What is under way on a link that breaks is lost.
The query is that of the session's run; the server reads and answers in one
step, the answer travels. Accepting a socket and greeting it are one step. A run
that is paused when the server goes down stays paused for ever, with nobody to
say anything of it. A POST whose answer is lost may have created a run
(`PostFails`), and is sent once more; a pause or resume that was answered makes the
query be sent again (`Invalidate`). Branches of the code that no step reaches (a terminal event
already heard in `OnClose`, no run in `TimerFires`) are kept.


## 3. What is checked

| Run | Instance | Question | Distinct states |
|-----|----------|----------|-----------------|
| `control` | diamond, `a` retries once and uploads, three control calls, a crash | every order of pause, resume, cancel with stale checks and a crash: `TypeOK`, `QuietWhenNotRunning`, `PausedHasWaiter`, `ClientsKnowTheEnd`, `EventuallyEnds`, `ImplementsLifecycle` | 13,912 |
| `records` | six nodes in two lanes, derived from any set of parent results, `a` retries once and uploads; two database exceptions, a crash, a cancel, a delete | `InputsComplete`, `CompletedMeansAll`, `CompletedNodesListed`, `ResultBound`, `AcceptedHasResult`, `InheritedSoundly` | 686,550 |
| `dag_resolver` | four nodes, up to five different edges, loops, doubled and dangling edges, disabled nodes | `ValidationVerdict`, `PlanRight` | 238,192 |
| `dispatch` | one run, its events in the order that puts the cancellation first, two threads, two attempts, two executions, cancel and result requests, two failures | `TypeOK`, `VerdictObserved`, `TerminalStable`, `OutboxTellsRun`, `OneProposal`, `PublishedIsDone`, `NoExecutionAfterCancel` | 1,833,101 |
| `dispatch_live` | the same with one execution and without result requests, under `FairSpec` | `Delivered`, `WorkflowEnds` | 66,376 |
| `bridge` | two producers, a queue of one, deadlines and expiring authorisations | `QueueBound` | 1,226,034 |
| `bridge_live` | one job; its producer may die, its session may be claimed by another, the consumer may be killed once anywhere but in a removal; under `FairSpec` | `RowAndCallerAgree`, `IsOneShotCall`, `Settled`, `ClaimAnswered` | 120,115 |
| `vision` | two operations, one trouble (a crash of the explorer, a lease that lapses under it, a restart of the worker), the worker's deadline at any moment; under `FairSpec` | `IntentFirst`, `SaidNotDone`, `AckedIsDurable`, `EndedIsDecided`, `EndedIsQuiet`, `IsOneShotCall`, `Ends` | 747,229 |
| `follow` | two runs one after the other, three sockets, one retry, two turns of trouble | `ShownEndIsTrue`, `ServedIsRegistered`, `OneSocket`, `NobodyPassedOver` | 1,876,566 |

Some properties have parts: `ValidationVerdict` is `CycleVerdict` and
`OrphanVerdict`; `PlanRight` is `PlanSound` and `LayersTight`;
`InheritedSoundly` is `InheritedNotDownstream` and `InheritedNotExecuted`;
`PublishedIsDone` is `RequestStarted` and `CancelledStays`; `RowAndCallerAgree` is
`DeliveredIsRecorded` and `CompletedIsDelivered`.

Bounds, and why they are enough. Three control calls are the fewest with which a
handler's stale check, a second request and the runner's reading of the signal meet in
every order (pause, resume, cancel). Two exceptions let the handler of the first one
raise as well. One crash: after it nothing is left in memory, and the restarted server
runs no task for the run; in `control` it may come while the run is paused. Two
siblings are what the races on `completed_nodes` take; behind the first node the plan
of `records` has two lanes of different lengths, the smallest in which "in a later
layer" and "downstream" differ, with a layer of two siblings of which one is inherited
or executed while the other is the rerun node. In the resolver four nodes have every
shape of cycle, of uneven lanes and of passage through a disabled node. Of test runs
one is enough: a run meets others only in the publisher's batch, where another run's
event that raises is the publisher's failure. Two threads and two executions overlap
in every way; two attempts are a retry and its end. Two failures come out of one
budget of exceptions, crashes and restarts, so that a redelivery may fail again, or
meet a restarted worker. `Limit` is 4, as large as the outbox gets, like 100 in a
system with fewer pending events.

In the bridge two producers are the fewest that can count the queue at the same time,
and one place is the smallest queue they can overfill. What happens to one job does
not depend on another except through the lock and the count, so crashes and takeovers
meet a single job, with one death of the consumer between any two of its steps; after
it the next life of the consumer finds what the last left. In vision the second
operation is what a stopped or unknown first one must prevent, and one trouble already
sets two explorers against each other while requests of the first are still on their
way; `troubles` also bounds the claims. The proofs hold for any number of both. Of
followed runs two are needed for a socket, a timer or an answer of the first to meet
the second, and three sockets for a retry of either. `MaxRetries` is 5 in the code;
with 1 both outcomes, one more attempt and giving up, are reached. A *turn* is one
thing besides the plain life of a run: a second run, a POST whose answer is lost, a
pause, the query that follows an answer to it, a stop, a failure said twice, a broken
socket, a failed query, a restart, a reload, leaving the page, coming back to the
window. `Ends` gives each run of the instance the end it may come to.

`CHECK_DEADLOCK FALSE` is set because a run that has ended, and whose users have
made their calls, has nothing left to do.

### Fairness

`FairSpec` asks for weak fairness of the runner, of each node task and of the
restart. The event loop schedules every ready task; a node's work is under
`asyncio.wait_for`, its backoff under `asyncio.sleep`, a pause under its timeout,
so each of these steps stays enabled until it is taken and is taken. The server
is assumed to be started again after a crash. Users are not obliged to call
anything, and database exceptions are never obliged to stop. Under it every run
ends, with one exception that `EventuallyEnds` names (`Stranded`): a run that is
paused when the server goes down, the second disagreement below. Database
exceptions are left out of that property (`faults > 0`), since the `except` clause
may meet another one.

`TestRunDispatch` has its own: the publisher polls for ever, the threads run,
and Temporal's timers fire. Users make no request they do not want to,
executions may go on for good, and failures owe nothing. That suffices, since
every wait of an activity is under a timeout of the transport or of Temporal.

In the bridge both loops are polled for ever. The consumer's service has
`restart: "no"` in the compose file, so that it is started again is assumed of the
operator; the outbox delivers the event of a dead producer to a worker that claims
its session. A directory is not read during a write every time, since the two
sides have timers of their own: hence the strong fairness of the consumer's
visits to a job. Deadlines need not pass. `ClaimAnswered` leaves out a consumer
that is stuck, see below.

In vision the publisher polls, every call of an explorer is under a timeout, and a
lease that nobody renews runs out. The browser worker owes nothing.

When a run is followed, the event loops of the server and of the browser get to
what they have to do, and queries that were sent are answered or fail. Runs, users
and troubles owe nothing; that a user who left the page comes back is assumed.

### Disagreements between code and documentation

Three of them are runs that expect a violation.

1. `lost_cancel`: a pause whose status check came before a cancel overwrites
   the cancel signal. The run comes to its next checkpoint and pauses there, is
   resumed, executes the other layers and completes, although `control.py:145`
   answered the cancel with "The pipeline will stop at the next checkpoint".
2. `paused_forever`: a run that is paused at a crash stays paused. Recovery looks
   for running and pending runs only (`crud.py:1263`), and its timer is gone
   (`Restart`); `backend/README.md:234` gives a maximum time for a pause.
3. `follow_missed`: the page asks for the run once, when it is shown. An answer
   read before the end that arrives after `run.completed` sets the session back to
   running; the socket is closed by then, and nothing asks again, although
   `PipelineRunPage.tsx:680` and `:687` call the query a polling fallback that
   syncs the status when events were missed. No trouble at all is needed
   (`MaxTurns = 0`).

The others were found with properties that are not among the runs; each can be
seen in the actions named.

4. Nodes of another lane in later layers are executed again by a derived run
   (`Inheritable`), although `runs.py:428` speaks of the downstream nodes only.
5. Result documents are stored for a run already deleted (the deletion and
   `SaveResult` interleave); `runs.py:374` deletes "all associated agent results".
6. A batch is rolled back after it started a workflow; the workflow closes, and
   the redelivered request starts another one (`Rollback`, `temporal.py:151`).
   ADR-002 of auto-at-ui (lines 17-19) says that duplicate publication "cannot
   start a second workflow for the same run".
7. A consumer killed between the two unlinks of a removal (`"removal"` in
   `Faults`) leaves a directory with a request and no claim, and the next one
   starts the job again (`spool.py:431`; `docs/codex-local-bridge.md:183`). If the
   request goes first, every later pass raises at the directory (`spool.py:434`,
   `Stuck`).
8. An exploration that stops twice, at a failed operation and at the next one it
   tries (`vision_operations.py:238`, `vision_trace_events.py:187`), ends with
   `visual_exploration_unavailable` where `docs/vision-agent-operations.md` says
   `worker_state_unavailable`.

Met while modelling and not given a run: `MAX_CONCURRENT_RUNS` is compared with
*running* runs, so pending ones slip through, and derive does not check it
(`README.md:227`); `MAX_PARALLEL_NODES` is not implemented although the
component table of `README.md:446` relies on it; the snapshot stored with a run
is not what is executed, the current template is (`README.md:446`,
`_background.py:62`); `node_statuses` is never `failed` (`models.py:360`); the
`run.paused` event precedes the stored status (`README.md:614`); the backoff is
1, 2, 4 s where `docs/pipeline-execution.md` says 5, 10, 20 s.

In auto-at-ui: with more pending events than a batch takes (an instance with
`Limit = 1` shows it), a cancellation may come into a batch before its request.
If the request was never delivered, Temporal raises in every round and nothing
is published any more (`Delivered`); if it was, in a batch that was rolled back,
it starts the workflow again after the cancellation (`PublishedIsDone`). A result
that is posted to the API asks for no report, although
`plan/13082026224723-terminal-run-reporting-agent/README.md:14` wants one
report event of every terminal result. A run whose workflow has used its
attempts stays queued (`definitions.py:48`). The staging files of artifacts are
unlinked before the transaction that records them commits (`runners.py:243`).

On the page: a cached or late answer also un-ends a session that the page is
mounted for again; the `finally` of a cancellation clears the session, even one
that was started meanwhile; the greeting of a socket is outside the `try`, so a
connection that dies in it stays registered until a broadcast finds it dead; the
`discard` of a broadcast's clean-up re-creates the empty set of a run nobody
follows; `usePipelineWebSocket` ignores `run.cancelled`, which the session
handles. In a node, the thread of a crew that timed out goes on
(`dag_pipeline_runner.py:761`).


## 4. What is proved

Every safety property that a passing run checks is also a theorem for all values
of the constants. What a theorem leaves out is a hypothesis of its own, and is named
here.

### Pipeline runner

`PipelineRunner_proofs` proves, for every template that satisfies
`PlanAssumption`, every retry table and every number of calls, crashes and
exceptions:

| Theorem | Statement |
|---------|-----------|
| `TypeCorrect` | `Spec => []TypeOK` |
| `Quiet` | `Spec => []QuietWhenNotRunning` |
| `PausedIsWaiting` | `Spec => []PausedHasWaiter` |
| `EndIsTold` | `Spec => []ClientsKnowTheEnd` |
| `InputsAreComplete` | `Spec => []InputsComplete` |
| `CompletedIsComplete` | `Spec => []CompletedMeansAll` |
| `Refinement` | `Spec => ImplementsLifecycle`, when `MaxFaults = 0` |
| `TerminalStays` | `Spec => TerminalStable`, when `MaxFaults = 0` |

The only assumptions are `PlanAssumption` and `ParameterAssumption`; TLC
evaluates both on every run of `MCPipelineRunner`.

The argument. None of the properties is inductive: that a completed run has all
its nodes depends on where the loop is, and where the loop may be depends on the
layers it has left behind. The inductive invariant `IInv` has three parts:

* `TypeInv`: the types, and a layer number inside the plan while the loop needs
  one;
* `ControlInv`: the tie between the task's place and the stored status (before
  the start it is `pending`, in the loop `running`, around the wait `paused`,
  each unless the document is deleted or an exception was raised); node tasks
  are at work only under `gather`; a task is dead exactly when the process went
  down; the last event tells the end;
* `PlanInv`: nothing is accepted before the start; INPUT is seeded first; only
  inheritable nodes are inherited; every layer behind the loop is accepted in
  full; tasks at work belong to the current layer; and `CompletedMeansAll`.

`NodeFrame` and `ApiFrame` say once what node tasks and API handlers leave
alone, so the parts of the invariant that speak of the rest survive their steps
at no cost. `Refinement` maps `accepted` to `node_outputs`; `CollectIsExecute`
is its core: the nodes accepted after `gather` are an antichain whose parents
were accepted before. It is stated for runs without database exceptions: an
exception raised after "completed" was stored makes the handler store "failed",
which no lifecycle allows. That case is a hazard of the code, not of the proof,
and is one of the steps of the `records` run, where the property is not claimed.

`PipelineRecords_proofs` goes on from there to what a run leaves in the database,
under the same two assumptions and with exceptions and crashes included:

| Theorem | Statement |
|---------|-----------|
| `ResultsAreBounded` | `Spec => []ResultBound` |
| `AcceptedIsStored` | `Spec => []AcceptedHasResult` |
| `InheritanceIsSound` | `Spec => []InheritedSoundly` |
| `LastListIsWhole` | `Spec => []CompletedNodesListed` |

Its invariant `RInv` adds to `IInv`:

* `Reached`: a task that has started is of a layer the loop has come to, and of one
  it has left unless it stands at `gather` or behind it. So nodes of a new layer are
  `idle` and have no document, and a failure, once the loop has left `gather` for
  good, stays where it is;
* `Tries`: the number of documents of a node against its attempt and its phase. One
  more than the attempts before is possible only after the insert, and without
  uploads and exceptions nothing behind the insert fails;
* `Inherited`: what is taken over is inheritable and never executed. That going by
  layers is enough is a fact about plans, `InheritableIsSound`: a set of nodes that
  holds the rerun node and all of the later layers is closed under children, so
  everything downstream is in it;
* `AllStarted`, `Accepted`: all tasks of a layer are started together, so what is
  accepted was inherited or ended well; `Documents`: the newest document of such a
  node is an output. An inherited output is cached before its copy is stored, so a
  copy that raises leaves one without a document: it is allowed to a run that has left
  its loop and will not be completed (`CopyFailed`), and to nobody else.
  `FailureFound` keeps the failed node's document, which is written later, away from
  the others: it goes to the first failure of the layer;
* `Listed`: the list is whole when the last node wrote it, since the cache from
  which it is built had all earlier layers by then.

The attempt to prove `CompletedNodesListed` showed that it was stated too broadly. A
template whose only enabled node is INPUT passes validation when OUTPUT is disabled,
its one layer is skipped, and the run completes with an empty list while the cache
holds INPUT. The property now asks for a last layer that is executed (`LastAlone`).

### Test-run dispatch

`TestRunDispatch_proofs` proves, for any finite set of runs, any threads, ids,
batch size, number of attempts, executions and failures:

| Theorem | Statement |
|---------|-----------|
| `TypeCorrect` | `Spec => []TypeOK` |
| `VerdictIsObserved` | `Spec => []VerdictObserved` |
| `OutboxAgrees` | `Spec => []OutboxTellsRun` |
| `ProposedOnce` | `Spec => []OneProposal` |
| `TerminalStays` | `Spec => TerminalStable` |
| `RequestIsStarted` | `Spec => []RequestStarted` |
| `CancelledIsQuiet` | `Spec => NoExecutionAfterCancel` |
| `CancelledIsStopped` | `Spec => []CancelledStays`, when `EventsFit` |
| `DeliveredIsDone` | `Spec => []PublishedIsDone`, when `EventsFit` |

The assumption is `DispatchAssumption`, evaluated by TLC in every run of
`MCTestRunDispatch`. `EventsFit` (all events go into one batch) is a hypothesis
of the last two theorems alone; section 3 tells what happens without it.

The argument. The inductive invariant `IInv` follows a verdict on its way, one
part per place, and each part leans on those before it:

* `TypeInv`: types, an attempt that is due is within the policy, a thread with
  an answer has a verdict;
* `OutboxInv`: batch and marks are of pending events, each handled once; a
  proposal comes and goes with the mark of its event;
* `WorkflowInv`: whatever a thread executes has had a workflow;
* `ActiveInv`, `WaitInv`: the worker's map points to executions that go on, and
  a thread waits for an execution of its own run;
* `RunInv`: the version is 2 exactly for finished runs, which is why a stale
  reader always fails; the verdict is the execution's; outbox and table agree.

`ToldInv` and `CancelInv` add what the outside was told before a mark.
The lemmas `ThreadsMove`, `RunsMove`, `WorkflowsMove`, `ExecutionsMove` and
`MarksMove` say once which of the 27 actions touch what, so each part is proved
by the handful of actions that concern it.

### Vision operations

`VisionOperations_proofs` proves, for any number of operations and of troubles:

| Theorem | Statement |
|---------|-----------|
| `TypeCorrect` | `Spec => []TypeOK` |
| `EndIsQuiet` | `Spec => EndedIsQuiet` |
| `IntentComesFirst` | `Spec => []IntentFirst` |
| `UndoneIsUndone` | `Spec => []SaidNotDone` |
| `NothingIsLost` | `Spec => []AckedIsDurable` |
| `OperationIsOneShotCall` | `Spec => IsOneShotCall` |

The assumption is `VisionAssumption`, evaluated by TLC in the run `vision`.

The argument. `EndIsQuiet` needs only that whoever ended the session holds its
lease and is past its last write (`Quiet`): every write compares the lease. The
rest goes through the inductive invariant `IInv`, which says of everything that is
on its way between the database and the browser what it may still lead to:

* `TypeInv`: types, and who can be at work where (`Who`): the first explorer
  explores, the later ones recover, and a job of the worker is on an operation
  that it knows;
* `WorkerInv`: what a record and a job of the worker say about the browser
  (`Record`, `AtWork`), so that each operation has its effect once at most;
* `Announced`: what was sent, is executing or has happened is dispatched in the
  database, with its picture; `Requests`: a request to prepare is of an operation
  the worker does not know yet;
* `Explorer`: what the first explorer remembers agrees with the trace as long as
  nobody else has claimed the session;
* `Rejected`: an operation that anybody calls rejected is `Dead`: it has not
  happened, its request will be answered and not executed, and if it is being
  served, then behind a deadline that stops it. This is the part that
  `SaidNotDone` hangs on: the deadline of the worker may reject an operation
  whose execution has begun, and only the order of *set the status, then look at
  the deadline* keeps the primitive from happening after it;
* `Happened`: whoever says completed or failed, in a row, a result or an answer,
  speaks of an effect; `Evidence`: whoever acknowledges has stored the frames it
  names.

`TraceMoves`, `WorkerMoves`, `MailMoves`, `SessionMoves` and `FirstMoves` say which of
the 42 actions touch what. `OperationIsOneShotCall` then takes three facts: an
effect changes while no row does (`EffectIsSilent`), one row changes at a time
(`OneRow`), and only an open one (`TraceGrows`).

`VisionDecisions_proofs` proves `EndIsDecision`: `Spec => []EndedIsDecided`. This is a
property of several operations and several explorers: whoever ends the session must
have dealt with operations that others left open. Its invariant adds to `IInv` and
`Quiet`

* `Contiguous`: operations are begun one by one, so nothing follows an open one;
* `Begun`: explorer 1 has begun all the operations up to the one it has reached;
* `Entrusted`: an operation still open is one that the owner of the lease has in hand
  (`Undecided`): for explorer 1 the one at work, for a recovering one those it has
  not come to. An explorer whose agent was switched off is exempt, as in the code:
  it ends the session without having looked.

`Opening` is the heart of it: only explorer 1 opens an operation, while it owns the
session, and then no other is open.

### Codex bridge

`CodexBridge_proofs` proves, for any set of jobs, any bound of the queue and any
number of crashes:

| Theorem | Statement |
|---------|-----------|
| `TypeCorrect` | `Spec => []TypeOK` |
| `QueueIsBounded` | `Spec => []QueueBound` |
| `RowsAgree` | `Spec => []RowAndCallerAgree` |
| `LaunchedOnceOnly` | `Spec => []LaunchedOnce`, when `"removal" \notin Faults` |
| `BridgeIsOneShotCall` | `Spec => IsOneShotCall`, when `"removal" \notin Faults` |

The hypothesis of the last two excludes a consumer killed between two unlinks of a
removal (item 7 of section 3): it may leave a directory whose claim is gone and whose
request is not, and the next consumer starts the job again. The other three hold with
that fault too. `NamesAssumption` keeps the jobs apart from the model's names for the
holder of the lock.

The argument. The two sides know of each other what the files say, so the invariant
says of each file what the other side may be at while it is there:

* `TypeInv`: types, and what the consumer holds at each place of its visit;
* `Locks`, `Counted`: between its count and its rename a producer holds the lock, so
  the count stays right; reconciling, which removes directories, holds it too;
* `Told(j)`: an acknowledgement is there only after the caller was given the result,
  a cancellation only if the producer went another way; until the deadline a job
  is removed only when its producer is done with it, so an answer that was read is
  still there when it is acknowledged. The deadline (`late`) is the one way out, and
  appears in the property as well;
* `Started(j)`: after a launch something stands in the way of another one
  (`Spent(j)`): the claim, the deadline, a request that no longer loads, or a removal
  under way of a job whose producer adds no files. A consumer that is about to
  launch holds the claim of a job that was not launched.

### Following a run

`RunFollowing_proofs` proves, for any number of runs, sockets, broadcasts and retries:

| Theorem | Statement |
|---------|-----------|
| `SocketIsTheSessions` | `Spec => []OneSocket` |
| `ServedConnectionIsRegistered` | `Spec => []ServedIsRegistered` |
| `BroadcastReachesAll` | `Spec => NobodyPassedOver` |
| `ShownEndIsTheRuns` | `Spec => []ShownEndIsTrue` |

`ShownEndIsTheRuns` has a hypothesis in the model itself: an end that is stored
stays. The background task breaks it in one case, a database exception after the
write of the end, upon which it stores `failed` over it and says so
(`_background.py:104-117`); `RunFollowing` has no database exceptions, and
`PipelineRunner` shows the case.

The argument. An end is stored before it is said (`Halfway`) and is not changed
afterwards, so an end on its way stays true wherever it is, provided that it cannot
get to a session of another run. `OnItsWay` says the first for the queue, the
broadcasts under way, each wire, and the query and its cache; the second needs

* `Sockets`: a socket has its run from the time it is opened, and before that
  nothing refers to it (`Fresh`);
* `Routes`: registered connections and those a broadcast still has to serve are of
  its run, and what it found dead is dead, so its clean-up takes nobody out who is
  served;
* `Following`: `OneSocket`, and the run that `WSManager` has in mind is the session's
  as long as a socket feeds it.

### DAG resolver

`DagResolver_proofs` proves, for templates with any number of nodes and edges, loops,
parallel and dangling edges among them:

| Theorem | Statement |
|---------|-----------|
| `VerdictIsRight` | `Spec => []ValidationVerdict` |
| `LayersAreRight` | `Spec => []PlanRight` |
| `ValidTemplateIsPlan` | the layers and parents of a template without errors satisfy `IsPlan`, which is `PlanAssumption` |

The only assumption is `TemplatesAssumption`: the shape of a template. That node ids
do not repeat is what the dictionary built in `__init__` makes of them
(`dag_resolver.py:48`).

The argument. The functions are defined by recursion over nodes or edges. No induction
theorem of the library can be used, because it takes an operator, so the module has
two of its own that speak of sets and functions only: `Recursion` (a step given as a
function defines a function) and `Induction`, both from the least element of a set of
naturals. Each recursive definition then has a lemma with its equations
(`SiftedSteps`, `ReleasesSteps`, `TurnsSteps`, `FrontiersSteps`, `DepthsSteps`), where
the step that opens the definition is Zenon's alone: it compares the two texts, and SMT
is not to be relied on for a choice whose predicate has a set image in it. With these,
the loops of the code have the invariants one would write beside them:

* `Right(g, s, R)`, of Kahn's algorithm: when the edges at the places `R` have been
  removed, the degree of a node counts its other arrivals, a node has entered the line
  exactly if there are none, nobody entered twice, and each is behind its parents.
  `ReleaseKeeps` carries it over one edge, `TurnKeeps` over one node, `TurnsRight` to
  the end. What is left over then has a parent that is left over, which is a cycle
  (`CycleIsLeftOver`); and the first node of a cycle to enter the line would be
  behind its parent in it.
* of the search: what has been visited is within every closed set, and is closed or
  has more nodes than there were rounds (`ReachableIs`).
* of the depth table: the entries of the first `k` nodes are final, since the parents
  of a node are before it in the order (`DepthsSettled`).

Hence depth grows along every edge, and a node of depth `d + 1` has a parent of depth
`d` (`DepthFacts`). That a follower is in a later layer, also through disabled nodes,
comes of applying the definition of "follows" to the set of the node and everything
deeper (`FollowsDeeper`); the same gives INPUT a layer of its own, even when a disabled
node has an edge into it (`InputAlone`).

### Only model-checked

Liveness (`EventuallyEnds`, `Delivered`, `WorkflowEnds`, `Settled`, `ClaimAnswered`
and `Ends` need fairness, out of the prover's reach). The three violations of section
3 are counterexamples. The types of `RunFollowing` are part of its proof (`TypeInv`)
except for the length of the event queue in `TypeOK`, which counts what runs can still
say.


## 5. Not modelled

* Several runs at once and the admission limit; a run's own protocol does not
  refer to other runs.
* Events of layers and nodes on their way to the page, its logs and node results,
  and the other pages. `PipelineRunner` ends where an event is handed over,
  `RunFollowing` begins there, for the events that tell the status.
* What happens inside a node: crews, language models, HTTP and tools, and the
  thread that a node timeout leaves behind.
* Reading, exporting and converting results; CRUD of templates, agents,
  profiles and users; front ends.
* Of test runs: promotion of artifacts, activity timeline and audit events,
  preflight, and the events of generation and vision, which pass through the
  same publisher; what happens inside an execution.
* Of the following of a run: database exceptions in the run that is followed, which
  may move a stored end (section 4); other templates than the page's.
* Of the bridge: the payloads, the parsing of the CLI's event stream, the sandbox
  and the policy's rules. Jobs of other sessions enter through the queue's count.
* Of vision: model calls, the queue of branches and the checkpoints, the rules for
  origins, the redaction of pictures, database exceptions, preflight; the session
  state `cancelled`, which the code compares with and nothing stores.
* The test-planning review loop: one coroutine inside one node, whose attempts are
  bounded by a `for`; nothing else sees its state.
* The event bus, authentication, templates, agents and profiles, proposals and
  reporting: single documents or fire-and-forget observers, without a protocol.


## 6. What would come next

In order of weight. The first four of the modules in section 2 came first because
everything else hangs on them; then the two protocols with a fault model of their
own (the bridge and vision); then the page, which closes the way from a stored
status to the user.

1. Many pipeline runs at once: admission, the template store between admission and
   execution. Abstract specification: at most `MAX_CONCURRENT_RUNS` runs execute.
2. `TestRunDispatch`: artifacts promoted in the transaction of the verdict, the
   events of generation and vision in the same outbox, and the life of a run
   (queued, one terminal result, then nothing) as an abstract specification.
3. Proofs: what survives a database exception in `PipelineRunner`, as an abstract
   specification weaker than `RunLifecycle`; and that the delivery of an event
   twice changes nothing in `TestRunDispatch`, without `EventsFit`.
