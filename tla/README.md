# rsharness in TLA+

rsharness runs remote-sensing tasks for agents: an HTTP API resets an *episode*
of a task and then takes its *steps* (map actions, tool calls, saved evidence, an
answer), keeps every step in SQLite together with a trace of events, stores
artifacts by digest, renders map views in a browser service, and evaluates the
answer. Around it stand an agent gateway and a model runner, a credential control
plane, a quota ledger for the runtime disk, an artifact broker, a cross-task
evidence memory and the offline admission of data.

This directory models the parts that several threads, processes or handlers share
as state machines, and the sequential algorithms as operators; it checks both with
TLC on small instances, and proves for every value of the constants what TLAPS can
prove. Paths below are relative to `src/`, those that start with `core/` to
`src/harness_api/app/`; `PROJECT.json` gives the lines of every definition.

## 1. Inventory

| Part | State | Operations | Talks to | Module |
|---|---|---|---|---|
| **Episode store** `core/store.py` | SQLite tables of episodes, events, observations, action results, artifacts, evidence, evaluations | `create_episode`, `step`, trace pages, migrations | reducer, tools, renderer, evaluators | `EpisodeStore`, `Traces`, `Migrations` |
| **Durable tool runs** `core/tool_execution.py` | rows of `v2_tool_runs`: running, completed, failed; a 90 s lease | reserve, invoke (unlocked), finalize, recover | episode store, tool executor | `EpisodeStore` |
| **Reducer** `core/domain.py`, **budgets** `core/budgets.py` | none (pure) | `apply_action`, `update_budget`, `exhausted` | called in the step's transaction | `EpisodeStore`, `Budgets` |
| **Artifacts** `core/artifacts.py`, `core/artifact_identity.py` | content files by SHA-256 | `put_bytes`, `read_content`, derivation identity, byte ranges | broker, store | `EpisodeStore`, `HttpRanges` |
| **Execution replay** `core/execution_replay.py` | none | `validate_snapshot`, re-execution, comparison | a copy of the store | `Replay` |
| **Renderer sessions** `harness_renderer/app/`, `core/renderer/terriamap.py`, `ui/eo-harness-ui.js` | one browser context per episode; the page's desired map state | create, apply, capture, close | called by the step inside its transaction | `RendererSessions` |
| **Quota ledger** `core/storage/quota.py` | reservation rows, one kernel lock per scope, the files | `hold`, `reconcile`, snapshot | every writer of the runtime disk | `StorageQuota` |
| **Artifact broker** `storage_broker.py` | objects, temporary files | PUT, GET, HEAD | quota ledger, artifacts | `StorageBroker` |
| **Evidence memory** `core/evidence_memory.py`, `scripts/manage_evidence_memory.py` | append-only hash-chained log per scope | publish, invalidate, pinned search | quota ledger, tool `memory.search` | `EvidenceMemory` |
| **Control plane** `control_plane.py`, `agent_credentials.py`, `scripts/issue_agent_session.py`, `scripts/manage_agent_registry.py` | credential registry, audit log, session directories | issue, reuse, rotate, revoke, resolve | gateway (reader), quota ledger, `POST /v2/reset` | `ControlPlane` |
| **Agent gateway** `agent_gateway.py` and **runner** `scripts/run_qwen_agent.py` | four slots; the runner's checkpoint with its pending action | authenticate, project, forward; ask, send, resume | API | `AgentRunner` |
| **Evaluators** `core/evaluation.py` | none | score a final state | called in the answer's step | `Evaluation` |
| **Raster and temporal tools** `core/raster_*.py`, `core/temporal.py`, `core/tools/`, `raster_bridge.py` | none | resample, band math, zonal statistics, pairs of dates and their stacks | called between a reservation and its finalization | `Raster`, `RasterTools`, `Temporal`, `Zones` |
| **V1 store** `store.py`, `domain.py` | V1 tables | one transaction a step | nothing else | `EpisodesV1` |
| **Data admission** `core/data/` | receipts, extracted windows | offline parsers, readers of remote objects, validators | file system, publishers | `HttpRanges`, `Windows` |
| **HTTP applications** `main.py`, `core/api.py` | none | routing, envelopes, error mapping | stores | partly in the modules above |
| **Physical usage audit** `core/storage/physical_usage.py` | none | a read-only report | file system | none |
| **Operator scripts, contracts, benchmarks** `scripts/`, `contracts/`, `config/`, `tasks/` | none | one-shot drivers and generated files | everything | none |

### Where it is hard, and what correct means

*Episode store and tool runs.* A step is one `BEGIN IMMEDIATE` transaction, but a
tool call is three: reserve, invoke without a lock, finalize. In between, other
threads (of this process or another) step the episode, retry the id, reuse it with
other arguments, or settle the run because its lease is over; the tool may answer
after that; the process may die. Correct means: an id is decided once and its
answer never changes; a reservation protects the version and the budget it was made
on; no budget is charged and lost, the trace reads as one action at a time and can
be replayed; an episode ends once; an abandoned run does not block it for ever.

*Renderer sessions.* Node handlers interleave at their awaits; the adapter gives a
request up after 45 s and the handler goes on. Correct means: the image a step
registers shows the step's view, and browser contexts are not lost.

*Quota ledger and broker.* Kernel locks die with their process, rows do not; a file
may vanish under a scan; a coroutine is interrupted between the blocks of a body.
Correct means: writers never overlap, what is granted is there, no object is
published in part, and what a crash leaves behind is counted.

*Evidence memory.* Checks on one snapshot, append in another transaction, and only
an external lock between them. Correct means: the log can always be folded, limits
hold, a pinned task sees the same memory for ever.

*Control plane.* One command writes three directories and calls the API, with no
transaction over them; any command may die anywhere, and reservations are refused
rather than waited for. Correct means: no lost update, no second reset, no stranded
token, and an audit log that never lies about the registry.

*Gateway and runner.* A deadline covers the wait for a slot, the backend is not told
when it passes, and the runner may die between any two lines. Correct means: what
the model asked for is done once, under one id, and its result reaches the model.

*Evaluators, rasters, temporal pairs, zones.* Sequential, but long chains of checks
whose order and boundaries no test enumerates. Correct means: a verdict depends on
what the agent cites and on nothing it cannot influence; a product tells only of
what can be seen; the executors that rebuild each other's lineage agree.

*Records.* Migrations rebuild tables in place; a replay compares some fields and
ignores others; the first API repeats answers after later steps. Correct means: no
row is lost, and exactly the untouched record passes.

*Data from elsewhere.* An object may change at its publisher between two requests of
one read; sources run out in the middle of an extraction. Correct means: the bytes
are those of the pinned object, and what was written can be verified.

The full list of hazards, each at its line with the properties aimed at it, is
`hazards` in `PROJECT.json`.

## 2. Modules

State machines (an arrow points to what a module extends or instantiates):

    EpisodeStore -> Budgets         EpisodeStoreProperties -> EpisodeStore, AtomicEpisode
    AgentRunner -> AtomicEpisode    StorageBroker -> StorageQuota
    EvidenceMemory                  ControlPlane               RendererSessions

Algorithms, each with the module of its inputs and of what must hold of them:

    EvaluationCases -> Evaluation -> Fractions
    RasterCases -> RasterTools -> Raster, Temporal -> Fractions
    StoreCases -> Migrations, Traces, EpisodesV1, Replay
    DataCases -> Zones, HttpRanges, Windows
    MCAlgorithms -> the four modules of cases

What stands for the source's `None` is one constant of all of them (`Absence`).

Proofs, each about the module or modules it extends: `EpisodeStoreProofs`,
`StorageProofs` (ledger and broker), `EvidenceMemoryProofs`, `ControlPlaneProofs`,
`RendererSessionsProofs`, `AgentRunnerProofs`; `AlgorithmProofs` about the choice of
dates, byte ranges and windows; `RecordProofs` about migrations and the first API, and about the
specification `MCAlgorithms` itself. The modules that start with `MC` hold the values of constants that a `.cfg` cannot write, and symmetries.

Definitions marked "mutant" are faulty variants of the definition that follows them.
They are used by no specification; `PROJECT.json` (`mutants`) names the property each
one breaks when it takes the definition's place.

### EpisodeStore, with Budgets

One episode; rows of different episodes never meet. `episode`, `events`, `results`,
`runs`, `artifacts` are the tables; `pc`, `request`, `pending`, `held` are what each
request thread has in its local variables; `elapsed` is the wall time; `spent` and
`reply` are history (what was really consumed, and the answer given in this step).
`spent` is charged in the action that charges the budget: `BudgetExact` is about the
clamp, not about a transaction that forgets its charge.

| Action | Code |
|---|---|
| `StartStep`, `Recover` | the head of `step` and `recover_tool_runs`: the running rows are read first and settled in transactions of their own |
| `Retry`, `ReusedId`, `Busy`, `StaleVersion` | the early returns of the step's transaction, in the code's order |
| `ToolRejected`, `ReserveTool` | `_reserve_tool`: policy, plan, budget, then the reservation and `action.accepted` |
| `FinalizeTool`, `LateFinalize` | `_finalize_tool` in time, or after somebody else settled the run |
| `RejectStep`, `CaptureConflict`, `CompleteStep` | the rest of `step`: reducer, capture, evaluation, events, the rows and the commit; the recorded failure; the failure that rolls everything back |
| `Abandon` | a thread that dies, loses its client or cannot get the database lock |
| `PassTime`, `ExpireLease` | the two clocks; a lease may expire at any time, for nothing ties it to how long a tool takes |

All map actions are one (`map.set_view`); what makes an action inadmissible (policy,
geometry, schema) is one nondeterministic kind of action. A capture is what the
deterministic renderer draws for a view, so equal views have equal bytes.
`AtomicEpisode` is what an episode promises: requests are decided at once or
reserved and decided later, one at a time, each on the version it was sent for.

### AgentRunner

The runner's loop, one action per checkpoint it writes, request it posts and answer
it takes (`Start`, `ResumePending`, `AskModel`, `OutOfTurns`, `Prepare`, `Post`,
`Receive`, `Save`, `Dies`); the gateway's slots and deadline (`TakeSlot`, `Forward`,
`Deadline`); and the backend's handlers (`Repeat`, `TakeUp`, `Decide`). `mem` is what
the process knows, `disk` its checkpoint. A request leaves the gateway when its
deadline passes, but what was forwarded goes on. The backend's part is the promise
of `AtomicEpisode`, whose actions `TakeUp` and `Decide` take; `EpisodeStore` is shown
to keep that promise, so the two runs together cover the way from the model to the
database. Which calls the model makes is arbitrary.

### RendererSessions

The adapter's `render` (create, apply, capture, one request after another), the commit
of a step (`Finish`) and the `close` that follows the commit of one that ends the episode
(`SendClose`, `Closed`), and the handlers of the service, one action between two awaits. A page holds its desired state, its layers and its camera; `applyState`
writes the first two at once and the camera when the zoom is done. A request that is
given up (`GiveUp`: the adapter's timeout, or the death of the API) leaves its
handler running; `NeverHeard` is the death of the API before it sends a request, also
between the commit and the close, or a service that cannot be reached. `KeepSession` overwrites the session without looking, as the code
does. The browser and TerriaMap are external: they show what they were last told.

### StorageQuota and StorageBroker

`hold` is taking the kernel lock, the granting transaction, writing, and the closing
transaction; `Abandon` is death anywhere, which frees the lock and leaves the row.
Files also change outside the ledger (`Remove`, `Stray`). `StorageBroker` composes it
with the coroutine `put`, which gives way only while it waits for a block of its
body: the broker's uploads and the other writers take from one ledger, refuse each
other, die and reconcile. It reuses the ledger's operators and has its own actions
for what `put` does between two awaits. Files are bytes per scope.

### EvidenceMemory

`Start` takes the store's reservation, `Check` decides on a snapshot, `AppendEvent`
is the appending transaction, `Report` ends the command, `Stop` is death or an
exception anywhere. `Pin` freezes a snapshot into a task, `Search` answers for it. A
record is its hash, and a prefix of the log stands for its head hash.

### ControlPlane

Runs of the two scripts. One action per file written, per audit line, per
reservation taken or refused, and per read of the registry that a later write
depends on; `Stop` is death or refusal anywhere, which also frees reservations and
may leave a partial audit line. `Tick` lets sessions and the policy expire.

### The algorithms

Here a definition is a function of the code: the same checks in the same order, with
the data they compare abstracted. Scores and pixel values are exact fractions
(`Fractions`); a raster is a row of two to four pixels with a value and a mask; a
polygon lies on a small grid; a hash is the tuple of what it digests; a file is its
length, its digest and a flag for each way it can fail a check.

| Module | Code |
|---|---|
| `Evaluation` | the five evaluators, `_aggregate`, `evaluate_safely`: codes of failure in their order, metrics, reward |
| `Raster` | reading and warping of bands and masks, NDVI, masked NDVI, NDMI, statistics, the two-date stack, and the validators |
| `RasterTools` | the executors (plan, call of the provider, check of its answer, lineage) and the router; the provider may be late, down, garbled, or answer an earlier request |
| `Temporal` | `select_temporal_pair` |
| `Zones` | admission of a polygon, pixel centres inside it, the zonal result |
| `Migrations`, `Traces` | the schema versions on the rows they move; pages by cursor, `structural_replay` |
| `EpisodesV1` | reset, step, trace and hash of the first API, its view geometry on a coarse map |
| `Replay` | `validate_snapshot`, the re-execution of a small task, the comparison |
| `HttpRanges` | the answer to a `Range` header; `BoundedHTTP`, `RangeSource`, `RangeFile` |
| `Windows` | the extraction of windows from a table of images, and its verifier |

`MCAlgorithms` is one specification over all of them: a behaviour takes one case, and
each property compares what the code computes for it with a reference (Pick's
theorem for zones, RFC 9110 for ranges, the line for interpolation) or with what it
computes for a related case (evidence in another order, numbers under a mask
changed, dates exchanged, a record edited). An operator that takes the result of
another one as a parameter, as `WithAnswer` does, only names that result.

## 3. Runs

| Run | Shows | Distinct states |
|---|---|---|
| `episode_store` | Two threads, two tool runs, six requests (tool calls retried, reused with other arguments, raced by steps): `TypeOK`, `ReservationHolds`, `DecidedOnce`, `TraceReplays`, `AnswersAreDurable`, `DecisionsStand`, and the refinement `AtomicEpisodeSpec` | 0.22 M |
| `episode_rendered` | The same store rendering views, saving evidence, answering and evaluating, with derivation identities: `BudgetExact`, `ProvenanceUnique`, `EvaluationFollowsAnswer` | 0.43 M |
| `episode_liveness` | Under `FairSpec`: `ReservationSettles` | 20 k |
| `episode_capture` | Violation of `FailuresRecorded`, see findings | |
| `storage` | Two processes write a directory, its child and one object, reconcile, die and meet files that come and go: `WritersDisjoint`, `HeadroomKept`, `WithinLimit`, `PublishedIsWhole`, `CrashesAreCovered` | 1.5 M |
| `evidence_memory` | Two runs of the script, three records, two active ones: `LogReadable`, `ActiveWithinLimit`, `ReplacementWasActive`, `SearchesAgree`, `RetriesConfirmed` | 0.12 M |
| `control_plane` | Two runs of the scripts on two jobs of one subject: `OneReset`, `TokensKept`, `AuditAgrees`, `IssuedWithinLimit`, `CredentialsMoveOn` | 2.4 M |
| `renderer_sessions` | Two views, two faults (requests given up or never heard, also the close after a commit; pages that fail to load), one restart: `ImagesShowTheirView`, `ContextsAccounted` | 0.58 M |
| `agent_runner` | Under `FairSpec`, a runner that dies, is given up and started again: `ExactlyOnce`, `PendingSettles` | 0.23 M |
| `agent_pending` | Violation of `PendingBeforeSend`, see findings | |
| `algorithms` | Every case of the sequential parts: `VerdictsAreFair`, `RastersAreHonest`, `DerivationsAreSound`, `SelectionIsStable`, `MigrationKeepsRows`, `RecordsReplay`, `FirstApiRepeats`, `ZonesCountPixels`, `RangesAreExact`, `WindowsVerify` | 0.13 M |
| `evaluation_temporal` | Violation of `SelectionScored`, see findings | |

Properties that ask one question from two sides are one property, a conjunction of
named parts: `TraceReplays` is `TraceOrdered` and `ReplayCovers`, `CrashesAreCovered`
is `LeftoversAreCrashes` and `OneCrashIsCovered`, `AuditAgrees` is `ChangesAnnounced`
and `CompletionsTrue`, `ContextsAccounted` is `OrphansAreLostCreates` and
`EndedEpisodesKeepNothing`, `ExactlyOnce` is `CallsAppliedOnce`, `IdsNameOneAction`
and `NothingLost`. `AtomicEpisodeSpec` is checked by a run and proved; that the runner
acts on the same abstract episode is proved only. The type invariants of the other
machines are theorems.

### Bounds, and why they are enough

* *Threads, processes: two.* Every hazard above is a race of two parties; a third
  would wait on the same lock. In `RendererSessions` there are three handlers: the
  one waited for and two given up.
* *Episode:* three steps, two tool calls, two bytes of input and of artifacts, one
  tick of wall time, two run ids. Each limit can be reached exactly and run over,
  and after a recovered run a second one can still be made. Requests are fixed
  small sets (`MCEpisodeStore`), for versions that are past, current and to come;
  a client may send each at any time and any number of times.
* *Storage:* a limit of 5, capacities 2 and 3 and an object of 2, so that two
  reservations fit in one order and not in the other; one stray byte; two crashes of
  an upload (`MaxCrashes`), because one is covered by design and two are not.
  `Overhead` is 0: it is a constant added to each reservation.
* *Memory:* four events (`MaxEvents`, the real bound of the store made small), one
  pin, two ticks of the clock.
* *Control plane:* four operations (`MaxOperations`), two tokens a job, a session
  that expires while the policy is valid; a limit of one active session.
* *Renderer:* `MaxFaults` 2, `MaxRestarts` 1; the number of steps is not bounded.
* *Runner:* three calls of the model over all runs (`MaxModel`), up to three in one
  response, two turns a run, two deaths or deadlines (`MaxFaults`); one slot instead
  of four, so that a request can have to wait for one.
* *Evaluators:* five tasks of WorldCover, two to three of the others, pairs of label
  masks of three pixels; up to two items of evidence in every order, cited or not,
  with right and wrong boxes and digests; every outcome; up to two tool calls. An
  axis of an image has three steps (`Grid`).
* *Rasters:* every row of two or three pixels with values 0 to 2, every mask, four
  alignments of a coarse pixel with a fine grid; in a stack also the red value 65535,
  which is its fill value, on either date or both. Episodes of two and three tool calls
  over two scenes, in which a product can be used by the next call and by the one
  after it.
* *Selection:* four candidates (`MaxCandidates`) over two windows, four footprints,
  two sensors and three degrees of cloud, so that every filter and every tie of the
  key decides some case.
* *Records:* databases of two episodes and two artifacts, of versions 1 to 3 and of a
  later one; logs of a few events and every limit of a page; three calls of the first
  API; replays of up to three actions with one row of the record edited.
* *Data:* `BlockSize` 2, `MaxRange` 4 and `CacheBlocks` 2 stand for the code's sizes, so
  that a read crosses blocks and evicts one; the theorems hold for any. Polygons of three
  to five vertices on a 3 × 3 grid; files of up to four bytes and every header; objects of one, four and five bytes in blocks of two, under
  a server that changes, cuts, extends or ignores a range from any request on; images
  of up to 5 × 5 with windows of 2 × 2; outputs with one thing edited, also so that
  pixels and published checksum still agree.

Deadlock is not checked in `control_plane` and `agent_runner`, whose operations are
bounded, in `renderer_sessions`, where an episode that is over may stay at rest, and
in `algorithms`, where a behaviour ends with its case.

### Fairness

*`episode_liveness`.* Time passes (`WF` of each `ExpireLease`); clients keep stepping
the episode (`WF` of some `StartStep`: without a request nothing recovers a run, the
store has no background job); a thread that is not abandoned takes its transaction
and returns from its tool (`WF` of `StepTransaction` and `ReturnTool`: the process
runs, and a tool is bounded by its worker's timeout); and recovery is not abandoned
every time (`SF` of `Recover`, because a thread may be abandoned and start again for
ever). `Abandon` is not fair.

*`agent_runner`.* A run that failed is started again and goes on (`WF` of `RunStep`:
the operator repeats the command); the gateway's loop serves whoever waits (`WF` of
`TakeSlot` and `Forward`); the backend finishes what it holds (`WF` of `Repeat`, and
of `TakeUp` and `Decide`, which `ReservationSettles` backs). Deaths and deadlines are
not fair, and bounded by `MaxFaults`.

### Findings

* `episode_capture`: a second capture with the bytes of an earlier one is refused
  after the block that records failures, so the client is told
  `artifact_metadata_conflict` and neither event nor row keeps it, against
  `docs/harness-api-v2.md:133`. Captures keep their content identity
  whatever identity the task gives its tool artifacts.
* `agent_pending`: of several calls in one model response only the first is in the
  checkpoint when it is sent, against
  `docs/remote-sensing-challenges-and-roadmap.md:43`. A run that dies there reuses the
  id for another action, which the backend refuses for ever. `PendingSettles` and
  `ExactlyOnce` except by name (`parallel`) what follows from that.
* `evaluation_temporal`: no evaluation of `temporal-selection-v1` completes, because
  its diagnostics name two variables of another evaluator
  (`core/evaluation.py:701`), against `docs/temporal-benchmark-v1.md:81`.

### Worth knowing

What modelling met besides, and no property states as wrong:

* *Episode.* `_tool_step` records none of its refusals (closed, policy, budget) as a
  durable error. An episode truncated by a tool run keeps its renderer session. The
  renderer is called inside `BEGIN IMMEDIATE` (`core/store.py:964`), so one slow
  capture holds the database's write lock.
* *Renderer.* A request that was given up can disturb the image of a later step
  (`ImagesShowTheirView` excepts it by name; the read-back is not compared with the
  step's map state); a create that was given up loses a browser context. When the API
  dies between the commit that ends an episode and the close (`core/store.py:1247`), or
  cannot reach the service, the session of the episode stays open until the service
  restarts: nothing closes it again, and a repeated action answers from its row.
  `ContextsAccounted` excepts that session by name (`unclosed`).
* *Broker.* 507 is also answered when the object is written and published, if the
  ledger is found oversize at the end of the reservation (`docs/storage-broker.md:42`
  says the write is refused). Of the two levels of directories that `mkdir` makes only
  the lower is synced (`storage_broker.py:89`).
* *Control plane.* Rotation reactivates revoked or expired sessions and counts no
  others of the subject (`docs/agent-gateway.md:46`).
* *Memory.* An invalidation needs room in the memory's log.
* *Evaluators.* XLRS grounding scores `abstention_correctness` 0 always, and its
  `efficiency` wants no renderer calls, which count artifacts: the crop that grounds
  an answer costs it. An unknown metric fails WorldCover as an internal error.
* *Runner.* The result of one call is given the `tool_call_id` of the next; a queue of
  calls that are objects of the client library cannot be written as JSON.
* *Rasters.* A valid red value of 65535, which the admission of a band accepts, makes
  the two-date stack refuse its own output (`core/temporal.py:606`); the run has the
  value, and `AdmittedInputsAnswered` says that it is what is refused and nothing else
  (`HoldsFill`). The caller of the provider compares neither scale and offset, nor the grid
  of a stack, nor the pixel counts of a zone with what it asked for; a stack may
  cover less than the minimum although each date covers it; the bridge's handlers
  wait for a subprocess inside the event loop.
* *Records.* `get_trace` of V1 reads twice without a transaction, so its final state
  can be older than its transitions (`README.md:59`); `structural_replay` of an empty
  log raises; rows that are not compared may be edited unseen by a replay, and an
  episode cut off by wall time or with a failed tool cannot pass one.
* *Data.* A read that fails in a later block has moved its position, so a repeated
  read skips bytes; bytes are counted before they are judged, so the counter may pass
  its limit by one chunk; a window refused for the output limit leaves its file in the
  staging directory; an extraction that failed leaves a directory that a second one
  refuses.

## 4. Theorems

The theorems about state machines hold for every value of the constants that satisfies
the named assumptions of the modules: limits, numbers of calls and sizes are natural
numbers (`LimitAssumption`, `QuotaAssumption`, `BrokerAssumption`, `MemoryAssumption`,
`ControlAssumption`, `RendererAssumption`, `SlotsAssumption`, `BoundsAssumption`; these
also make processes, scopes and contexts finite where something is counted), the tables
of requests and tools are of their types (`StoreAssumption`), scopes form a tree
(`ScopesAreATree`), and `None` is none of the values it stands for the absence of
(`NoneIsNoSession`, `NoneIsNoPage`, `NoneIsNoCheckpoint`). TLC evaluates each of them on
the instance of its run. `PROJECT.json` says of each theorem what it establishes.

| Module | Theorems |
|---|---|
| `EpisodeStoreProofs` | `TypeCorrect`, `ReservationsHold`, `ActionsDecidedOnce`, `BudgetsExact`, `ProvenanceIsUnique`, `DecisionsAreFinal`, `ImplementsAtomicEpisode`, `AnswersInRows`, `AnswersAreEvaluated`, `TracesReplay` |
| `StorageProofs` | `QuotaTypeCorrect`, `HeadroomIsKept`, `WritersAreDisjoint`, `ChargeStaysWithinLimit`, `BrokerInductive`, `PublishedStaysWhole`, `CrashesArePaid`, `LedgerHoldsBesideBroker` |
| `EvidenceMemoryProofs` | `MemoryTypeCorrect`, `LogIsReadable`, `ActiveStaysWithinLimit`, `ReplacementsWereActive`, `PinnedSearchesAgree`, `RetriesAreConfirmed` |
| `ControlPlaneProofs` | `ReservationsHold`, `ControlTypes`, `ResetOnce`, `TokensInFiles`, `NoneUndone`, `IssuesWithinLimit`, `LogAgrees` |
| `RendererSessionsProofs` | `RequestsFit`, `RendererTypes`, `ImagesAreTrue`, `ContextsArePaid` |
| `AgentRunnerProofs` | `RunnerTypes`, `CallsHappenOnce`, `RunnerActsOnce`, `RunnerActsOnPromise`, `CheckpointNamesFirst` |
| `AlgorithmProofs` | `ChoiceIsLeast`, `OthersDoNotMatter`, `LaxerLimitsKeep`, `SelectionsAreStable`, `AskedIsServed`, `ServedAreExact`, `ReadsAreExact`, `ReadsAreAnswered`, `SessionsAreExact`, `ImagesAreTiled`, `ExtractionsVerify` |
| `RecordProofs` | `MigrationsKeepRows`, `AnyHistoryRepeats`, `RunSelectsStably`, `RunKeepsRows`, `RunRepeatsAnswers`, `RunReadsExactly`, `RunWindowsVerify` |

### The arguments

*Episode store.* The invariant `SafeInv` is types, `DecidedOnce`, `ReservationHolds`,
`BudgetExact`, and three parts that make them inductive: no counter is beyond its limit
(`WithinLimits`), an active episode can pay for one more step (`Solvent`), and a run was
reserved for the version its request was sent for (`RunVersions`). `ReservationHolds` is
what makes a late finalization safe: while a run is running no step passes `Busy`, so the
version it was reserved for is still current, and what it reserved is still there; then
the clamp of the budgets never cuts a charge. The refinement maps each action to
`Reserve`, `Advance`, `Reject` or a stutter and takes its guards from `SafeInv`.

The trace needs a second invariant, `TraceInv`. A step appends an accepted action, or what
became of the one accepted last, or both; so the one thing to know of a log is whether it
ends in an accepted action, and it does while a run is running. Beside that the invariant
says that the log closes once, that an action is accepted once, and that rows, runs and
events name the same ids. From it follow the structural replay of every log, the coverage
of a closed one, the row behind every answer, and the evaluation at the one answer.

*Quota.* `IInv` adds to types and `HeadroomKept` that who is not idle holds the lock of
its scope (`LocksHeld`) and that unfinished rows never overlap (`LedgerDisjoint`); a grant
checks its scope against all of those. `StrayPays` is the invariant of the bytes: what is
charged, with what live writers may still outrun their rows by, is at most the limit and
the stray bytes, and what they may outrun is stray already. The sums are over
sets of files and rows, so each step is a lemma about which summand changes; where that
needs an induction over a finite set, it takes a smallest counterexample (the library
proves that one exists below any set of finite sets).

*Broker.* Every step of the broker keeps `IInv` and `StrayPays` of the ledger
(`LedgerInv`), although `put` looks for no overlapping row: an object has a scope of its
own, which no other writer uses. `ScopesAccounted` splits the bytes of such a scope into
the object, the upload that is under way and what crashes left; from it come
`PublishedIsWhole` and, with the overhead of a reservation, `CrashesAreCovered`.

*Memory.* `IInv` adds that only the holder of the lock is in a command (`LockHeld`), that
an append which was checked is still legal (`AppendsLegal`), that every prefix of the log
is readable, within the limit and legal in its replacements (`GoodLog`), that pins are
prefixes of the log and that every search gave what its pin selects (`SeenIsSettled`).
Between check and append the log cannot change, because the lock is held over both. For
`RetriesConfirmed`: `limit_reached` is answered in one place, from a snapshot without the
record, and the answer leaves the log as it was.

*Control plane.* `Held` says why what a command works out from an earlier read is still
true when it writes: who is about to store the registry has reserved it and its snapshot
is the registry; who made a session directory has reserved that one (`RunsHeld`); token
files and registry agree (`FilesAgree`). `CredentialsMoveOn` and `IssuedWithinLimit` then
need only the step that stores the registry, and for the limit that who publishes still
has room (`RoomToPublish`): it looked at the registry it has reserved, and time only takes
active sessions away. The audit log needs `Accounted`: what a run is about to do was
announced, so was what a directory stands for, and what a run will report has happened.

*Renderer.* `Sound` fits requests to steps: one create and one close at a time, one
request waited for, a phase of the step for each operation. `Undisturbed` is the argument
of the images: a context becomes the session once and with a blank page, so the page a
capture finds is the one its step applied to, or one without a state to read back. `Paid`
is an account: contexts nobody will close, creates that were given up and may still leave
one, the create that will replace a session and the session of an ended episode are
together no more than the creates that were lost, but for the session of an episode
whose close the service never heard of.

*Runner.* The parts of the invariant are operators of a memory (the process's or its
checkpoint's), of the bodies ever sent, and of the episode, so that one lemma serves a
step of the episode and another a change of memory. `OneBody` and `Names`: what was sent
under an id has one body, and a memory that will send an id again names that body.
`Linked`: the checkpoint is where the process will go on from. `SingleInv`, for models
that make one call at a time, adds that what is pending is what the episode does not know.
`RunnerActsOnPromise` shows that the episode the runner acts on is `AtomicEpisode`, which
is what `ImplementsAtomicEpisode` shows of the store: the two meet there, and what is
proved of the runner rests on nothing the store does not give.

*Selection.* The keys order the admissible pairs totally, because a pair is named by its
two items and names are compared last; a finite set that is not empty has a least pair.
From "the choice is the least" follow the three parts of `SelectionIsStable`: the order
of the list does not matter, nor do candidates that are not chosen, and laxer limits admit
more pairs. Candidates are any list the code's validation accepts, with any dates, clouds
and names and any coverage that is a fraction.

*Byte ranges.* What a header asks of an artifact is an interval or nothing, and the bounds
the code works out are its ends (`BoundsAreAsked`). `ReadsAreExact` is about a pinned
object, of any length and in blocks of any size, and a server of which it is assumed only
that a reply with the pinned ETag is of the pinned object (`Strong`; the code refuses weak
ETags). A kept block is the object's (`Sound`), one turn of the read's loop keeps that and
either fails or gets on (`TurnIsTrue`), and the loop is as many turns as bytes were asked
for, so it ends with all of them or has failed. The loop is a fold; that its recursive
function exists, and what holds at its end, are shown by a smallest counterexample among
the natural numbers (`AllNumbers`). The bytes stay within the budget if the server sends
no more than was asked (`Modest`), which is what the code cannot enforce before it counts.
`ReadsAreAnswered` is the other half: a server that has the object (`Honest`) answers
every read of at most `MaxRange` bytes for which there is room in the budget, and `Room`
is an account too, of a request and a block for each byte. `SessionsAreExact` takes both
from one read to any number of seeks and reads (`ReadInTurn`): what holds of the reader
after one is what the next one needs.

*Windows.* An image is of any size, a table of any length and of any images, and the
limits are any numbers (`Extraction`; the samples no more than the verifier reads). A
window of the grid is `Clipped` to the image, a pixel lies in the window its coordinates
divide to, and so the windows tile it (`ImagesAreTiled`). An extraction is two passes.
`Surveyed` is the invariant of the first: sources are images of the table, no two have one
content, and each row came to one thing. `Took` is that of the second: the samples are the
windows of some of the turns, in the turns' order (`TakenInTurn`), within the limits of
samples and bytes. Turns differ, and so do the windows of one source, hence derivations;
turns are in order of their rounds, hence `InTurn`. The verifier then finds for each
receipt the one sample and the one source it is about (`UntouchedIsVerified`), and after
any edit one window, or the number of samples, that does not fit (`EditedIsSeen`).

*Migrations.* A database is any set of rows whose keys hold, of any version before the
last, and from the second version on one that the code of that version can have left
(`Older`). One lemma per migration says which rows it leaves and that what an episode may
read is `Kept`; the fourth rebuilds the table of artifacts per episode, in two
statements, and `Scoping` says which rows there are after each.

*The first API.* `Intact` is the invariant of its tables: the transitions are chained from
the initial state, each is what its action does, an id has one transition, the view is on
the map. A call keeps it and only adds to the tables (`Longer`), and its answer is the one
that every later repetition gets (`Settled`). Histories are any sequences of calls over
any ids and answers; which pans and zooms there are is the run's (`FirstActions`), because
the geometry of the map is. From the three follow the parts of `FirstApiRepeats`.

*The specification of the algorithms.* Its invariant `CaseOfKind` says that what is taken is
a case of its kind; each property then is a statement about one kind of case, and the
theorems above prove it of any such case. Four of the five theorems need an assumption:
the number of candidates is a natural number; `None` is no error code
(`ErrorsAreErrors`, `CodesAreCodes`), no number and no part of an object (`NoneIsApart`,
`NoneIsNoPart`); a block is no longer than the longest read. Sizes of blocks, reads and the cache are any
numbers with that, so the run's 2, 4 and 2 stand for the code's.

### What the proofs changed

Several operators chose by a `CASE` whose guards overlap. TLC takes the first that is
true; the logic says only that one of them is taken, so nothing about the order of the
code's checks could be proved, nor was it stated. They are chains of `IF` now, in the
order of the code (`EpisodesV1`, `Replay`, `Windows`, `HttpRanges`, `DataCases`).

The sizes of blocks, ranges and the cache are constants, with values in the `.cfg`, and
the modules of cases share one `None`; so theorems about a kind of case are about the run.
The sets of cases are unions of named, flat comprehensions, and replies of a server a
function of one argument, because those are what the provers can take apart.

The property of the windows looked for places among the first twenty and chose sources by
their digests; it speaks of every source and every place of its grid now. The record of a
source has its fields by name, and the verifier's objection is that to the first window
it objects to, where both were put together by operators the provers do not know.

Two statements were right for the run's sizes only, or asked for more than the argument
needs. That an honest server is always answered takes a budget that grows with
`MaxRange`; the run gave a fixed one (now `Ample`). And what a server must promise for
`ReadsAreExact` (`Strong`, `Modest`) was about every interval; now it is about those that
lie in the object, which are the ones the code asks for.

### Left to TLC

* Liveness under fairness: `ReservationSettles`, `PendingSettles`.
* Of the specification of the algorithms: `VerdictsAreFair`, `RastersAreHonest`,
  `DerivationsAreSound`, `RecordsReplay`, `ZonesCountPixels`. Most are
  folds over rows or pixels, and what a fold gives for every input needs an induction
  each; a zone is compared with Pick's theorem, which is a theorem of geometry.

## 5. Not modelled

* *Reads that change nothing*: state, artifacts' metadata, GET and HEAD of the broker,
  the audit query, the gateway's projections.
* *Numbers at full width*: rounding of scores to six digits, floating point, compressed
  rasters, projections between reference systems. Fractions are exact, grids share one
  reference system, and a sine needs only to grow.
* *Parsing, validation by schema, wording and layout*: one nondeterministic refusal
  where it stands between two state changes, nothing elsewhere.
* *Catalog search, the EO-Gym bridge, the isolation of a kernel in a subprocess*: a
  call is what it plans and one of a set of outcomes.
* *Power loss*: a death leaves the file system as the process saw it.
* *SQLite*: a transaction is atomic and serialised, as `BEGIN IMMEDIATE` makes it.
* *The usage audit, the remaining parsers of the admission, contracts, benchmarks and
  most scripts*: one-shot, sequential input and output.
* *Authentication at the gateway, certificates, commands without a policy.*

## 6. Plan

The models of the plan are written: store and tool runs, quota ledger and broker,
memory, control plane, renderer, gateway and runner, and the algorithms. The safety
properties of all state machines are proved, and of the algorithms the choice of dates,
byte ranges, windows, migrations and the first API. What is left is proof about the others, in
this order:

1. `Raster`: the ranges and masks of the kernels, pixel by pixel.
2. `Replay`: that the record of an episode is the one its replay makes.
