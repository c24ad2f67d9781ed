# TerraSentry in TLA+

TLA+ models of TerraSentry, the EUDR due-diligence service of this repository,
the TLC configurations that check them on small instances, and TLAPS proofs of
their most important properties for every instance.

Paths below are relative to the repository: `api/` is
`src/apps/api/src/terrasentry_api/`, `mcp/` is `src/apps/mcp/src/terrasentry_mcp/`,
`a2a/` is `src/apps/a2a/src/terrasentry_a2a/`, `core/` is
`src/python/core/src/terrasentry_core/` and `integrations/` is
`src/python/integrations/src/terrasentry_integrations/`.

## 1. The system

TerraSentry screens supplier records for deforestation risk. A *run* takes one
record through a graph of agents (supervisor and specialists, assessor,
verifier, DDS writer); a deterministic rubric decides the verdict; a compliant
verdict releases the due-diligence statement (DDS) and may approve the vendor
in SAP, every other verdict waits for a person whose decision releases the DDS
and may approve or block the vendor. One FastAPI process owns all background
work (asyncio tasks), one SQLite or Postgres database holds the records, and
three programs talk to it over HTTP: the web cockpit, an MCP server for agents
and an A2A server for Joule.

### Inventory

| Component | State it keeps | Operations | Interacts with |
|---|---|---|---|
| Run lifecycle (`api/runner.py`) | `runs` rows, one asyncio task per run, `_run_tasks`, `_cancelled`, `_decision_locks` | start, execute, time out, fail, cancel, shut down, sweep | store, graph, ERP, broadcaster |
| Review gate (`runner.decide`, `confirm_erp_action`, `api/routers/runs.py`) | review columns, `pending`/`released` flags, `sap_actions` | decide, confirm, delete | store, ERP, the run's task |
| Store (`api/store.py`, `models.py`, `db.py`) | the tables | one session per operation, savepoints, upserts, cascades | everything in the API |
| Batch executor (`_execute_batch`) | parent and child rows, semaphore, progress counters | start, run children, aggregate, cancel | graph or rubric, store, broadcaster |
| Live stream (`RunBroadcaster`, `stream`, `sse.py`, web `stream.ts`) | subscriber queues, `seen` step ids, the browser's reducer | subscribe, snapshot, publish, reconnect | runner, store |
| Agent graph (`core/agents/`) | trace, tool context, candidate, verification | supervisor, re-task, assess, verify, write | tools, rubric |
| Verification gate (`core/agents/verification.py`) | challenges | code checks, merge with the model's report | graph |
| Rubric (`core/scoring.py`) | none (pure) | score, data gaps, verdict | assessment pipeline |
| Evidence, DDS (`core/evidence.py`, `core/dds.py`) | ledger | build, cite, validate, serialise | assessment pipeline |
| Source clients (`integrations/sources/`, `http.py`) | attempts, pages, chunks, batch jobs | fetch with retry and back-off | response cache |
| Response cache (`integrations/cache.py`, `fixtures.py`) | entries with expiry, fixture files | get, set, purge, export, prime, offline misses | source clients |
| SAP gateway (`integrations/sap/`) | stub vendors; OAuth token and its lock | read, update, patch, authenticate again | ERP actions, `/mock-sap` routes |
| Intake and records (`core/intake.py`, `api/routers/records.py`) | table of records, registry in memory, operator profile | submit, import, restore, seed | runner |
| MCP adapter (`mcp/`) | none between calls | screen and wait, decide, confirm, cancel | API over HTTP, the agent's user |
| A2A adapter (`a2a/`) | the hour's window of agent runs | resolve a name, screen, investigate, status | API over HTTP |
| Web client (`src/apps/web`) | query cache, stream state | views, review dialog | API over HTTP and SSE |

The hard behaviour sits where these meet: asyncio tasks that can be cancelled at
every await; requests that act on the rows a task is still writing; a database
commit and an ERP call that are not one transaction; a stub in memory that is
rebuilt from a log, and a registry in memory that is rebuilt from a table;
subscribers that join in the middle; a batch whose children finish, fail or are
cancelled in any order; concurrent calls that share a token, a cache entry or a
plot's acquisition; answers that get lost after the work was done; a user who
takes minutes to confirm what was read before; a list that grows while it is
paged through; and a process that stops anywhere.

What makes the parts correct:

- *Run lifecycle*: every open run closes, every request gives its lock back.
- *Review gate*: no release without a compliant verdict or a decision; the first
  decision stands; at most one successful ERP action per run, the one the
  decision calls for; whoever calls the ERP for a run on file has a reason to and is
  alone.
- *ERP log and stub*: a restart rebuilds every vendor state whose newest call is the
  newest row of the log.
- *Live stream*: a client has every step once, in order, and the end only when
  it is the end.
- *Batch*: at most *n* children at a time; counters agree with the rows; no
  child survives its parent.
- *Rubric, verification*: nothing compliant with a critical finding or a data
  gap; what is scored, checked and shown is one snapshot; a rejected candidate
  never reaches a verdict row.
- *Sources, cache*: nothing partial is stored or served, no silence is read as
  "no loss", no stale answer, no request offline; every acquisition ends.
- *SAP gateway*: one revoked token is survived, requests are bounded, a call that
  returns was applied; the stub's views of a vendor agree.
- *Intake, DDS*: what a client was told of is kept and can be run; an import is
  exact; whatever intake accepts can be declared, with every field cited.
- *Adapters*: what an agent sets off is what its user was shown and confirmed;
  the hourly budget holds in every hour; an ambiguous name starts nothing.

## 2. Modules

| Module | What it is | Source |
|---|---|---|
| `ReviewGate` | abstract specification: what the system promises about a run's dossier, decision and ERP action | section 6 of `docs/architecture.md`, read off the code below |
| `RunLifecycle`, `_proofs` | the runner: tasks, requests, rows, action log, vendor state, cancellation, deletion, failing sessions, restarts; it implements `ReviewGate` | `runner.py`, `sap_actions.py`, `store.py`, `services.py`, `routers/runs.py` |
| `StubReplay` | `RunLifecycle` with a history of whose call a vendor's state comes from: what the replay after a restart rebuilds; EXTENDS `RunLifecycle` | `store.latest_vendor_states`, `services.py`, `runner.py` |
| `RunStream`, `_proofs` | the live stream of a run: writer, publications, subscription, snapshot, replay, follow, two kinds of client | `runner.py`, `store.py`, web `stream.ts`, `use-run-stream.ts` |
| `BatchRun`, `_proofs` | one batch: parent, records, semaphore, gather, progress, summary, cancellation | `runner.py`, `store.py` |
| `Rubric` | the rubric and the two investigation rules as operators | `core/scoring.py`, `core/agents/investigation.py` |
| `AgentGraph`, `_proofs` | one run of the agent graph: concurrent tool calls, the shared acquisition, assessor, verifier, writer, outcome | `core/agents/`, `core/tools/` |
| `SourceAccess`, `_proofs` | source clients over the response cache: lookup, retries, pages, chunks, batch jobs, expiry, fixtures, restart | `integrations/cache.py`, `fixtures.py`, `sources/`, `core/tools/sources.py` |
| `SapGateway`, `_proofs` | the HTTP client's token, lock and retries; the stub and the mock tenant | `integrations/sap/`, `http.py`, `api/routers/mock_sap.py` |
| `Dossier` | from a declared plot to its statement, as operators: refusals, ledger, citations | `core/intake.py`, `core/evidence.py`, `core/dds.py` |
| `Intake`, `_proofs` | records, registry, restart, operator profile and the runs that use them; EXTENDS `Dossier` | `api/routers/records.py`, `routers/settings.py`, `services.py`, `seed_loader.py`, `core/tools/datasets.py` |
| `ApiRuns` | the API's runs as its HTTP clients see them | `api/routers/runs.py`, `runner.py` |
| `McpAdapter` | the MCP tools that write or wait; EXTENDS `ApiRuns` | `mcp/server.py`, `client.py` |
| `A2aAdapter` | the Joule proxy; EXTENDS `ApiRuns` | `a2a/skills.py`, `intent.py`, `client.py` |
| `Adapters_proofs` | theorems about the two adapters; EXTENDS both | |
| `MC_*` | instances for TLC | |

The modules look at one system from different sides, and each abstracts what
another one keeps. `RunLifecycle` has the rows, the decision and the ERP and no
trace; `RunStream` has the trace and the queues and reduces the ERP to "the
action adds a step"; `BatchRun` has many records and reduces each one's graph to
its outcome. `AgentGraph` is what is inside that outcome, and `SourceAccess` is
what is inside its `Acquire`; `SapGateway` is what is inside `RunLifecycle`'s
`CallErp`. `Intake` is what happens before a run has a record, and `Dossier` what
is in the documents. `ApiRuns` is `RunLifecycle` seen through HTTP, as the environment
of the two adapters: one step per request, except that a decision or confirmation holds
the run's lock over three (accepted, acted, settled). In every module the unit of a
step is the work between two awaits at which another coroutine can see it.

### 2.1 RunLifecycle

| State | Code |
|---|---|
| `row[r]` | `runs` with `verdicts`, `dds` and the review columns (`models.py`) |
| `log`, `nextId` | `sap_actions` |
| `vendor[s]` | vendor behind the gateway (the stub's dictionary or the ERP) |
| `task[r].phase` | where the coroutine of `_guard(_orchestrate)` stands; `none` is a task that is not in `_run_tasks` |
| `req[q]` | a `decide` or `confirm_erp_action` request; it holds the run's lock of `_decision_locks` while it is not idle |

| Action | Code |
|---|---|
| `StartRun`, `Begin`, `RefuseStart`, `MarkRunning` | `start_run`, `_spawn`, first step of the task, `CoreError` before the graph |
| `GraphReturns`, `GraphTimesOut` | `wait_for` around the orchestrator |
| `CallErp`, `RequestErp` | `SapActionService`, whose every exception becomes a failed action |
| `StoreResult`, `RequestStore`, `RequestRelease` | `_store_result` and `release_dds`, each one commit |
| `Decide`, `Plan`, `Confirm` | `_decide_locked`, `_erp_action`, `confirm_erp_action` |
| `Finish`, `Fail`, `CancelRun`, `DatabaseError` | end of `_orchestrate`, `_fail`, `cancel_run` and the two handlers of `_guard` |
| `DeleteRun` | `delete_run` and the cascades |
| `Restart` | `shutdown` or a crash, then `build_services`: replay of the log into the stub, sweep of the open runs |

A person can decide a run the task of which has not finished its tail, and a run
can be deleted under a request: both are in the model because neither is
excluded by a lock in the code. A request asks for the mode in a session of its own
(`Plan`), and a run that is gone by then counts as `auto`, as in `_erp_mode`.

`StubReplay` adds three history variables that no action reads. `lastTask` and `lastReq`
are the coroutines that carry their vendor's newest call, made and not yet committed
(`NoteCalls`); `adrift` is the set of suppliers whose newest call is not the newest row
of the log: it was dropped with a cancelled task, a failing session or a deleted run, an
older call was committed after it, or its row was deleted (`NoteDrift`). The commit of
a newer call, or a restart, brings the supplier back.

### 2.2 RunStream

A commit and the publication that follows are two actions: closing the session
is an await. A step's id is its position in the trace and all writers extend the
trace they have read, so the persisted steps are `1..stored` and a number stands
for a step. `RunManager.stream` is `Connect` (subscribe), `SnapshotRun`,
`SnapshotSteps` (two statements of `_snapshot`), `Replay`, then `SkipSeen` and
`Follow` on the queue. `Emit`, `WriterCommits` and `WriterPublishes` are the trace
writer; `StoreCommits`, `StorePublishes`, `FinishSilently`, `Finish`,
`FailCommits`, `FailPublishes`, `TaskFault` and `CancelRun` are the end of the
task; `DecideLoads`, `ConfirmLoads`, `RequestCommits`, `RequestPublishes` and
`ReleasePublishes` the requests that add steps. A client is chosen in `Init` as a
plain reader, which stops at `done`, or as the web cockpit, which merges steps by
id, keeps them over a reconnect and stops at the first terminal state
(`isTerminalEvent`).

### 2.3 BatchRun

The children are coroutines of the batch's task, without an entry in
`_run_tasks`. `Gather` starts them; `Acquire` takes a slot of the semaphore;
`MarkChildRunning`, `Assess`, `StoreChild`, `Refuse`, `FailChild` are the sessions
of `_execute_record_agents` and of its screening sibling; `Count` leaves the slot
and adds to the progress. `CancelBatch` unwinds the children, which the
gather awaits, then `CloseChildren` and `FailParent` are the two sessions of
`_guard`. `ChildFault` is an exception of a child's session, which escapes into
the gather (`FailEscaped`), `ParentFault` one of the parent's. Reviewers
(`DecideChild`, `DeleteChild`) act all the time.

### 2.4 Rubric and AgentGraph

`Rubric` is `scoring.assess` on a record (what the dataset declares about plot,
permit and consignment) and on sources (what one acquisition returned): `Levels`
has the level of each finding, `DataGaps`, `Score` and `Verdict` follow
`assess` and `_decide` in their order, `AssessRecord` is what the assessor hands
on. A finding is its level, a ratio a percentage, a hectare ten tenths.

| State of AgentGraph | Code |
|---|---|
| `phase` | the node that runs; `review` is the verifier's model inside its node, `finish` is `RunOrchestrator._finish` |
| `sources`, `lock` | `ToolContext._sources` and `_source_lock` |
| `calls` | the tool calls under way, one per slot |
| `trace` | tool steps, as a set, with the sources whose values a result shows |
| `candidate`, `verification` | the same of `ToolContext` |
| `writer` | what `dds_writer` reported |
| `result` | `AgentRunResult` |

| Action | Code |
|---|---|
| `CallTool` | a model's tool call and the hook that records a `tool_start` |
| `RefuseCall`, `ReadDeclared`, `ReadShared` | a tool that raises on an unknown id, that reads the dataset only, that finds the polygon's sources |
| `Acquire`, `Acquired`, `AcquireFails` | `polygon_sources` before and after the await of `fetch_polygon_sources` |
| `Assess`, `Check`, `InspectClaims`, `Review`, `ReviewFails` | `_assess_node`; `code_checks`, `coverage_checks` and `merge_coverage`; the verifier's own reading; `merge_reports` |
| `Commit`, `Finish`, `Resume`, `GraphFails` | `_commit_node`, `_finish`, `resume`, an exception out of `stream_async` |

Between the end of an acquisition and `_record_tool` there is no await, so
sharing the sources, releasing the lock and recording the step are one action.
The models are an environment: any call of `Calls`, in any order, on any free
slot, with ids that do not exist or do not belong together, and any report of
`Reviews`. A plot's second acquisition, should there be one, may return other
values than its first: that is what makes `OneSnapshot` a property of the lock.

### 2.5 SourceAccess

| State | Code |
|---|---|
| `config` | `IntegrationSettings`, the plot's country, and what the services hold; fixed by `Init` |
| `entries`, `fixtures` | `SQLiteCache` or `MemoryCache`; the files of `CACHE_FIXTURES_DIR` |
| `calls[c]` | a caller: its plan, the kind of source it is at, phase, attempts, cursor, what it has got, results |
| `clock`, `restarts` | time, in units of the time to live; restarts of the process |

| Action | Code |
|---|---|
| `Start` | `fetch_polygon_sources`, `MediaSearchClient.search`, `tree_cover_loss_batch` |
| `SkipLoss`, `SkipLayer` | no loss query for a date outside the release's coverage; a layer that does not apply to the country |
| `Hit`, `Miss`, `LookupFails` | `cache.get`, which deletes what expired; `_record_miss` offline, `require_credentials`; a cache file that fails |
| `NotAnswered`, `Waited`, `Refused`, `Answered` | `SourceHttpClient.request` and `_attempt`, and the parsing of a page or chunk |
| `JobCreated`, `JobPending`, `JobEnded`, `Downloaded` | `tree_cover_loss_batch`: create, `_poll_job` up to `max_wait_seconds`, download |
| `Store`, `StoreFails`, `Cancelled` | `cache.set` after the last page; a failing file; a cancelled caller |
| `Tick`, `Export`, `Prime`, `Restart` | time; `export_fixtures`; `prime_fixtures` of the command line; a process that starts again, online or offline, and primes before it serves |

A payload is the set of items the code got and their number. A caller may be told
to refresh, which skips the lookup, also offline (the assessment command's
`--refresh` does not look at `--offline`). A batch job whose finished answer has
no download link stores an empty result; `WholeOrNothing` therefore leaves jobs
out. Priming overwrites fresher entries and starts their time to live anew; a
slow caller may overwrite a newer entry of a fast one. Both are in the model.

### 2.6 SapGateway

| State | Code |
|---|---|
| `erp`, `stub` | the tenant's `A_Supplier`; `StubSapService._vendors` |
| `token`, `fresh`, `holder` | `_token`, its expiry and `_token_lock` of `HttpSapClient` |
| `issued`, `revoked` | the tenant's tokens |
| `calls[c]` | one call: phase, attempts, requests sent, tokens refused to it, whether the tenant applied it, answer |

| Action | Code |
|---|---|
| `Begin`, `StubAnswers`, `Unconfigured` | the three methods of `SapGateway`; `StubSapService`; `_ensure_configured` |
| `Headers`, `Locked`, `TokenIssued` | `_auth_headers`, `_fetch_token` under the lock, with the second look at the token |
| `Unauthorized` | a 401: the cached token is discarded, whoever fetched it, and the request repeated once with another |
| `NotDelivered`, `AnswerLost`, `Refused`, `Answered`, `Cancelled` | `SourceHttpClient.request` over a transport that loses requests and answers; an error status, or a body `_json_object` cannot read |
| `Expire`, `Revoke`, `OutsideChange` | time, the tenant's administrator, its own users |
| `MockRoute` | the writing routes of `/mock-sap`, which reach the stub without a run |

A request that timed out and is delivered later is not modelled. Over HTTP,
`set_purchasing_block(False)` leaves the posting block of a vendor while the stub
approves it; the services use `update_vendor_status` only, which sets both.

### 2.7 Dossier and Intake

`Dossier` is a chain of functions. `GeometryRefused`, `PermitRefused` and
`Accepted` are intake's checks, `SubmittedRecord` what is stored;
`Ledger` and `EvidenceIds` say which claims a run leaves and what their ids hash;
`Citations`, `Rendered`, `Unbuildable`, `Declarable`, `Synthetic` and `Document`
are the statement. Geometry is its type, measured area and at most one flaw; areas
are in units of 0.00001 ha, one digit more than intake keeps, because rounding
happens exactly at the 4 ha limit that decides between a point and a polygon. A record
keeps, as history, what was measured or declared before rounding (`measured`), and
`PlotIsTheDeclaredOne` judges by that: what is shown as a polygon is above 4 ha, and what
is shown as a point is not above 4 ha by more than half of the last decimal kept. A
polygon of 4.00004 ha is within that margin (`WidePlotsArePolygons`, section 3).

| State of Intake | Code |
|---|---|
| `up`, `autoSeed`, `seeded` | the process, its setting, the seed suppliers |
| `table`, `registry` | table `records`; `SeedDatasets._submitted` |
| `operator` | the saved profile |
| `requests[c]` | a handler between two awaits |
| `runs` | rows with the context they were accepted with |
| `promised`, `stranded` | history: ids a client was told; rows an import that failed left in the table |

| Action | Code |
|---|---|
| `Boot`, `Crash` | `build_services`: seed if empty, restore the registry, recover interrupted runs |
| `CreateRecord`, `Answer` | `POST /records`: commit, then register and reply |
| `BeginImport`, `ImportRow` | `POST /records/import`, row by row in savepoints; after the last one it is at `commit` |
| `FailImport` | an exception of a row, of `_record_out` or of the last commit (`records.py:255-274`) |
| `PutOperator` | `PUT` of the operator profile |
| `StartRuns`, `ExecuteRun` | runs over registered records; the pipeline with the accepted context |

An import that fails with a database error after some rows have been written leaves
those rows in the table (with SQLite a row's savepoint is its transaction,
`db.py:84-96`) but not in the registry until the next start (`records.py:255-277`):
`RecordsAreKept` says so with `stranded`. The assessment date is pinned in the same row
as the operator and is not modelled apart from it. With `AUTO_SEED=false` runs over seed
records fail on their missing supplier, and switching it on after a submission never
seeds (`config.py:32`, `seed_loader.py:17`): the model has the behaviour (`Startable`,
`Seeded`), no property speaks against it.

### 2.8 ApiRuns, McpAdapter, A2aAdapter

| State of ApiRuns | Code |
|---|---|
| `run[r]` | the row as `GET /runs/{id}` shows it, with its batch's parent and, as history, who decided |
| `live` | the runs whose task, or whose batch's, has not ended |
| `lock[r]` | the request that holds the run's lock: accepted, or past the call of the ERP |
| `sap` | history: what SAP was asked for, for which adapter's request |
| `clock` | the adapters' monotonic clock |

| Action of ApiRuns | Code |
|---|---|
| `Started`, `Finish`, `CloseBatch`, `TaskEnds` | a run begins, gets its result, its batch closes, its task's tail ends |
| `Accepted`, `Act`, `Settle` | a decision or confirmation that has the lock and has loaded the run; the mode asked for again (`ErpMode`) and the ERP called, or not; the commit, or a failing session or a run that is gone |
| `Stopped` | `cancel_run`; it fails whatever still has a task, a run that is complete or held in its tail included, or closes nothing when it comes too early or twice |
| `Deleted`, `ApiRestarts`, `Tick` | `delete_run`, the sweep, time |

The web cockpit is one more client (`Cockpit`), which may do all that the adapters may.

| Action of McpAdapter | Code |
|---|---|
| `CallTool`, `Screen` | a tool call of an agent |
| `AskDecision`, `AskErp` | `get_run`, the refusals on what was read, and the question to the user |
| `UserConfirms`, `UserDeclines`, `CannotAsk` | the elicitation, on a client that may not support it |
| `PostDecision`, `PostConfirmation`, `ApiAnswers` | the write, accepted or refused, and its answer when the API is done with it |
| `PostCancel`, `ReadBack` | the cancellation, and the run as read again for the answer |
| `PostRecord`, `PostScreening`, `Poll` | submit the record, start the run or batch, and poll until a state in which the tool answers, or until `wait_seconds` or `mcp_wait_seconds` are over |
| `NotDelivered`, `TimesOut` | a `GET` that fails; a `POST` that does not arrive, waits too long or whose answer is lost. The client repeats neither |

| Action of A2aAdapter | Code |
|---|---|
| `Submit` | another client submits a record, which moves the pages |
| `Ask`, `AskStatus`, `ListPage` | a message; `list_suppliers` by offset, then the choice by similarity and lead |
| `StartScreening`, `SleepOn`, `PollBatch` | a screening within `a2a_reply_budget_seconds`: it sleeps only while time is not up, and reads the batch after the sleep however late it is |
| `ReplyLater`, `ReplyVerdict` | its answers |
| `Investigate`, `StartAgentRun` | `_allow_agent_run`, which counts, then the `POST`, which may fail |
| `Unreachable`, `Sent` | an API that does not answer; the reply |

`window` is `_agent_runs`; `admitted` (history) never forgets, so `BudgetHolds`
can speak of any hour. The budget is of one process, in memory, and counted before
the request. A supplier that moves to the next page is listed twice; the choice
must not mistake it for two. `Matches` is what comes back alone: a clear winner,
but also an only candidate, however faint from the cutoff of 62 up
(`intent.py:100-110`), with which the skill goes ahead; `ClearWinner` says both. A clear
winner leads by a tenth in floating-point numbers, and of two scores exactly ten
hundredths apart the difference is below 0.1 unless the better is 0.92 or 0.93
(`WellAhead`). The names
are an environment: `Likeness` gives what `SequenceMatcher` would.

## 3. Runs

| Run | Question | Bounds | States |
|---|---|---|---|
| `faults` | Does every fault together keep the review gate, and is every call of the ERP due? Safety and the refinement of `ReviewGate` | 1 run, 2 requests, all modes, an ERP that fails or loses its answer, failing sessions, 2 cancels, deletion, 1 restart, 3 log rows | 8,038 |
| `liveness` | Do locks come back, do open runs close, is the stub rebuilt as it was? | `StubReplay`: 2 runs of 1 supplier, 2 requests that may meet at either, modes `auto` and `confirm`, 1 cancel per run, 1 deletable run, 1 restart | 531,707 |
| `stream` | Does a client that joins and reconnects anywhere have the trace, in order, and the end only at the end? | 1 client, 1 graph step and those of ERP action and review, 2 connections, 1 cancel, 1 confirmation, 1 fault, 1 restart | 1,618,315 |
| `batch` | Does the batch close, with balanced books, no open record and no result overwritten? | 3 records, 2 slots, 2 cancels, 2 faults, 1 restart, 1 deletable | 77,463 |
| `agent_graph` | Is what is released scored, checked and shown from one snapshot, investigated, accepted by the gate and without any sign? | 2 polygons of 2 suppliers, 2 concurrent calls, 8 different calls, 1 failing acquisition, 3 records, 6 readings, reports with at most 1 challenge | 970,240 |
| `sources` | Is what is stored or answered whole, fresh and what it claims, is a warm rerun silent, does every acquisition end? | 2 callers, 12 settings, 2 attempts, pages of 2 rows up to 4, chunks of 2 of 3 days, 5 years, 1 restart | 233,709 |
| `sap` | Is a revocation survived, does every call end, do the stub's views agree? | 2 callers, 1 vendor, 6 settings, 2 attempts, 3 tokens | 531,203 |
| `intake` | Do registry and table agree, are imports exact, can all that is accepted be declared, shown and cited? | 2 clients, 7 submissions and a file of 3 rows, 3 records, 2 runs, 1 profile, 1 crash | 248,640 |
| `mcp` | Is what is done what was shown, is what is told true, does every call end? | 1 run, 1 call beside the cockpit, clock to 2, waits of 0, 1 and 2 | 220,464 |
| `a2a` | Does the budget hold in every hour, is a chosen supplier alone or clearly the best, does every chat get a reply? | 1 chat again and again, 3 suppliers, pages of 2, budget 1 per hour of 1, clock to 2 | 1,242,523 |
| `doc_off_never_touches_sap` | `docs/architecture.md:562-563`, `sap_actions.py:9`: `off` never touches SAP. A confirmation does, and so does a decision on a run that is deleted meanwhile | 1 run, 1 request | violated |
| `doc_applied_is_applied` | `docs/setup/mcp.md:52`: `confirm_erp_action` applies the action. It says so after the ERP refused it too | 1 run, 1 call | violated |

What a theorem settles for every instance is not run again: the type invariants
of the modules with proofs, and `NoUnreviewedRelease`, `LogFollowsDecision`,
`DecisionIsFinal` (which `GateHolds` implies), `FailsAlone`, `RunningBounded`,
`CertificateReleasesNothing`, `NoFalseZero`, `SilentUnlessAsked`,
`NoNeedlessFetch`, `SendsBounded`, `OkMeansApplied` and `OnlyCommitted`. All of
them can be added to the runs of their modules. The type invariants of `Intake` and
`A2aAdapter` are part of `RecordsAreKept` and `BudgetHolds`.

Why these bounds reach the interesting cases:

- A run interacts with another one only through its supplier's vendor state
  (and in a batch), so one run with two concurrent requests has every race on
  rows and log; `liveness` adds a second run of the same supplier, whose calls and
  commits can come in every order. The third log row lets an action
  fail twice and then succeed. Two cancellations are needed for the second one
  to hit the handler of the first; a third finds the task gone.
- Clients of a stream do not see one another, so one client of either kind is
  enough; a graph step, the step of the ERP action and that of the review give
  a first, a middle and a last position. The theorems have no such bounds.
- Three records through two slots have one record in every position: inside,
  waiting, done. One restart is enough because a restart forgets all state
  that is not in the rows, and the rows it leaves are like those of an earlier
  instant.
- The calls of `agent_graph` are the five a run needs and three stray ones: a
  deep dive with another supplier's id, another plot, an unknown plot. The
  readings put the values just below, at and above the shipped thresholds: loss
  at its flag, loss explained by the supplier's own plantation, an unknown
  holder, a concession for another commodity, a missing layer, nothing at all.
  A report with two challenges is rejected exactly when one of them is enough.
- The settings of `sources` differ from the usual ones in one thing each: a full
  last page, one row too many, a memory cache, expiry with a failing file, no
  credentials, a plot abroad or of unknown country, an assessment before or past
  the coverage, an unverified release. Two callers meet on one entry; a third
  would only repeat what the second does to it. One tick ends a time to live and
  a job's deadline.
- In `sap`, two calls and three tokens allow one call to discard a token the
  other has fetched and to be refused twice; the settings have each mode with and
  without secrets that are set and accepted.
- The plots of `intake` stand on both sides of each limit: a point that may be declared
  and one that is too wide; two polygons just above 4 ha, of which one is rounded to 4
  ha and one up; a plot below 0.01 ha; a flaw in what was submitted and one in the
  circle derived from a point, a permit without its number. Three records are one file
  of an import, or a submission between the rows of one.
- One call of `mcp` beside the cockpit is enough: each property is about one call, and
  the cockpit may do to its run whatever a second call may, under the same refusals. The
  theorems have any number of calls. Waits of none, one and two ticks let a poll end in
  time or not. One chat of `a2a` is
  enough: the window is updated between two awaits, so a second chat at the same
  time adds orders but no new states of it; three suppliers on pages of two, of which one is
  submitted later, make a row move between pages.

Requests, clients and slots of tool calls are interchangeable; `SYMMETRY` is used
in safety runs only.

Deadlock is checked in `intake`. The other configurations say
`CHECK_DEADLOCK FALSE`: when every run is settled or has its result, every call
and client is through and every bound is used up, the system really rests.

### Fairness

- `RunLifecycle`, `RunStream`: weak fairness of each task, trace writer, accepted
  request and server side of a stream: they are coroutines of one event loop,
  which schedules each that is ready, and whatever they await is under a timeout
  (`wait_for` around the graph, timeouts of HTTP clients and of the database).
- `BatchRun`: of the driver and of each record's coroutine, since the semaphore
  wakes its waiters in order.
- `SourceAccess`, `SapGateway`: of each call's steps, since a request is answered
  or times out and a lock wakes its waiters; of the clock in `SourceAccess`.
- `McpAdapter`, `A2aAdapter`: of each call's steps, under the adapters' HTTP
  timeouts (30 s and 15 s), and of the clock.
- None for clients, users, reviewers, cancellations, faults or restarts, nor for
  the API's runs as the adapters see them: a run they poll may never settle.
- `AgentGraph` assumes none and claims no liveness: nothing in the graph bounds
  the calls of a supervisor's model, only the runner's time-out does
  (`GraphTimesOut`). `Intake` assumes none either.

### Exceptions TLC found, and how the properties state them

- *A complete run can become failed* when a cancellation meets the task's tail
  (`runner.py:194`), and a decision in flight can complete a failed one:
  `set_state` and `persist_result` do not ask for the state. The gate holds, since
  it speaks of the dossier, and `StateAgreesWithDossier` says nothing of failed runs.
- *A second cancellation* in the handler of the first leaves a run or batch open
  until the next start (`runner.py:190`); so `liveness` allows one cancellation
  and `BatchCloses` excuses cancelled batches.
- *A cancellation before a task's first step* never enters `_guard`
  (`runner.py:151`): the row stays queued (`OpenRunsClose` excuses it).
- *A failing session in `_guard`'s handler* leaves the run open
  (`runner.py:199`): `DbFaults` is off in `liveness`.
- *An ERP call before its commit* (`runner.py:308`): the vendor can have changed
  when the decision is lost. `ReplayKeepsVendors` leaves out the suppliers whose newest
  call is still on its way to the log, or was lost to it (`adrift`).
- *Two runs of one supplier* have two locks: their commits can be in another order than
  their calls, and then the newest row is the older call (`store.py:586`); that too is
  `adrift`. An older run can be confirmed after a newer one blocked the vendor.
- *Steps of a disturbed run*: a cancellation between a commit and its publication,
  or a confirmation of a failed automatic action before the task published its
  step (`runner.py:732`), gives a live reader gaps or another order until it
  reconnects. `TraceInOrder` and half of `EndedSawAll` are about runs that were
  neither cancelled nor met a failing session or ERP; that a stream never announces
  the end of a run whose row is open is claimed of every run.
- *A child's session that raises* leaves its row open under a failed batch until
  the next start: `NoOrphanRecord` and `BatchCloses` hold until a session raises,
  `ResultsStand` and `BooksAgree` always (such a batch never completes).
- *`off` acts* in two ways (`doc_off_never_touches_sap`): the confirmation endpoint
  asks for no mode (`runner.py:759`), and a decision takes a run that was deleted since
  it was loaded for an `auto` run (`runner.py:740`). `ErpCallsAreDue` speaks of runs on
  file and asks no mode of a confirmation; `ShownIsDone` lets a decision that was shown
  as leaving SAP alone reach SAP when its run is deleted.
- *A plot just above 4 ha*, by less than 0.00005 ha, is rounded to 4 ha and shown as a
  point; `PlotIsTheDeclaredOne` has that margin.
- *An automatic run whose action failed*: the MCP tool cannot retry it, and its
  next step reads "Done."; only the cockpit can.
- *A screening whose start was answered too late* starts a second run when the
  agent tries again: the adapters do not repeat requests, agents may.

The two violated runs quote the contradicted lines in `PROJECT.json` (`findings`).
Six more sentences of the repository are stated as formulas that the code does not
keep. Each has a configuration, which is not one of the runs, under which TLC finds the
counterexample in seconds:

| Formula, configuration | What is said | What happens |
|---|---|---|
| `DecisionsActOnlyInAuto`, `MC_Doc_decisions_act_in_auto` of `MC_RunLifecycle` | `runner.py:746`: "`confirm` and `off` runs never act here" | a run deleted under its decision counts as `auto` |
| `AgentsLeaveOffRunsAlone`, `MC_Doc_off_is_left_alone` of `MC_McpAdapter` | `docs/setup/mcp.md:51`: with `off` "SAP is never touched" | the same, for the decision of an agent's tool |
| `CompleteIsFinal`, `MC_Doc_complete_is_final` of `MC_RunLifecycle` | `domain/run_state.py:14` and `:41`: `advance` is the only way to move a run between states, and a complete one has no successor | cancelled in the tail of its task it becomes failed |
| `FlipsSurvive`, `MC_Doc_flip_survives` of `MC_StubReplay` | `services.py:129-130`: a status flip survives an API restart | two runs of one supplier commit in another order than they called |
| `WidePlotsArePolygons`, `MC_Doc_wide_plots_are_polygons` of `MC_Intake` | `intake.py:36`, `dds.py:262`: plots above 4 ha are polygons | one of 4.00004 ha is rounded first |
| `FailedLeavesVendor`, `MC_Doc_failed_leaves_vendor` of `MC_SapGateway` | `sap_actions.py:10-11`: a failed action leaves the vendor unchanged | not when only the answer was lost |

## 4. Proofs

What TLAPS proves holds for any values of the constants that satisfy the named
assumptions of the modules: `LifecycleAssumption`, `BatchAssumption`,
`StreamAssumption`, `GraphAssumption`, `ConfigAssumption`, `SourceAssumption`,
`SapAssumption`, `ApiAssumption`, `McpAssumption`, `A2aAssumption` and
`IntakeAssumption`. They say that bounds are naturals, special values are not
identifiers, and little more; `ConfigAssumption` also has the rubric's thresholds above
zero (see below), `SourceAssumption` the page, chunk and attempt limits above zero,
`A2aAssumption` the page and the hour. Every proof has the same frame: an inductive
invariant, one lemma per action, and the properties as its consequences.

**RunLifecycle.** None of the safety properties is inductive: that a stored
result is the one the decision calls for depends on what the request read under
the lock three sessions earlier. `IInv` is the conjunction of

- `TypeOK`;
- `RowInv`: state, verdict, decision and flags of a row agree;
- `TaskInv`: for each phase of a task, what its row may be and what result and
  action it carries (`TaskFits`): a task before `store` has no dossier yet;
- `LogInv`: ids are unique and below `nextId`, a successful row is the last of
  its run, and agrees with the released dossier;
- `ReqInv`: for each phase of a request, what its run's row and log may be
  (`ReqFits`), and that two requests never hold one lock: this is what makes
  `Decide`, `Plan`, `RequestErp`, `RequestStore` safe together.

`TaskMove` and `RequestMove` are the common frames of actions that only move a
coroutine. For `Refinement`, `QuietSteps` shows that all but three actions leave
the gate's variables alone, and `StoreResult`, `RequestStore` and `DeleteRun` map
to `ReleaseAlone`, `Hold`, `Settle`, `Act`, `Withdraw` or a stutter.

`CallsAreDue` follows from `TaskFits`, `ReqFits` and `LogInv`: whoever is at the gateway
has in its phase what the row and the log must say.

`ReplayRebuilds`, of `ReplaySpec`, holds however many runs of a supplier act at once, are
cancelled, deleted or lose a session. `ReplayInv` is the property with one fact about the
history: whoever is in `lastTask` or `lastReq` is in its `store` phase with the action its
vendor shows (`TaskShown`, `ReqShown`). `TaskKinds` and `RequestKinds` sort the steps into
calls, commits and `MovesOnly`, on which the rest depends. A call makes its coroutine the
one that is awaited (`CallsKeepReplay`); a commit gives its row the highest id, so it is
what is replayed (`ReplayedLogged`), and it is the vendor's state if it was the newest
call, while otherwise the supplier is adrift unless its newest call is still awaited
(`CommitsKeepReplay`); a removed row changes what is replayed only if it was the newest
(`ReplayedKept`). Over HTTP nothing is rebuilt and the property says nothing.

`OpenRunsHaveTasks` is the safety half of `OpenRunsClose`: while no session raises
(`~DbFaults`), an open run has a task, unless a cancellation reached that task before its
first step or a second one reached it in `_guard`. `Driven` makes it inductive: a task in
`_guard`'s handler was cancelled, and one in its tail has closed its row.

**RunStream.** The steps a client has, those of its snapshot and those in its
queue are three pieces of one trace that may overlap: a step committed before the
snapshot and published after the subscription is both in the backlog and in the
queue, and `seen` hides the second copy. `Feed(q, a, b, ...)` says that the steps
in `q` are exactly `a+1..b`, in order (`Holds`), and that a final event in `q`
tells the truth and has no step that is due behind it (`Ordered`). For an
undisturbed run, `ViewFits` says that a client has a prefix of the trace and that
its backlog and queue are feeds which take up where it stands (`Resumes`), as far
as `Front`, what live subscribers have been sent; a closed client has all that is
`Due`, what the task has persisted. `CleanFits` is what the runner's side
contributes to that. Disturbed or not, `RowFits` fits the row to the phases of
task and request, and `SubSound` says that events name committed steps and that
final ones mean a terminal row. `StreamInv` is `TypeOK` with these four parts.

`NobodyIsStranded` is the safety half of `StreamsEnd`: once the task of an undisturbed
run has ended, its row is settled and every client that listens has its end coming. It
needs more than queues: a client may have subscribed after the last publication, and then
the end is in the row its snapshot will read, or in its backlog (`EndIsDue`).
`ConcatSays` and `TailSays` follow a final event through a queue, and `BacklogSays` says
that the snapshot of a settled row ends the stream.

**BatchRun.** `BInv` relates the parent's row, the task and, for each record, its
row and its coroutine; it is enough for `TypeCorrect` and `ResultsAreKept`,
under all faults. Until a session raises, `GInv` adds that nothing escapes into
the gather and that the handler closes the records before the parent, which
gives `NoOrphans` and `RecordsFailAlone`; `SlotInv` adds that the coroutines
inside the semaphore are at most `Concurrency` and that a running row belongs to
one of them, which gives `RunningIsBounded`. `BooksAlwaysAgree` holds under all
faults, from `TallyInv`: the live progress is, per result, the number of coroutines
that are done with it, and the row of each still says that result or what reviewers
may have made of it (`Outcome`); reading the summary turns this into inequalities
between cardinalities (`UnionBound`), which no later step disturbs because
results stand.

**Rubric and AgentGraph.** Three facts about the rubric are proved for every
configuration, record and sources: a verdict is compliant exactly when every
finding is clear and there is no gap (`CompliantIsClear`), a certificate neither makes nor
unmakes one (`CertificateIsNeutral`), and every level that requires a deep dive
has a screening signal (`SignalsCover`). They need thresholds above zero.
`RubricConfig` does not enforce that; its defaults satisfy it, and with a
threshold of zero a plot without loss would be flagged without a signal.
`GInv`, the inductive invariant of the graph, is `TypeOK` with one conjunct per
part of the state: `CallsFit` (a call that fetches holds the lock, and its
polygon has no sources yet), `StepsFit` (a step shows the shared sources),
`CandidateFits`, `VerificationFits`, `WriterFits` and `ResultFits` (what each
phase has behind it), and the two properties it is closed under, `GateStands`
and `OutcomeAgrees`. `OneSnapshotHolds`, `InvestigatedFirst`,
`ReleasesOnlySpotless` and the others follow from it and the rubric's facts.

**SourceAccess.** `SInv` is `TypeOK`, `StoreFits` (what is held is whole, and
never expires when the settings say so) and, per caller, `CallFits`: what a
paging or chunking caller has got is exactly what lies before its cursor
(`PartFits`), so that the last page makes it whole; whoever asks was permitted to
(`Permitted`); and each result is whole, fresh and applicable (`ResultFits`). A
warm caller's entries stay held because nothing expires at a time to live of zero,
whatever others write.

**SapGateway.** `GInv` is `TypeOK`, `LockFits` (whoever asks for a token holds the
lock, and there is none that could be used), `StubFits` (a vendor with the block
flag has the blocked status) and `CallFits` for every call: it has sent what its
finished round and its attempts allow (`SendsFit`, `PostsFit`); a token refused to
it is neither cached nor sent by it again, so that a second refusal is that of
another token (`TokensFit`); and what it returns is what it was asked for
(`AnswerFits`). `TokenMoves`, that the cached token changes only to none or to a
new one, is what lets one call's invariant survive the steps of the others.

**McpAdapter.** `MInv` is the API's part, `ApiGood`, with `CallFits` for every call.
`ApiGood` has `RowFits` (what state, verdict, review and action may stand together) and
`LockFits` (nobody else has decided or acted on the run a request has loaded, though it
may have failed or been deleted). `CallFits` says that what was read for the question
still holds of the run, or that the run is gone (`WaitFits`); that who decided, who
holds a lock and who made SAP do something has asked for just that (`DecidedFits`,
`HolderFits`, `SapFits`); and that what was told stays true (`ToldFits`). `Follows` and
`LockKeeps` say what can become of a row and a lock by anybody else's hand
(`Overtaken`), and `CallStays`, `CallMoves` are the two frames: a call that is overtaken
and a call that steps. `ActKeeps` and `ApiAnswersKeeps` carry a request through the API;
`UserSawWhatIsDone` rests on that a run's mode and verdict never change once it is held,
except by deletion.

**A2aAdapter.** `A2aInv` is `A2aTypeOK` with three parts. `WindowFits`: the hour's
window is the end of the history `admitted`, and all before it is forgotten. An
investigation is let through when the window, once the forgotten are dropped, has
room; so the run that was a whole budget earlier is not in it, and is more than
an hour old: that is `Budgeted`. `ListFits`, for a chat that reads the list: each
supplier registered when it began has been read or has a rank beyond what was read.
It survives `Submit` because ranks only grow (`RankGrows`), and a page because
positions and ranks are one (`RankOnto`, from cardinalities of injections); at the
last page nobody is left. `Stands`, for a chat that has chosen, is `ClearWinner`
(`MatchWins`). What `CHOOSE` picks is pinned down by the well-founded minimum
(`LeastOf`).

**Intake and Dossier.** `Sound` is what a statement needs of a record; whatever intake
accepts is sound (`AcceptedIsSound`): a rounded area above 4 ha was measured above it,
and one that is not was measured above it by at most half of the last decimal, from
which follows what a statement shows (`SoundIsShown`); and every claim that a field
cites has an entry in the ledger, whatever the sources answered (`EveryFieldIsCited`).
`IInv` carries this to the runs: `TableFits` (ids are given in order, each row is a
record intake accepted or the legacy one), `RegistryFits` (what registry and clients
know is in the table, and what is missing is still to be registered or stranded),
`RequestFits` (a request has written exactly what the rows before its cursor call for;
rows of others have other ids) and `RunFits` (a run's record is the table's, its input
the accepted context). The four properties of `Intake` and the soundness of statements
follow.

**Only model-checked** are the liveness properties, `LocksAreFreed`,
`OpenRunsClose`, `StreamsEnd`, `BatchCloses`, `AcquisitionsEnd`, `ChatsEnd` and the
`CallsEnd` of two modules, which are out of the prover's reach (of `OpenRunsClose` and
`StreamsEnd` the safety halves are proved, above). Every safety
property of the passing runs is a theorem.

## 5. What could be added

- `AgentGraph` as the refinement of "one accepted or rejected candidate", which
  `RunLifecycle`'s `Outcome` and `BatchRun`'s `Assess` would then cite; and
  `RunLifecycle` as an implementation of `ApiRuns`.
- An abstract specification of which of a supplier's runs has the last word on the
  vendor: the code does not decide it.
- The verifier's ledger queries, and the consignment and media tools, in
  `AgentGraph`.
- The safety halves of the other liveness properties, as `OpenRunsHaveTasks` and
  `NobodyIsStranded` are of two: that no reachable state but the excused ones is at rest
  with something open.

## 6. What is not modelled

- *Text and layout*: claims' wording, the DDS text and its XML, prompts, notes,
  disclosures, error messages, parsing of CSV and GeoJSON and of what Joule says.
- *I/O without state of its own*: routing, authentication, command lines, seed
  data generation, web views and forms, the generated client, deployment.
- *Of the graph*: consignment and adverse-media tools (no later step reads them),
  the verifier's queries of the ledger, thoughts, reports, the delegation
  counters, token usage, citation validation, and the challenges that are never
  errors (missing sources, the design labels of the seed data). A deep dive whose
  sources are unavailable counts as done in the code and in the model: the gap
  itself keeps the verdict from being compliant. `assess` reports one more gap
  when it gets no assessment date; the orchestrator always passes one.
- *Of the store*: filters and sorting of the lists other than the paged suppliers.
- *Of cache and sources*: statistics, corrupt rows, the rate limiter's waiting,
  amounts and geometry of what is returned, and `delete` and `clear_source`, which
  only tests call.
- *Of the MCP server*: the reading tools and plain imports and batch starts,
  which have no state; `list_suppliers` searches the first page of 200 only.
- *Known and without a property*, beside the exceptions of section 3: two
  processes on one database (the locks are in memory, and
  `docs/architecture.md:648` gives the API one worker); a PATCH that arrives after
  its time-out.
- Time is "may time out" or a few ticks. The queue of a subscriber is unbounded as
  in the code; its length is not a question of any property.
