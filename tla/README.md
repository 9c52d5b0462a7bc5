# A TLA+ model of mac-llm-ops-lab

This directory is a verification project for the repository beside it: TLA+
modules that model the program, TLC configurations that check them on small
instances, and proofs, checked by TLAPS, of what holds for instances of any
size. Paths below are relative to the repository; `app.py` and the like are
under `src/mac_llm_ops_lab/`.

## The system

mac-llm-ops-lab serves language models on one Mac behind an OpenAI-like HTTP
API, and keeps evidence of how it was run.

| Part | State | Operations | What is hard about it |
| --- | --- | --- | --- |
| HTTP application (`app.py`) | lifespan, one middleware and one handler task per request | `/live`, `/ready`, `/v1/models`, `/metrics/snapshot`, `/v1/chat/completions`, load and close of the backend | handlers interleave at every `await`; failures pass through three places that count; shutdown beside running requests |
| Event stream (`_stream_events`) | one suspended generator per streaming request | role, content, stop or error, `[DONE]` | clients stall, and leave while it is in the backend, at a `yield`, or before it begins; it may be closed late by the event loop |
| Metrics (`metrics.py`) | six counters by route, status, code and model | recorded by middleware, handlers and generators | counters of different places describe the same request at different times |
| Fake batched backend (`batching.py`) | loaded and closed flags, prompt cache, batch counters | `load`, `close`, `ready`, `generate`, `stream`, `generate_many` | ten counters, seven of them from one view of the cache; repeated and cancelled requests; refused batches |
| Default application (`cli.py`) | the two together | | the backend serves one model, the allowlist may admit more |
| Host processes (`scripts/local-runtime.sh`, `start-detached.py`, `run-vllm-mlx-backend.sh`) | a pid file, the process table, one port | `start`, `stop-managed`, `stop-ports`, as `make up` and `make down` use them | shells race with each other and with processes that start, die and leave their pid to others |
| Persistence (`persistence/`) | five tables, a unit of work per transaction, a fake for tests | `add`, `get`, `list`, `commit`, `rollback` | concurrent units of work, failed commits, two implementations of one port |
| OpenAI-compatible adapter (`openai_compatible_backend.py`) | one HTTP client with its pool of connections; a suspended `stream()` per stream | `ready`, `list_models`, `generate`, `stream`, `close` | calls that fail, time out or are cancelled while they wait for a connection or hold one; abandoned streams; malformed answers |
| Model gate (`model_catalog.py`, `runtime_guard.py`, `run-vllm-mlx-backend.sh`) | `.gitignore`, the report file, one process per start | decide, report, serve | order of refusals, rounding at the ceiling, a gate that dies half way, starts that share the report |
| Cluster (`cluster.py`) | none of its own; its caller keeps an inventory and decisions | register a node, route to a model, node report, cluster manifest | the parts of a manifest are collected at different times; order, ties and repeated ids in an inventory |
| Runtime artifacts (`runtime_artifacts.py`) | execution records and bundle indexes under `artifacts/runtime/` | build, write, load, index | stored files are torn, overwritten and edited; values that are stored twice must agree |
| Backend contracts (`backend_contracts.py`, `scripts/probe-vllm-mlx-contract.sh`) | a metrics text, benchmark rows, a contract report, a benchmark manifest | probe, summarise, build a manifest | fixed file names shared by probes; metrics before the benchmark; a percentile's rank |
| Release readiness (`release_readiness.py`, `scripts/validate-public-release.py`) | a scan report; the work tree and the commits it speaks of | list, read, scan, report | the work tree and HEAD move while the scan runs |
| Settings, observability, stack plan, launchd bundle, containers | configuration and output only | | |

The application calls the backend and records in the metrics; the generator of
a stream does so too, from another task. `cli.py` composes the application with
a backend: the fake one, or the adapter to a model server. The scripts start
that server, and the gate decides whether the wrapper script may run it. The
evidence tools are separate programs that meet in files: a bundle index is built
from a stored record, a contract report from what a probe stored, a benchmark
manifest from what a scan reported.

## Modules

| Module | Models | Kind |
| --- | --- | --- |
| `Metrics` | `InMemoryMetrics`, as functions from one state of the counters to the next | helpers |
| `Serving` | lifespan, middleware, handlers and generators of `app.py` | state machine |
| `ServingProperties` | what the application promises; the refinement to the ledger | properties |
| `StreamLedger` | the abstract promise about streams: each ends once, and is counted in the step in which it ends | abstract specification |
| `ServingProofs` | the theorems about `Serving` and the ledger | proofs |
| `BatchedBackend`, `BatchedBackendProperties` | `FakeBatchedBackend` | state machine, properties |
| `FakeServing`, `FakeServingProofs` | `Serving` and `BatchedBackend` as one program; the theorems about both | composition, proofs |
| `AdapterServing`, `AdapterServingProperties`, `AdapterServingProofs` | `Serving` over `OpenAICompatibleBackend`, as one program | composition, properties, proofs |
| `ModelGate`, `ModelGateProofs` | the gate, the preflight and the script that runs the server behind them | state machine, properties, proofs |
| `LocalRuntime`, `LocalRuntimeProperties`, `LocalRuntimeProofs` | the scripts and the machine they run on | state machine, properties, proofs |
| `Cells`, `TransactionalStore` | the content of the tables; the abstract promise of a unit of work: the store changes by whole commits | data, abstract specification |
| `UnitOfWork`, `UnitOfWorkProperties`, `UnitOfWorkProofs` | concurrent `SQLAlchemyUnitOfWork`s on one database | state machine, properties, proofs |
| `FakeUnitOfWork` | `FakeUnitOfWork`, against the same abstract store (proved in `UnitOfWorkProofs`) | state machine, properties |
| `RuntimeEvidence`, `BackendContracts`, `ReleaseReadiness` | the decisions and summaries of the modules of those names | pure operators |
| `EvidenceTools`, `EvidenceProperties`, `EvidenceProofs` | the tools that use them, as processes over shared files, git and a model server | state machine, properties, proofs |
| `Cluster`, `ClusterProofs` | `cluster.py` and the caller that holds its inventory | state machine, properties, proofs |
| `MCServing`, `MCAdapterServing`, `MCBatchedBackend`, `MCFakeServing`, `MCModelGate`, `MCLocalRuntime`, `MCUnitOfWork`, `MCFakeUnitOfWork`, `MCEvidenceTools`, `MCCluster` | the instances TLC checks | model-checking modules |

Definitions whose comment begins with "Mutant:" are deliberately wrong versions
of a definition next to them. Nothing uses them; substituting one for its
original makes a property fail, which shows that the property looks at that
code. `PROJECT.json` pairs them, and maps every definition to its source lines.

### Serving

A step runs from one `await` or `yield` to the next, which is what the event
loop makes atomic. `pc[r]` is where the middleware and handler of request `r`
are: "routing" until the handler's first `await`, "awaiting" inside the
backend, "answering" while the response is on its way to the middleware,
"recorded" after `record_request()`, "unhandled" when an exception left the
middleware. `gen[r]` is where the generator of a stream is suspended: at the
`yield` of the event it is named after, or "waiting" in the backend. A
streaming request is in both: its response is recorded when the generator has
not even begun. `sent[r]` is what the generator has yielded.

The backend is external. A call to it returns or raises at any later step; while
`upstream` is false it can only raise. The client of a stream may stall: the
generator is then resumed at no `yield`, because the server's `send()` waits,
without a timeout, until the client reads on or leaves. It may leave at any time.
Starlette then cancels the task that iterates the generator: inside the backend this
raises `CancelledError` there (`CancelAwait`), and at a `yield` it leaves the
generator suspended (`DropGenerator`), for the event loop to close some time
later with `GeneratorExit` (`FinaliseGenerator`).

What never reaches a handler is answered all the same, and recorded by the
middleware: the router's own 404, redirects and FastAPI's pages for a path
without a route ("unrouted"), its 405 for a method that a route does not have
(`AnswerWrongMethod`, recorded under that route), 400 for a body that cannot be
decoded, 422 for one that fails validation. Only the last two are exceptions of
the classes that `app.py` registers handlers for, and carry an error code. A
request that is answered at once has its answer taken by the server, whether its
client reads it or not: such bodies fit the buffers, and only streams stall.
Bodies, headers, spans, log lines and durations are left out; a generated text
is its number of words.

That the backend is closed only when no task runs (`CloseBackend`) is what the
ASGI server does, and an assumption here; `app.py` closes it whenever its lifespan
is resumed.

### BatchedBackend and FakeServing

`generate_many` is one step, because it never awaits. Prompts and answers are
their word counts. Its counters are kept one by one, as the code adds to them,
and the observation of the batch is an entry of its own. `FakeServing` joins
every step of `Serving` that calls the backend with what the call does. The real
backend never suspends; the model allows other requests between the call and its
answer, which is more than can happen, and sound for invariants.

### AdapterServing

The backend of `Serving` may answer or raise at any step. `AdapterServing`
replaces it by the adapter's code: each step of `Serving` that calls the backend,
or gets something from it, is joined with what the adapter does, and the adapter
has steps of its own while its caller waits. `call[r]` is where it is with the
call that request `r` made: "connecting" (waiting for a connection of the pool),
"sent", "reading" the lines of a stream, "suspended" at the `yield` of
`stream()`, or "ended". A call that is "sent", "reading" or "suspended" holds one
of the `PoolSize` connections. httpx and the model server are external: while
the server is up a call may go on, and it may fail at any step. `ready()` turns
every failure into `False`; `list_models()` and `generate()` raise, `stream()`
raises into `_stream_events`.

An answer, or a line of a stream, is the set of the two fields of its first
choice that hold text; an object of any other shape holds none. `heard` and `said`
are history variables: per field, the lines that held text and the chunks that
were its text. A stream that is left early stays suspended in `stream()`, because
`async for` does not close its iterator; the event loop does (`FinaliseStream`).
Shutdown closes the client, and with it what is still open.

### ModelGate

A start of `run-vllm-mlx-backend.sh` runs the gate, which decides from the
catalog, `.gitignore` and the approval in its environment, writes the report
over any earlier one, and exits 0 or 2; `set -e` lets only 0 go on to the server.
The gate may also raise or be killed, before its decision or after, with the
report old, truncated or written. `.gitignore` may change at any time. Memory is
in ticks of 1/10000 GiB, so that the three digits `round()` keeps end at a
multiple of ten; a tie may go to either side, as it does in binary.
`Cleared` is what passing the gate is meant to say. It does not mention
`.gitignore`, which only holds when the gate looked.

### LocalRuntime

A step of a shell is one command that reads or changes the machine: `kill -0`,
`pgrep`, `lsof`, `rm`, a write of the pid file. A process is "wrapper" while it
is `run-vllm-mlx-backend.sh` before its last command, "waiting" while it waits
for the server, "server", or "foreign". Pids are reused as soon as they are
free. `uv tool run` and the server it runs are one process. `pgrep` is there, as it
is on macOS; without it `stop_known_project_processes` returns at once, and a
`down` stops only what the pid file and the port lead to. The patterns of
`stop_known_project_processes` are folded into the two that match the runtime,
in their order; `mkdocs` and a host API, which the same loop stops, do not
interact with the runtime and are left out, as are the Docker commands.

### UnitOfWork and FakeUnitOfWork

A table row is a key with a value per column; nothing is ever deleted, so an
absent row is one without values. `written[u]` is what unit `u`'s transaction
has written, `staged[u]` what `merge()` left for the next flush, `pc[u]` the
call that has not returned. `add()` flushes what the previous `add()` staged,
reads the row as its transaction sees it, and stages an INSERT or the columns
that differ; queries and `commit()` flush too. A flush waits for the row locks
of others (`Holders`), and fails on a check constraint, a primary key or a
foreign key. Every failure, cancellation or lost connection (`Interrupt`) leaves
the session "failed" until `rollback()` or `__aexit__`. COMMIT (`Store`) and the
return of `session.commit()` (`Settle`) are two steps, since the task can be
cancelled between them. `session.rollback()` and the flags set after it are one
step, as nobody else sees the flags; `rollbackInterrupted` is the same call
interrupted at its `await`, with the flags as they were, and `Leave` may
likewise close the session of a rollback that was interrupted. `stored` and
`overtaken` are history variables.

The session and the database are external: they are modelled from the calls
`persistence/sqlalchemy.py` makes, for PostgreSQL at its default isolation,
READ COMMITTED. The repository's tests use SQLite, which runs one writer at a
time and does not enforce foreign keys unless told to; nothing here speaks of
it. What the queries return, and the fields of the records, are left out.

The fake has no `await` inside a call, so each call is a step. It replaces whole
rows and checks no constraint; a block of it is mapped to a single unit of the
abstract store.

### EvidenceTools

A step is one access to a file, to git or to the model server. `pc[p]` is what
process `p` does next and `job[p]` what its tool has in memory. `write_text()`
truncates the file ("opening") and writes it ("writing"); between the two, or
when another process has written there too, the file may be `Torn`. A process
may end at any point (`ToolEnds`), which is how a tool raises, fails under
`set -e`, or is killed.

An execution record is a function from its leaves to their values
(`RuntimeEvidence`), because what its validation does is to compare leaves: the
backend of the preflight report with that of the evidence manifest, the verdict
with the decision, the log's directory with the artifact directory. Fields that
are only checked for their form (commit, command, host, configuration, ports)
are one leaf. `EditEvidence` changes one leaf of a stored record to any other
value, or the outcome of a stored scan.

A probe is curl, the benchmark and the report, with `set -e` between them. The
model server counts requests, the benchmark sends as many as it writes rows, and
a report carries, as history, which probe its two halves come from and whether
another probe was in the directory meanwhile. Of a benchmark's numeric fields the
model keeps the latency and its 95th percentile.

A scan lists what is tracked or new, reads file by file, and asks for HEAD in the
end, as `validate-public-release.py` evaluates its calls. A text is "fine" or
"bad"; a path may be forbidden. The index is taken to list what HEAD or the work
tree has: an entry that neither has is skipped by the scan, and a file taken out
of the index is listed as a new one, unless it is ignored as well, which the
model leaves out. `EditTree` and `Commit` are whoever works in the
checkout. A benchmark manifest is given the scan's outcome by its caller, who is
modelled to pass on what the report says.

### Cluster

`cluster.py` keeps nothing, so the state is its caller's: an inventory in some
order, and the decisions it keeps. The caller lets nodes join, leave, report
again and change places, and may hold decisions that were not made here
(`Claim`), which a manifest accepts like any other. `current[i]` is a history
variable: each of these steps says for which decisions it is harmless: a node
that joins without serving their model, one that leaves or gets no better and is
not theirs, any new order. Validation of hosts, URLs, chips and ports is one bit
of a node, `wellformed`; ids are ordered numbers. The caller gives a well-formed
path for the evidence of every node, which is all that is asked of it: whether a
node ever wrote a report is not looked at, and the report itself is left out.

## Runs

| Run | Instance | States | Shows |
| --- | --- | --- | --- |
| `serving_all` | 2 requests of every kind, 2 models, one allowed, 2 chunks | 150 902 | counters agree with each other, transcripts are well formed, streams are counted exactly, the gate holds; refinement of `StreamLedger` |
| `adapter` | a request of any kind that calls the backend and one that is not a stream, 1 model, 2 chunks, a pool of 1, with fairness | 33 606 | calls end with their callers, connections come back, answers are not lost; requests, generators and the shutdown end, with clients that stall; refinement of `Serving` with its fairness |
| `batching` | up to 3 batches of up to 3 requests, 2 prompts, 2 models | 16 844 | work is conserved, the cache holds what was answered, totals are those of the observations |
| `fake_serving` | 2 requests, 2 allowed models of which the backend has one | 86 457 | the two sets of counters describe the same answers; only a model the backend lacks fails |
| `model_gate` | 2 starts, models below, at, just above and above the ceiling, misestimated and unknown | 355 104 | only servers that the gate should clear run; refusals and the report say what is so |
| `local_runtime` | 2 pids, a starter and a stopper that repeat, with fairness | 74 372 | `make down` releases the runtime; strangers are not touched; starts and downs end |
| `pid_reuse` | 3 pids, the same shells | | violation: `stop_pid_file` signals a stranger with the recorded pid |
| `unit_of_work` | 2 units, a model and a run of it, 2 columns, 4 rows of which one is rejected, 3 calls of `add` | 390 265 | refinement of `TransactionalStore`; references hold; rows are not mixed unless overtaken; what is said to be committed is stored |
| `unit_of_work_live` | 2 units, 2 rows to insert, 4 calls of `add`, with fairness | 164 018 | every call returns, deadlocks included |
| `fake_rollback` | 3 rows, 2 values | | violation: `rollback()` of the fake keeps what was added |
| `evidence_tools` | 2 processes that start 2 tools, a directory inside another, 2 backends and 2 reasons, 2 files of which one is forbidden, a work tree and a commit that are clean, have a bad text or the forbidden file, 4 benchmarks of 1, 19 and 20 rows and a malformed one, 1 change of the tree or commit, 1 edit of stored evidence | 1 778 345 | a bundle's verdict was built; a report is of one probe; p95 is a nearest-rank percentile; scans and manifests speak of the commit they name |
| `cluster` | 7 things that 3 nodes may say, 2 models, up to 3 nodes and 2 decisions, 2 of which may come from elsewhere | 46 453 | decisions of a manifest are those its nodes route to, unless something spoke against them |

Why the bounds are enough. Requests of `Serving` share only the counters, the
gate's sets and the lifespan, so two requests show every pairwise interference,
and the proofs below cover any number. Two chunks are the first case in which a
stream is between two contents; zero and one are included. Two models, one of
them outside the allowlist, are both cases of the gate. The adapter's requests
meet in the pool and at the shutdown only: a stream that holds the one
connection and a request of any other kind that waits for it are the tightest
case, and the second one is no stream to keep the liveness checks small. Only
requests that call the backend are sent there, since the others do not touch the
adapter. A stream has up to two lines with text, so that reasoning can be followed
by content; it sends the second one while it is alone, because how many there are
makes no difference to what waits for what (bounds `MCNext`). Two starts of the
gate are the least that overwrite each other's report. Three requests in a batch
are the first size with two repetitions of one prompt and a cancelled request
beside them, and three batches let a prompt be missed, hit and hit after a
reload. The runtime needs one pid for the wrapper or the next one and one for
its server; a stranger takes the pid of either once it is free. A third pid adds
nothing but another stranger, and the safety properties of the shells are proved
for any number. Symmetry is declared over requests in the runs without liveness,
and over processes, backends and reasons in `evidence_tools`, where no
definition names one of them. Two tools are the least that overwrite each
other's files, and the most that matter: every property relates what one tool
wrote with what another, or an edit, made of it. Nineteen and twenty rows are
the two sides of the first rank that is not the last. Three nodes with equal
queues, a repeated id and one that is not ready are every case of `min()`; two
decisions are one before and one after a change. Two units and two rows are the
least that can deadlock, which takes four calls of `add`; a mixture of two rows
takes two columns and three calls, one to commit the row that the others change.
Units and the two columns are symmetric.

### Fairness

`Serving`: weak fairness of each handler and server step, because
the event loop runs every ready task; of the backend's answers; of the cancellation
of a stream whose client left and of the event
loop's closing of abandoned generators. Of a generator's steps, strong fairness:
they are enabled while its client reads, and a `send()` that waited for a stalled
client returns when it reads on, even if it stalls again at once. Fairness itself
assumes nothing of clients or of SIGTERM. But a client that keeps its connection
and never reads again holds its generator, with it a connection of the adapter's
pool, and any shutdown, for ever: neither `app.py` nor `cli.py` sets a limit. So
`StreamsEnd`, `ConnectionsReturned` and `DrainCompletes` are conditioned on clients
that are not stalled for ever (`ReadsOn`: each reads on now and then, or leaves);
without the condition TLC finds all three violated. `RequestsEnd` needs none.
`AdapterServing` assumes the same of the application's tasks, but of the
backend only that a call that waits, for a connection or for the server, goes on
or fails, because httpx has a timeout (`openai_timeout_seconds`) on both; the
property `ServingFairSpec` shows that this implies what `Serving` assumes, the
shared pool notwithstanding. One thing more is assumed silently: a stream has
finitely many lines with text (`MaxChunks`), and stops sending lines without
any. The timeout is per read, so the code itself sets no end. The fake answers
at once. `LocalRuntime`: weak fairness of each shell, and strong fairness of
`TimeOut`, which is enabled each time round the polling loop, because the loop
ends at a deadline. Nothing is assumed of processes: a server may never listen
and may ignore SIGTERM. `UnitOfWork`: strong fairness of each session's steps,
because PostgreSQL grants a row lock to those waiting in turn and its deadlock
detector runs; and of `Leave`, because the body of an `async with` ends. The
lock of a unit that never leaves would be held for ever: the code sets no
timeout, so this is assumed of callers. Nothing is assumed of calls.

## Proofs

`tlapm` checks eight modules. Constants are arbitrary, within the named
assumptions of the modules that declare them. Those say no more than that the
program runs on a finite machine and what its configuration must be: requests,
models and prompts are finite sets (counters are summed over them), bounds are
naturals, the fake backend's model may be requested and the word counts of its
answers are among those the application sees, a benchmark is a list of rows with
integers for its latencies, of which only the order matters.

* `ServingProofs`: `ServingTypeCorrect` proves `TypeOK` together with
  `GeneratorAtLastEvent`, which says where a generator is suspended given what
  it has sent. Without it types are not inductive (only a request with a
  generator is known to name a model), and neither is `TranscriptsWellFormed`.
  `ServingImplementsLedger` is the refinement: each generator step maps to the
  opening or the end of a stream, everything else stutters. `LedgerAccounted` is
  about the ledger alone: its counters are the cardinalities of its sets of
  failed and cancelled streams, because a stream that ends joins one set and
  leaves the others as they are (`EndMovesOne`). `ServingCountsStreams` is the
  two together. `AllowlistAlwaysHolds` uses `GateInv`: a request with a
  generator passed the gate, one that was refused did not. The lemmas about
  `ClosedInv`, that no task is active once the backend is closed, carry the
  assumption about the ASGI server to the proofs that need it.
  `GenerationErrorsAlwaysReachHttp` needs `ReplyInv` (what status and code of an
  answer on its way say of each other and of its request): the sum over the
  models grows by one when `generate()` raises, and so do the answers that the
  middleware has still to count. `HttpErrorsAlwaysExplained` uses the same
  invariant: the middleware counts an answer under its code exactly when it has
  one, and only what the router answers itself, an unrouted path or a 405, has
  none. Both rest on lemmas about `SumFunctionOnSet` over any finite set
  (`SumAdds`, `SumOfChange`), which the library defines by a fold; the existence
  of the fold, and what it returns, are proved with `SubsetInduction`, an
  induction over finite sets stated for a set of subsets in place of a
  predicate.
* `FakeServingProofs`: of the backend alone, from `BatchInv`,
  `BatchedWorkConserved` (the hits and misses of a batch partition what was
  active in it, and the prompts missed are those that join the cache),
  `BatchedCacheIsServedPrompts` and `BatchedObservationsSumUp`: each counter,
  taken on its own, is the sum over the positions of a list that grows by one.
  `FakeImplementsServing` (`FakeSpec => Spec`) carries the theorems of
  `ServingProofs` to the default application, and `FakeServingWork` those of the
  backend. `OnlyForeignModelsEverFail` is inductive with `BackendInv`: the
  backend is loaded whenever a task can call it, so that a call raises for no
  other reason than its model. That needs `ClosedInv`, since a backend that was
  closed under a running task would fail for any model.
  `BatchAlwaysCountsAnswers` and `TokensAlwaysDifferByStreams`, from
  `CountsAgree`: each batch the application sends is one request, which by this
  becomes one that was answered, and its words go to one side of the sum.
* `AdapterServingProofs`: `AdapterImplementsServing` (`AdapterSpec => Spec`): every
  step of the composition is a step of `Serving` or leaves it alone, so all the
  theorems above hold over the real adapter. `CallsMatchCallers` is inductive
  with one conjunct more, that no stream is awaited by its handler
  (`CallInv`). `StreamsContainAnswers`, from `TextInv`: content that
  was heard was said, reasoning too where no content was heard, and the chunks
  said are the content events of the transcript; it needs `ContentGrows`, on the
  number of content events in a transcript that grows.
  `AdapterTypeCorrect` follows from both.
* `ModelGateProofs`: `ServersAlwaysCleared` and `RefusalsAlwaysExplained`, from
  `DecisionInv` (a decision holds of the environment of its start, and only a
  decision to pass clears it) and `Rounding`, for any catalog and ceiling.
  `SoleServerAlwaysReported`, from `ReportInv`: if no other
  start was made, the report is that of the start past the gate; a start that was
  made never becomes idle again.
* `LocalRuntimeProofs`: `RuntimeTypeCorrect`; `StrangersAreLeftAlone`, from
  `PidsAreOurs` (every pid in the file or in a shell was once the runtime's);
  `DownReleases`, from `SweepIsComplete`: while a stopper works alone, each
  wrapper and each server that runs is either still to be listed or already in
  the list being worked through. Wrappers come first, so nothing already swept
  can start a new server.
* `UnitOfWorkProofs`: `UnitTypeCorrect`; `CommittedAlwaysStored`, from `StoredInv`
  (a session returns from its commit only after the database stored);
  `ReferencesAlwaysHold`, from `ClosedInv`: what each unit sees, and not only
  what is committed, has the rows it refers to. That the database alone is closed
  is not inductive, since a flush is checked against what its unit sees and its
  commit makes just that the database, beside commits of others.
  `UnitOfWorkImplementsStore` is the refinement; it needs `OneRowStaged`, since a
  change of the abstract store is one row that no other unit has changed.
  `RowsAlwaysAsAdded` follows from `AddedInv`: two transactions never write one
  row and, outside the overtaken rows, what is committed, what a unit sees after
  its writes and what it would see after its next flush are whole rows. The last
  is what makes it inductive: a flush writes columns, and only that they were
  compared with what the same unit sees makes the result a row somebody added.
  `FakeImplementsStore`: the fake, too, implements `TransactionalStore`: replacing
  a row of the clone, a commit, and leaving the block are a change, a commit and a
  discard.
* `ClusterProofs`: `DecisionsAlwaysReplay`. A decision that was made here was
  the result of `min()` over one order of one inventory. The invariant `Inv`
  says what it means without an order (`Right`): a fallback, and no entry serves
  the model; or an entry that serves it and that no other one comes before.
  `RouteIsRight` (there is a least pair, by well-foundedness of the numbers)
  shows that routing gives such a decision, `RightStays` that it stays right as
  long as nothing speaks against it, and `RightReplays` that among distinct ids
  only one decision is right, so that routing again gives the same.
* `EvidenceProofs`: the five properties of `EvidenceProperties`, from one
  invariant, `EvidenceInv`, which TLC checked first on the instance of
  `evidence_tools`. `Genuine` says, for each kind of file, what a content of it
  is worth to its reader: a record is one that was built, up to one leaf after
  the first edit; a bundle index has the verdict of such a record; the metrics
  and rows in a report that was alone are of its own probe. `FilesGenuine` says
  so of what is stored and `WritesGenuine` of what a process is about to write,
  because a tool reads in one step and writes in a later one; `ProbesAlone` says
  what is in the directory of a probe that has met no other, and `ScansUnderWay`
  what a scan has found of the tree so far. The proofs turn on
  `AcceptedTellsTheSame` (a record with one changed leaf that still loads has
  the verdict it was built with), `GenuineStays` (nothing becomes less genuine:
  records stay built, commits stay where they are, the counts grow), and
  `NearestRank`: `_percentile()` of any list, at any percentage from 1 to 100,
  is a value of the list that this share does not exceed and that share is not
  below. It needs no sorting: a value of each rank exists because sets of
  positions have a least and a greatest one by value (`LeastExists`,
  `GreatestExists`, by well-foundedness of the strict subsets).

Only model-checked: the liveness properties (`RequestsEnd`, `StreamsEnd`,
`DrainCompletes`, `CallsReturn`, `StartsEnd`, `DownsEnd`, `ConnectionsReturned`)
and the fairness part of `ServingFairSpec`, whose safety part is
`AdapterImplementsServing`: fairness and `ENABLED` are beyond the prover. The
other properties of the passing runs are all stated by a theorem.

## What the code does that may surprise

* `stop_pid_file` stops whatever runs under the recorded pid (run `pid_reuse`).
* `decode_tokens_total` and `tokens_generated_total` differ by what was
  streamed; `TokensDifferByStreams` states the exact relation.
* With a fake backend and an allowlist of several models all but the first are
  admitted and fail with 502 (`OnlyForeignModelsFail`).
* `rollback()` of the fake unit of work discards nothing: a later `commit()` in
  the same block stores what was added before it (run `fake_rollback`). The
  fake also accepts a run without its model, which PostgreSQL refuses.
* Two units that `add()` different versions of one row can leave a mixture of
  the two, because `merge()` writes only the columns that differed when it read
  the row. `RowsAsAdded` excludes exactly the rows committed in between.
* A `commit()` that is cancelled after the database has stored leaves
  `committed` false: `__aexit__` then rolls back nothing and the span says
  "rollback". Only the other direction holds (`CommittedMeansStored`), and it speaks
  of some commit since the unit began or rolled back: a second `commit()` that fails
  after a first one leaves `committed` true.
* A request that ends in an unmapped exception is in no counter; a stream that
  fails is a 200 in `requests_total`. The router's own 404 and 405 are in
  `requests_total` without an entry in `http_errors_total`, since Starlette's
  `HTTPException` is not the class whose handler sets the code: a POST to `/live` is
  a 405 of `/live` that no error code explains (`HttpErrorsExplained`).
* A client that keeps its connection and stops reading holds its stream, the
  connection of the adapter below it, and a shutdown, for as long as it likes.
* `stream()` ignores `[DONE]`: a body that merely ends is a complete answer, and
  a connection that fails after `[DONE]` turns a complete answer into an error.
* `generate()` drops reasoning beside content, `stream()` only within one line:
  reasoning streamed in lines of its own is part of the streamed answer
  (`StreamContainsAnswer`).
* While streams hold every connection of the pool, `ready()` times out and the
  application reports a healthy server as not ready.
* The gate lets a model exceed the ceiling by half a unit of the last digit that
  it rounds to, and may refuse one that is as much below (`ServersCleared`,
  `RefusalsExplained`).
* The gate's report may be that of another start, and is stale after a gate that
  raised (`SoleServerReported` says when it is right). `HF_HOME` in the
  environment moves the download away from the directory the gate looked at.
* A stored execution record may be given another commit, command or host, or an
  artifact directory further up, and still loads: these are stored once.
  `BundlesAsBuilt` is about the verdict, which is stored twice.
* The metrics of a contract report are fetched before its benchmark, so their
  request counter does not include it (`ReportsOfOneProbe`). The program that
  writes the report exits 0 whatever `contract_passed` says. Two probes that
  share a directory mix their files.
* A release scan reads the work tree and names HEAD: with uncommitted changes it
  passes or fails for files that the commit does not have, and a tracked file
  that is deleted in the work tree is not scanned (`ScansMatchCommits` says when
  the two agree).
* A benchmark manifest keeps no commit of the scan it vouches for
  (`ManifestsNamePublishable` assumes that it was the same).
* A cluster manifest may contain a decision that its own nodes contradict
  (`DecisionsReplay` says after which changes), or that nobody routed, and may
  name one id twice, with one evidence entry for both. Its evidence paths need
  not exist. One malformed node keeps `route_to_model()` from routing to any.
  `node-evidence` always says that the node is idle, ready and healthy.

## Not modelled

* `macos_services.py`, `runtime_stack.py` and `settings.py` turn configuration
  into records and files, once; nothing in them changes over time, and no
  property of them says more than their text does.
* `observability.py` and the spans and logs elsewhere are write-only for the
  program. The outcome attribute of the persistence span is in `UnitOfWork`.
* The Docker, alembic, mkdocs and CI files, and the `status` command of
  `local-runtime.sh`, which only reads.
* `build_node_evidence_report()` and its writer in `cluster.py`: nothing reads the
  report back, a manifest only takes paths.
* Of what is modelled: texts, headers, URLs, labels of metrics, averages and sums
  of benchmarks, and the patterns of the release scan. Validators of single
  fields are one bit: a value is well formed or not.
* `HF_HOME` in the environment of the model server, and `[DONE]` in a stream:
  listed as hazards without a property in `PROJECT.json`, since the code promises
  nothing about them. The unbounded growth of counters, caches and observation
  lists is cut off by the bounds.

What a next step would be: an abstract backend that `BatchedBackend` and the
adapter both implement, so that what the application relies on is stated once.
