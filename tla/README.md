# A verification project for DataAgent

DataAgent is a data-analysis assistant: a FastAPI application (`src/app`), a
Celery worker that runs the same code for slow or periodic work, and a web UI.
It keeps its state in PostgreSQL (accounts, conversations, metadata, query
experiences), Redis (sandbox operations, rate limits, the Celery broker),
Elasticsearch (search indexes), LangGraph's checkpoint tables, and per-user
sandbox containers with their files.  Most of what is hard about it is not in
one function but between these stores: no transaction spans two of them, the
processes share nothing but a few PostgreSQL and Redis locks, and every
background task may be lost, repeated or overtaken.

This directory models those protocols in TLA+, checks them with TLC on small
instances and proves the central invariants with TLAPS.

## 1. Inventory

### Parts, their state and their operations

| Part | Source (`src/app/...`) | State | Operations |
| --- | --- | --- | --- |
| Conversation lifecycle | `assistant/conversations`, `assistant/attachments.py`, `assistant/tasks.py` | directory rows (draft / formal / deletion mark / `update_at`), tombstones, lifecycle lock | create, rename, start/resume a turn, request deletion, delete draft, delete resources, expire drafts, repeat pending deletions, upload and delete attachments |
| Runs | `assistant/execution/runs.py` | per process: registry of Runs, event caches, subscriber queues, message offsets | start, subscribe, status, stop, publish, finish, close |
| Runtime cache | `assistant/execution/runtime_cache.py` | per process: built agents, use counts, builds in flight, closing and deleted keys | use, build, evict, close expired, delete conversation, close |
| Planner, delegation | `assistant/execution/planner.py`, `delegation.py`, `assistant/agents` | the LangGraph thread of the Planner and one per specialist Session | stream a turn, delegate, lease a Session, save results |
| Specialist Sessions | `assistant/sessions`, `assistant/repositories/session.py` | session locks (advisory), checkpoint threads | acquire, reuse, list, project state |
| Shell jobs | `assistant/execution/shell_jobs.py` | per process: jobs, monitors, cleanup records | start, wait, get, cancel, clean up |
| Recall | `assistant/recall`, `assistant/repositories/recall.py` | recall rows, the context assembled for a turn | record, load, assemble, delete |
| Messages | `assistant/messages` | none (projection of checkpoints) | project history, generate a title |
| Accounts, roles, auth | `identity/` | users, roles, refresh tokens | login, refresh (rotation), logout, deactivate, role changes, rate limiting |
| Metadata catalog | `metadata/catalog`, `metadata/repositories/postgres.py` | versions of tables, columns, metrics, relations, values | publish, edit, remove |
| Semantic and value indexing | `metadata/indexing.py`, `metadata/tasks.py` | claims, generations, index documents | claim, begin, index, complete, fail, take over |
| Metadata search | `metadata/search` | none | hybrid recall over the indexes |
| Query guard and execution | `query/execution` | per query: statement, row cap, timeout | check, rewrite, run, cancel |
| Query experiences | `query/experiences`, `query/repositories`, `query/tasks.py` | PostgreSQL rows (status, `revision`, `indexed_revision`), Elasticsearch documents (external version) | learn from a success, recall, disable, delete, repair the index |
| Sandbox ownership | `sandbox/ownership.py` | Redis: active operations per user and conversation, gates, tombstones, capacity | register, renew, release, maintenance, mutate, delete |
| Sandbox runtime and files | `sandbox/manager.py`, `runtime.py`, `storage.py`, `shell_runner.py` | containers, workspace trees, quotas | start, adopt, stop, execute, read, write, delete |
| Workflows | `workflows/` | `user_deletion_tasks` rows (pending, lease, completed) | request and process a user deletion, propagate metadata changes |
| Shared | `shared/` | configuration, clients, Celery app, advisory locks | — |
| Web UI, scripts, images | `web`, `scripts`, `docker`, `resources`, `conf` | — | — |

### How they interact

* The web UI calls the API; a turn is a `ConversationRun`, an asyncio task in
  **one** API process.  Only that process knows the Run: it answers `stop` and
  `subscribe`.  Other processes meet it only through the **lifecycle lock**, a
  PostgreSQL advisory lock that is tried once and never waited for.
* A turn writes the directory row first, then streams LangGraph checkpoints,
  recall records and sandbox files until it releases the lock.
* Deletion is asynchronous: the request marks the row and enqueues a Celery
  task; the task takes the same lock and empties the stores one after the
  other, closing each with a tombstone; a periodic task repeats what was lost.
* The sandbox counts operations in Redis with Lua scripts: an operation
  registers only while no gate and no tombstone exists; maintenance closes the
  gate and waits for the count to drop to zero.
* Query experiences and metadata have their truth in PostgreSQL and a
  projection in Elasticsearch.  The projection is written after the commit, by
  tasks that can be lost, repeated and reordered; versions decide who wins.
* Removing a user deactivates the account, then deletes conversations and the
  sandbox in a leased background task.

### What is hard here

Callbacks that fire after their subject was replaced (Run registry, runtime
cache, Shell jobs); decisions read in one transaction and used in another
(drafts, deletion marks, session slots); partial failure between two stores;
messages lost, repeated or overtaken (Celery, index writes); processes that die
with locks, leases and claims in hand; caps that are checked and then used;
slow consumers of bounded queues.  `PROJECT.json` lists each at its line under
"hazards", with the properties that would catch it.

## 2. Plan

### Modules, in order

| # | Module | Models | Composes | State |
| --- | --- | --- | --- | --- |
| 1 | `SealedStores` | abstract: what deleting a thing kept in several stores promises | — | done |
| 1 | `ConversationLifecycle` | conversations, Runs' registry, lifecycle lock, deletion, draft expiry, uploads, crashes | implements `SealedStores` | done, proved |
| 2 | `QueryExperiences` | experience rows, index tasks, repair scan, recall, administrators | — | done, proved |
| 3 | `SpecialistSessions` | delegations, session locks, capacity slots, permits, lock pool, crash and resume | — | done, proved |
| 4 | `UserDeletion` | removal of a user: request, dispatcher, workers, conversations, sandbox volume | the conversation deletion of module 1, compressed | done, proved |
| 5 | `RunEvents` | event publication, replay window, slow subscribers of one Run and its successor | registry of module 1 | done, proved |
| 5 | `RuntimeCache` | agent builds shared by callers, eviction, deletion, close | lifecycle lock and tombstones of module 1 | done, proved |
| 5 | `ShellJobs` | jobs, monitors, cancellation, cleanup of one agent run | — | done, proved |
| 6 | `SandboxOwnership` | leases, gates, capacity, deletions of several users | what modules 1 and 4 assume of the sandbox | done, proved |
| 6 | `SandboxStorage`, `SandboxFiles`, `SandboxPaths` | uids and directories of a volume; writing and editing a file; resolving a path | work under a lease of `SandboxOwnership` | done, proved |
| 7 | `AuthTokens`, `RoleAdministration`, `RateLimits` | sessions of a user; roles in PostgreSQL and Doris; both limiters | — | done, proved |
| 8 | `MetadataCatalog` | edits, deletions, imports of tables, columns, metrics | — | done, proved |
| 8 | `SemanticIndex`, `ValueIndexSync` | the documents of one entry; the values of one column | follow the catalogue | done, proved |
| 8 | `SemanticResources`, `MetadataSearch`, `RecallContext` | what is recalled and what a policy leaves of it; one search; the snapshots of a conversation | both extend the first; `Recall` | done, proved |
| 9 | `QueryGuard`, `QueryExecution`, `QueryResults` | joins of a statement; credentials, pools and records of queries; streaming of a result | records feed module 2 | done, proved |

The order follows what a mistake would cost: lost or leaked user data first
(1, 4), then wrong answers (2), then stuck or duplicated work (3, 5), then the
components these rest on.

### Abstract specifications

* `SealedStores` for every deletion across stores (close, then empty, then
  forget), implemented by `ConversationLifecycle`.
* Elsewhere the promise is a definition over history that the state is compared
  with: the log of `RateLimits` (`Promised`), the numbered events of a Run
  (`StreamsAreGapless`), the rows of a result (`SummariesMatchFiles`), the walk
  along a path (`PathsLeadHome`), the branches of a condition
  (`SourcesAreConnected`).

### Runs and bounds

One run per question.  The modules that share no state with others are explored
side by side: in `MCAgentRuntime` and `MCDataComponents` the initial state
chooses a *part*, only that part moves, and an invariant of the composite asks
the moving part's own invariant.  This is the union of the parts' state spaces
and loses no behaviour of any of them.  The compositions themselves are generic
modules, one per area: `AgentRuntime`, `Access`, `Sandboxes`, `Metadata`,
`Recall` and `Answers` (the last five with the variable of `Parts`) take the
parts' constants as their own, and the theorems are about them.
`MCDataComponents` only gives the constants values; every step of it is a step of
each area or leaves the area's variables as they are.  Bounds are what two or three
actors need to meet in every way the code distinguishes, and one fault of each
kind; section 3 says for each why that is enough.  Where a theorem states the
property, the bound matters only for liveness.

### Theorems

Type correctness and every safety property of a concurrent module, from one
inductive invariant per module; the refinement of an abstract specification.
Done for all modules; section 5 says what stays with TLC.

## 3. The modules

Every step of a model is what one process does between two points where
another one can be noticed: a database transaction, a Redis script, one call to
Elasticsearch, or — inside one event loop — the code between two `await`s.
`PROJECT.json` "map" gives, for every definition, the lines it stands for.
Definitions whose comment starts with "Mutant:" are deliberately wrong variants
that stand before the definition they vary; a property is only kept if one of
them violates it.

### 3.1 `ConversationLifecycle` (with `SealedStores`)

State: the directory row of each conversation with its deletion mark and age,
the tombstones of the Assistant database and of the sandbox, which stores hold
data, sandbox work that outlives its Run (`jobs`), the holder of each lifecycle
lock, the phase of each actor, each process's Run registry, and the broker.

| Actions | Code |
| --- | --- |
| `Create`, `Rename`, `Age` | `conversations/service.py`; the draft cutoff of `cleanup_expired_drafts` |
| Run: start, lock, prepare, build the agent, stream, unwind, leave, done callback | `execution/runs.py`, `conversations/turns.py`, `execution/planner.py`, `execution/runtime_cache.py` |
| Request: read, stop the Run, wait for it, mark, enqueue | `conversations/lifecycle.py` `request_conversation_deletion`, `service.py` |
| Cleaner: take a task or list a batch, lock, decide, seal, drop each store, drop the row | `assistant/tasks.py`, `lifecycle.py` `delete_conversation_resources`, `cleanup_expired_drafts`, `cleanup_pending_deletions` |
| Upload: lock, check, write | `assistant/attachments.py` |
| `Crash` of an API process, lost messages, failing steps | external |

Runs:

* **lifecycle_processes** — one conversation, two API processes, one new and
  one resumed Run, a deletion request and a draft-only request in the other
  process, a Cleaner, one failing step.  Two processes matter because the
  registry is per process and only the lock is shared; one Cleaner is enough
  because two of them exclude each other by the same lock as a Run and a Cleaner.
* **lifecycle_deletion** — one process with a Run, a deletion request, an upload, a
  Cleaner, a failing step and a crash, under fairness; the stores are closed
  before they are emptied, the row vanishes last, and every marked conversation
  is deleted in the end.  `DeletionIsOrderly` is the
  refinement of `SealedStores`: a thing is a conversation, the tombstone closes
  the checkpoint thread and the recall records, the sandbox's key the files.
* **lifecycle_half_deleted** (violated) — `docs/06` says that the deletion flow
  recovers by the directory's mark.  An expired draft is deleted *without* a
  mark; if a step fails after the tombstone, the next message (or a rename,
  which refreshes `update_at`) turns the half-deleted draft into a conversation
  that nothing deletes and no turn can use.

Fairness: weak fairness of each step of a process that runs and of the periodic
listing — the event loop schedules every task, Celery beat repeats its tasks.
Strong fairness of taking the lock: it is tried, never waited for, so a Cleaner
may meet it taken many times, but it tries for ever, and a marked conversation
admits no new turn that would keep the lock.  Nothing obliges a turn to end,
a user to act or a process to crash.  `MarkedIsDeleted` leaves out a conversation whose background jobs keep
the sandbox busy for ever.  Failures and crashes are bounded by constants
(`MaxFailures`, `MaxCrashes`), which only says that they stop at some time.

Not in the model: the batch limit of the cleanup tasks, titles, the loss of the
lock's database connection while its process lives (a hazard of its own).

### 3.2 `QueryExperiences`

State: rows with status, `revision`, `indexed_revision` and the metadata version
in their asset snapshot; the metadata version; the search document and the
version Elasticsearch remembers for its id; messages; recorders, recallers and
index workers with what they have read.

The rows are those of *one key* (role, authorization fingerprint, SQL
structure) over time, and *one* asset they depend on: rows of different keys
meet nowhere but in the ranking of a recall, and an asset is outdated
independently of others.  Permission filter and ranking are abstracted; a batch
administration call is several single ones.

| Actions | Code |
| --- | --- |
| `RecordReads`, `RecordInserts`, `RecordConflicts`, `RecordRefreshes`, `RecordIsLost` | `query/execution/recorder.py`, `query/repositories/experience_postgres.py` `upsert_from_success` |
| `RecallSearches`, `RecallReadsVersions`, `RecallReadsRows`, `RecallAnswers` | `query/experiences/recall.py` |
| `DisableManually`, `RequestDeletion` | `query/experiences/management.py`, `experience_postgres.py` |
| `PublishMetadata`, `InvalidateAssets`, `InvalidationIsLost` | `workflows/metadata_changes.py`, `query/experiences/invalidation.py` |
| `TakeTask`, `SyncReads`, `SyncWrites`, `SyncMarks`, `SyncRemoves`, `SyncHasNothingToDo`, `SyncFails` | `query/tasks.py`, `query/experiences/indexer.py`, `query/repositories/experience_index.py` |
| `RepairIndexes` (and `Enqueue`, which may lose messages) | `query/tasks.py`, `query/experiences/scheduler.py` |

External assumptions about Elasticsearch: `external_gte` versioning refuses an
older write, a deletion leaves a tombstone with the version, also for a
document that did not exist; the tombstone is forgotten (`ForgetVersion`,
`index.gc_deletes`) only when no write for that row is under way.

Runs:

* **experience_index** — one row, a recorder, a recall, an administrator, one
  failure, two revisions, two metadata versions; two index workers while the
  metadata stay as they are and one while they change (`racing` chooses the
  bound).  Messages and attempts get lost; every committed change reaches the
  index in the end and every deletion completes (`IndexCatchesUp`).  Fairness:
  the periodic repair scan runs (weak), a worker that took a task goes on (weak),
  and a message that is sent again and again is taken at some time (strong: a
  worker may be busy whenever it arrives, but not for ever).  The scan's batch
  limit is not modelled.
* **experience_stale_recall** (violated) — `docs/05` 3.6 promises answers whose
  metadata version is current.  A recall drops only the rows *its own* UPDATE
  disabled; a second recall whose UPDATE comes later changes no row and answers
  with the stale experience.

### 3.3 `SpecialistSessions`

State: phase and answer of each delegation or `delete_session` tool call, which
answers the Planner's checkpoint has, session locks, capacity slots, parallel
permits, each call's listing of sessions, the sessions' checkpoints and the
delegation records in them, active sessions of the process, the lock pool.

One conversation and one process at a time: the conversation lock of module 1
sees to it.  The process crashes or its Run is cancelled, and a later Run
repeats the calls whose answers were not kept, with the same arguments, because
those are in the Planner's checkpoint.  PostgreSQL is assumed to have released a
dead process's locks before the next Run.  Shell-job cleanup and the workspace
are abstracted.  `finished` is a history variable (results recorded since the
session's last deletion).

Each advisory lock occupies a connection; the pool has 12, while one Run may
want up to 17 (eight delegations with two locks each and its own).
`EveryCallEnds` shows that the pool's waiting time-out (psycopg's default 30 s)
breaks the resulting circular wait.

Runs:

* **sessions_resources** — two delegations of different sessions and a deletion
  of the first; a pool of two connections, one permit, one crash, one
  cancellation, one failing write, under fairness (event loop, pool time-out,
  bounded model calls; nobody has to resume a stopped Run).
* **sessions_limit** (violated) — `docs/06` 3.2 bounds the number of sessions by
  `max_sessions` *including* those without a first checkpoint.  A slot's number
  is compared with the number of sessions the call listed earlier, so three
  calls create three sessions although two are allowed.
* **sessions_cancelled_result** (violated) — `docs/06` 3.1: a repeated tool call
  reuses the recorded result.  A cancellation that arrives after the result's
  commit overwrites the record with "cancelled", and the resumed Run works again.

`CHECK_DEADLOCK FALSE`: tool calls are finite and a stopped Run may stay stopped.

### 3.4 `UserDeletion`

State: the account, the row of `user_deletion_tasks` (status, due, failed), messages,
workers with their batch and the execution lock, requests of the user admitted
before the account was disabled, conversations with their row, lock and data,
tombstones, the sandbox's volume and its user mark.  `lost` (workers whose lock
connection broke and who go on) and `late` (conversations created after the
account was disabled) are history variables.

| Actions | Code |
| --- | --- |
| `Admit`, `Create`, `StartTurn`, `TurnWrites`, `EndTurn`, `Rejected` | a request is authenticated once; `conversations/service.py`, `turns.py` |
| `RequestDeletion`, `PublishRequest` | `workflows/user_deletion.py`, `identity/accounts/deletion.py` |
| `BecomesDue`, `ClaimDue`, `PublishClaim(Fails)` | the periodic dispatcher, `workflows/tasks.py` |
| `TakeMessage`, `TryLock`, `ExtendClaim` | `_process_user_deletion` |
| `ListConversations`, `DeleteConversation`, `EraseConversation`, `DropRow`, `BatchEnds` | `lifecycle.py` `delete_user_conversations` |
| `ClearStore`, `DeleteSandbox`, `Complete` | remaining threads and recalls, `sandbox/manager.py`, `accounts/deletion.py` |
| `Raises`, `Fails`, `RecordFailure`, `LoseLock`, `LoseMessage`, `Crash` | error paths; external faults |

One user, because users share nothing here.  The deletion of one conversation
is that of module 1 in five steps under the conversation's lock.  Left out: the
last administrator's protection (in `RoleAdministration`), refresh tokens (in
`AuthTokens`), the dispatcher's batch limit; a repeated request changes nothing.

Runs:

* **user_deletion** — two workers, one request of the user, one conversation,
  one fault of any kind and one failing removal of the volume, which may be there
  from the beginning (conversations that were deleted before leave it).  Two
  workers are needed for a lost lock to matter.  `OnlyLateRowsStall` holds under
  fairness: the only thing that can keep a removal from ending is a late
  conversation that meets a half-removed sandbox.  Turns and workers end by their
  time limits, the dispatcher runs, time passes, messages are taken; the number
  of faults is bounded.
* **user_deletion_stall** (violated) — `docs/07` says the task is repeated until
  it succeeds.  `delete_user_sandbox` marks the user in Redis *before* it removes
  the volume.  If that removal fails and a conversation of an admitted request
  is created meanwhile, every retry fails on that conversation's files (the
  sandbox refuses the user) and never gets to the volume again.

`CHECK_DEADLOCK FALSE`: the system may rest once the removal is complete.

### 3.5 One API process: `RunEvents`, `RuntimeCache`, `ShellJobs` (run **agent_runtime**)

`MCAgentRuntime` explores the three beside one another; they share no state.

**`RunEvents`** — the registry, the phase of each Run's task and its admission,
the replay window, the subscribers' queues, and what each client has received.
No section of `execution/runs.py` that holds the registry's lock awaits, so each
is one step.  Events are numbers; an item of the window covers a range of them,
because consecutive deltas are merged.  Two Runs of a conversation and two
clients; queues and windows of two items and three bytes, an event that does not
fit; two events of the first Run and one of the second.  That is enough for a
full queue with and without room for the end mark, for a merge, for a window
that drops its oldest item or all, and for a successor that registers before the
done callback.  A merged delta is published as its parts to live subscribers and as one item
to later ones: `StreamsAreGapless` compares ranges.
Fairness: the event loop runs the callback of a finished task and resumes a
request whose admission is decided; nobody has to read or to end.

**`RuntimeCache`** — turns (`use_runtime`), builds, the cache in order of use,
deletion in this process and in another, `close()`.  Three turns of two
conversations and a cache of one runtime: two turns wait for one build while a
third needs room.  `delete_user_agents` (lines 86–109), a loop over the deletion
of one conversation, is not an action.

**`ShellJobs`** — a command's process group (`process`: `alive` while the command
itself runs, `orphaned` while only processes it left in the background do), the
wrapper that starts and watches it, its control file, the monitor task, `start`,
`get`, `_cancel` with its lock and script, `cleanup`.  One job, since jobs share
nothing but `_closing`; two callers and the sweep of cleanup.  `MaxErrors` bounds
what goes wrong at the cancellation requests, in the wrapper and in the backend
together; one is enough for each of these to race everything else.  A failed
request answers with the record and consumes nothing.  The wrapper can fail before
or after it started the command (`Launch`), or while it watches it (`WrapperFails`:
the log cannot be written); it then kills the command but, if that is over already,
not what it left behind (`WrapperEnds`, `scripts.py:202`).  The backend can fail
at any time of a run (`RunFails`), also after it found that the command goes on, when
leaving the operation raises (`shell_runner.py:56`, `ownership.py:182`).
Hence `VerdictsAreTrue` distinguishes: a job called completed has no process left; one
called failed or cancelled has one only if the backend failed while the command
could run (`lapsed`), the wrapper is failing, or it failed over a command that was over;
`cleanup()` leaves nothing running but in these cases and what it called interrupted.
A process that leaves its group is outside of what the code, and the model, follows.
Fairness: scripts have time limits and the event loop schedules every task; strong
fairness of `Interrupt`, because sweeps are repeated only until the deadline.  A
command need not end.

### 3.6 Sandboxes (part of run **data_components**)

**`SandboxOwnership`** — Redis' locks (user gate, conversation gate, storage
mutation, capacity), leases of operations, marks of deleted users, conversations
and sessions; Docker's containers, volumes and workspaces.  Actors are operations
(`get_backend`, `run_async`), preparation (attachments), deletion of a
conversation, a session or a user, and the periodic cleanup.  The `Crews` of
`MCDataComponents` are sets of actors that can meet: three users where one
container may run, and every kind of deletion against an operation, a
preparation, another deletion and the cleanup.  A lease may expire unrenewed.
`NoCircularWait`: nobody waits in a circle that only a time-out breaks; an actor that gives up its place forgets the victim it had chosen.
Not modelled: a process that is paused and goes on with a lock whose lease it
lost, the lease of an unused runtime, the rebuilding of an outdated container.
The cleanup takes the gate of a user but the maintenance of a conversation holds
no lease of the user: a container may be stopped under a deletion, which fails
then and is tried again.

**`SandboxStorage`** — the uid registry on a user's volume and the directories,
written in several Docker calls any of which may fail; two conversations and a
session whose uids collide.  `UidsAreIsolated` has one exception, `reset`: a
download reads without the storage lock, and one that found no registry writes
an empty one over what another has written meanwhile (`storage.py:540`).
The ownership checks of single files (323–447, 579–748) are not modelled.

**`SandboxFiles`** — a write, an upload and two edits of one file, with staging
files, time limits and sweeps that fail.  Edits rewrite in place: a killed edit, or
two at a time, leave a mixture, which `FilesAreWhole` names as the exceptions.

**`SandboxPaths`** — every path of up to three components, with `.`, `..`,
hidden names and the reserved directories, against the walk along its components.

### 3.7 Metadata and recall (part of run **data_components**)

**`MetadataCatalog`** — tables, columns with their references, metrics with
their columns; edits, deletions and imports as requests.  An import and a
deletion check in one transaction and write in another, and PostgreSQL's foreign
keys and cascades see to what was added between.  Two tables, three columns, one
metric, three requests of nineteen kinds, three documents (the same catalogue, a
smaller one, one with a dangling reference); the catalogue may become empty.  What is
exported passes the checks of an import, by merging or replacing, unless it is empty,
which an import refuses (`importer.py:85`; `ExportsComeBack`).  `CascadesAreLate`: what is
taken from an entry the change workflow is not told of was added after the check.  The
content of columns other than references, the source and the parsing of the
document are left out.

**`SemanticIndex`** — one entry and its documents: version, confirmed version,
tasks under the resource's lock, failures.  A writer that found no row may find one
when it writes: an import counts on from it, the merge of an edit starts it anew
with version 1 (`postgres.py:639`; `Written`), or the insertion fails.  `SettledIndexIsCurrent` excepts two
things the code allows: a lost notification, and a task that was writing while a
deletion, which takes no lock, removed the documents (`indexing.py:153`).
The stronger "an old task cannot mark a new version" (`docs/03`:327, :521) does
not hold of a resource that was deleted and created anew meanwhile, because its
versions start again.
Batches of several resources and dependants are left out.

**`ValueIndexSync`** — the row of a column's synchronisation, generations of
documents, cursors; runs that claim, die, are taken over when slow, and clear; the
removal of the column, alone, with its table or by an import, and its return.  A removal
takes the documents away first, outside of the transaction (`indexing.py:153`); then the
column goes, and by cascade the row (`DeleteColumn`), or the request fails and the row
stays with its cursor (`DeletionFails`).
Two runs, three values, a look-back of one, two configuration changes or removals.
`CommittedValuesAreIndexed` excepts `lost`: values whose documents a clear or a removal
deleted, or that a run wrote or deleted after it had lost the row.  That a run without
the row leaves documents of a column that is gone is not excluded.  "A successful full
synchronisation covers the source" (`docs/03`:351, with :344 and :522) does not hold when
such a run interferes.  The source only grows.

**`SemanticResources`**, **`MetadataSearch`**, **`RecallContext`** — what a
recall returns and what a policy leaves of it; one search through the four
channels with its failures, ranking and limits; the snapshots of a conversation's
queries with recalls, reads, merges and deletions that run at the same time,
while rights or catalogue change once or a day passes.  A search happens outside
every lock, its result is added under the advisory lock of the query; merges
and deletions take several of these locks in sorted order.  Only the newest
snapshot of a query counts; `delete_all`, `source_queries`, warnings and limits
of the answer are left out; a policy stands for the role and its fingerprint;
there is one clock.  Both share one catalogue: three columns of two tables, two
metrics and values, two queries, two policies and the crews of two or three calls
that can meet.  `RecallsAreSafe` of a search: nothing the policy does not grant is
answered, what is answered can be used, and a channel that did not answer is told.
Of the recalls: nothing that was recorded is lost to a call that runs beside it,
no answer exceeds the policy its call began with, snapshots stay closed and in
their scope, the changes told lead from one snapshot to the next, what was deleted
does not come back out of a cache, and no set of calls waits in a circle.

### 3.8 Access (part of run **data_components**)

**`AuthTokens`** — login, refresh, logout, change of the password, update and
deletion of the account as transactions at READ COMMITTED: which statement waits
for which row lock, what its snapshot shows.  One request of each kind and a
second refresh with the same token.  Two exceptions are history variables:
`stale` (`update_user` computes `auth_version` from a read without a lock, so
that two changes may give out one version; against `docs/02`:259 and the comment
at `accounts/service.py:142`) and `missed` (a logout with a rotated token whose
UPDATE does not see the token a concurrent refresh commits; against `docs/02`:257).

**`RoleAdministration`** — rows of roles and accounts, identities in Doris, the
security lock and the row locks; creation with its compensation, deletion and its
repetition, assignment, the default role, grants and the fingerprint that queries
observe.  Two administrators and a reader of one role, one fault.  The
compensation runs *after* the security lock is released (`roles/service.py:121`),
and a role whose deletion failed half-way can still be assigned; its deletion is
then refused as in use (163–178).  `broken` names the roles a fault hit.

**`RateLimits`** — the limiter in memory and the Redis script, each compared with
`Promised`, a definition over the log.  Three keys where two are counted, one
request per two seconds.  The promise of the script is conditional: it runs some
time after its caller read the clock (`late`).  `check_login`'s combination of two
limiters is left out.

### 3.9 Queries (part of run **data_components**)

`Answers` composes the three modules.

**`QueryGuard`** — the check of joins, condition by condition, over all
conditions of two comparisons, for up to two joins; parsing and name resolution
belong to sqlglot.  `_join_condition_links_sources` calls itself; `ConditionLinks` is
a recursive function over the same conditions, so that it can be reasoned about.
It is compared with the branches of a condition (`Branches`): a valid query compares
every joined source with earlier ones in each branch (`SourcesAreConnected`), and
what does so with earlier ones only is not refused (`ConnectedIsAccepted`).

**`QueryExecution`** — queries of a role that is deleted and created again, the
registry of connection pools of each process, closing and recording that fail,
cancellation.  The run has two processes and both queries on one of them: the role
may be deleted by the process that runs them or by another, whose registry is the
only one that is invalidated.  Pools of credentials that are void are registered
only where nobody invalidated them or by a query that resolved them before.  The
versions of assets are read *after* the execution (`recorder.py:85`), which belongs
to `QueryExperiences`.

**`QueryResults`** — batches, inferred types, ranges, sample, the temporary file and
the artifact, for up to three rows in any batches, two of them in the sample.
`SummariesMatchFiles` compares what the answer says with the rows of the artifact; a
column is called nullable (`MayBeNull`) if a null was seen in it, or if there is no row.

## 4. What is proved

The proofs hold for every value of the constants that satisfies the named
assumptions (disjoint sets of actors, bounds that are natural numbers).

* **`ConversationLifecycleProofs`** — `IInv` is inductive.  The properties are not
  inductive alone: that no store has data once the row is gone
  (`NoOrphans`) needs to know what each phase of a Cleaner has already closed and
  emptied (`CleanersProgress`), that a Run past the tombstone check works on an
  unsealed conversation (`RunsWorkUnsealed`) — which follows from the lock — and
  that data needs a row (`WorkNeedsRow`).  `UnmarkedFormalSurvives` needs that
  whatever asks for a deletion saw the mark (`DeletionsAreFounded`).  From `IInv`
  follow the safety properties and that every step is a step of `SealedStores` or
  a stutter (`DeletionImplementsPromise`).  `SealedStoresStayEmpty` is a consequence
  of that refinement, since the promise lets data into open stores only.  `CancelInv`
  adds whom a deletion request awaits, for what the liveness properties rest on
  (section 5).
* **`QueryExperiencesProofs`** — the key is `Covers(e, r)`: no write under way can
  undo the document of revision `r`, since an older one is refused by its version
  and one of the same revision writes the same.  It holds for the indexed
  revision of every row, for what a worker is about to mark, and for removed rows.
  `RowsMove` says what any step does to one row; from it follows that the scan finds
  what is not settled and that only a new revision unsettles a row.
* **`AccessProofs`**, queries — joins: the recursive check holds of a condition if and
  only if every branch has a comparison that links (`LinksInEveryBranch`); the
  conditions of the model are two deep, so the recursion is unfolded, not proved
  by induction.  `GuardInv` says of each join looked at whether it raised an issue.
  Results: the statistics are a function of the set of values read, whatever their
  order (`ResultInv`); merging one more type is taking the type of the larger set
  (`MergedIsTypeOfSet`).  Execution (`ExecInv`): what a query knows and holds follows
  from its phase, and no two processes register one pool (`PoolsAreOwn`), which is
  what makes closing a popped pool harmless for the others.
* **`AgentProofs`**, sessions — `SInv` in two halves.  What a tool call holds is
  a function of its phase (`HInv`: locks, slots, permits, activity entries and the
  number of connections, counted as cardinalities of finite sets); it needs no
  fact about checkpoints.  What is recorded rests on it: two calls never work in
  one session, so a session a call has listed still exists when it is resumed
  (`ListedSessionsStay`, hence `NewSessionsHoldSlots`), a deletion meets idle calls
  only (`DeletionSparesWork`), nobody changes a record under a call
  (`OutcomesMatch`, hence `AnswersAreDurable`), and only a cancellation replaces a
  result (`ResultsStay`, hence `UncancelledResultsAreReused`).  `Remaining(a)` counts
  the steps a call has left; what a step of a call requires of its phase makes it
  smaller, and what other steps require keeps them away from it
  (`CallsDoNotFallBack`).
* **`UserDeletionProofs`** — `CleanInv`: data belongs only to live rows and is
  erased before the row, under the row's lock; after the last listing only late
  rows are left, and these have no data, because nobody who was admitted knows
  them.  `LockInv`, inductive of its own: a worker that goes on holds the lock or
  has lost it.  So is `LocksAreUsed`: no lock outlives what it was taken for.
* **`AgentProofs`**, processes — the three parts of an API process.
  `EventsInv` relates, client by client, what the client has heard, what waits in
  its queue, what the window still has and what was published: a gapless tail, cut
  where a queue overflowed (`BroadcastLive`, `CutHeard`).  `CacheInv` counts the
  users of a runtime by the turns that hold it, and knows of each build whom it
  serves.  `ShellInv`, job by job: what was never started has left no trace and
  what was started stays in the records until it has a verdict; a control file that
  says `finished` means that the group is gone, one that says `failed` that the
  wrapper is failing or has failed; what the monitor and a verdict say of the process
  is true but for what the backend or the wrapper did not see (`lapsed`, `Unseen`); whoever was told a
  verdict has consumed it, or is the `start()` that did not detach the job.  From
  the interruption of `cleanup()` on, every record has a verdict: this is why what
  still runs after `cleanup()` has been called interrupted, but for the same exceptions.  `LocksInv` says of each
  cancel lock that its holder aims at this job and is at work, and that every sweep
  of `cleanup()` aims at its own job (`CancelLocksAreNotLost`).
* **`SandboxProofs`** — `OwnInv`: each kind of actor is only ever in its own phases;
  what it holds (gate, mutation lock, capacity lock, lease) follows from the phase;
  behind a closed gate every user with a lease is known to be idle, except for
  leases known as lost; a mark, once set, keeps registration out.  From it follow
  the capacity, that an operation whose container was taken away fails, and that
  deleted storage is not created again.  `NoCircularWait` needs an order of what
  is waited for, `WaitInv`: a lock is held by an actor at work; only an operation
  that reclaims a container looks at another user's; and the leases can be numbered
  such that whoever waits for the operations of another user has a smaller number
  than each of them.  Whoever waits then waits for something later, so a set of
  waiting actors has a last one (`NobodyWaitsInACircle`).  `StorageInv`: while a job
  holds the storage lock, the registry is what it loaded, so a free uid stays free
  until it is written; every directory is registered.  `FilesInv`: a mixture is
  blamed on an edit that works or was killed.  `PathInv` rests on a lemma about
  the walk along a plain path, proved for every depth.
* **`AccessProofs`** — tokens: what a transaction holds and has seen follows its
  phase; a family has one live token because whoever rotates holds the row's lock
  and saw it live; `born` numbers order credentials by the changes of the account.
  Roles (`RoleInv`): at most one administrator works on a role under the security
  lock, a compensation works alone on a role that has no row, and every identity is
  as far as the phase of whoever works on it says, or is noted as broken.  Rate
  limits: what either limiter keeps for a key is the part of the log inside the
  window (`RecentIsTail`, `LimiterKeeps`), unless the script ran late.
* **`MetadataProofs`** — catalogue: the invariant keeps it sound and without
  references of a column to itself, and keeps of each reader that the job was valid
  for the catalogue found.  That an import fits what was checked, that a deletion
  takes no more than the check saw, and that an export comes back unless it is empty are then facts
  about the operators (`DeletedIs`, `ImportFits`, `DeletionFits`).  Entry
  (`IndexInv`): the lock is held by the task that writes, what a task writes is the
  row it loaded, and every committed change is under way, in the documents, or
  noted as lost.  Values (`SyncInv`): the run that owns the row has indexed what it
  read beyond the committed cursor, and everything below the cursor is in the
  index or was taken away by a clear, by a removal of the column or by a run that had
  lost the row; a run that found a version of the column no longer valid has lost it.
  Search (`SearchInv`): what is ranked is known, that is, allowed, and every channel
  of a type that is done has answered or is among the failures; the rest is a fact
  about the context that is built of it (`FoundIs`).  Recalls (`RecallInv`): locks are
  held by writers, in the order of the queries, and a writer that has read holds all
  of its own, so nobody else has written since (`Locked`, `NothingIsLost`); whoever
  waits then waits for a query after the last it holds, and of a circle one call
  would have fewest queries after its own (`WaitsAscend`, `NobodyIsStuck`); a cache is
  of its call's policy, and whoever holds experiences that a deletion then removes is
  noted (`Remembered`).  Closed, authorized and complete answers are facts about the
  operators, for every response: `FilteredIs`, `MergedIs`, `WithoutIs`, `FollowLeads`.
* **`DataProofs`** — the areas together.  Every behaviour of `MCDataComponents` is, seen
  by the variables of one area, a behaviour of that area (`AccessIsAPart`, ...), so
  its `TypeOK` and the five safety invariants follow from the areas' theorems, for
  any values of the constants the configuration names.

The exceptions that a property names (`lost`, `late`, `lapsed`, `stale`, `missed`,
`broken`, `unseen`, ...) are in the theorem as well: they are behaviours of the code, and
section 3 says which.

## 5. What is only model-checked

Liveness (`MarkedIsDeleted`, `CancelledRunEnds`, `IndexCatchesUp`,
`EveryCallEnds`, `OnlyLateRowsStall`, `EndedRunsReleaseClients`, `CleanupEnds`):
it rests on fairness and `ENABLED`, which TLAPS does not treat.  Part of what
they need besides fairness is stated, and proved, in the proof modules (no run lists
these properties):

* `MarkedIsDeleted`: a mark goes away with the row only (`MarksAreKept`), so a later
  scan finds what a task, a retry or a crash has lost.
* `CancelledRunEnds`: a cancellation is not lost before the Run has ended, nothing
  takes the Run back, and each step of its task brings it closer to its end
  (`CancelledRunsOnlyEnd`); a deletion request awaits only Runs that were cancelled
  (`DeletionsOnlyAwaitCancelledRuns`).
* `EveryCallEnds`: nothing sets a tool call back and each step of its own brings it
  closer to its end, within 13 steps (`CallsDoNotFallBack`); a stopped Run has no
  call under way (`StoppedRunsLeaveNothing`).
* `EndedRunsReleaseClients`: a stream of a finished Run has its end queued
  (`FinishedRunsReleaseClients`).
* `CleanupEnds`: who holds a cancel lock is a cancellation of this job at work
  (`CancelLocksAreNotLost`).
* `IndexCatchesUp`: a row is settled or the scan finds it (`ScanFindsUnsettled`), a
  worker that ends with the present revision has settled it, and only a new revision
  makes it pending again (`IndexOnlyAdvances`).
* `OnlyLateRowsStall`: the locks a removal meets belong to somebody at work
  (`LocksAreNotLost`), only late conversations are added to those to delete
  (`RowsOnlyGetFewer`), and no other is left when the sandbox refuses
  (`OthersAreNotRefused`).

What is left to TLC is that the steps these ends need stay possible, and are taken.

The conditions of `QueryGuard` are those of two comparisons: what the recursive check
says of deeper ones is induction over data, which the installed provers cannot do.
For the same reason the proofs about a search use of the folds that add up scores
only that an order of them is an order of what was found.

## 6. What is not modelled

Model calls, prompts and tools, names and permissions in the rewriting of SQL,
HTML, the web UI, scripts and images: their correctness is not a matter of
states.  `scripts/development` generates test data.  Each component is listed
with its reason in `PROJECT.json`; what a modelled part leaves out is said in
section 3.  The map covers about a third of the implementation's lines; most of
the rest are contracts, repositories' queries, prompts and the web UI.

Hazards that no property covers:

* The database session that owns an advisory lock can be lost while its Run works
  on (`postgres_advisory_locks.py:63`); `UserDeletion` models this for its own
  lock (`LoseLock`), `ConversationLifecycle` does not.
* One failing conversation aborts the whole periodic batch (`lifecycle.py:183`);
  the repair scan of experiences takes 500 rows at a time (`experience_postgres.py:373`).
* A generated title is written by a conditional update beside a rename (`turns.py:62`).
* A recording transaction is lost when `ON CONFLICT DO NOTHING` meets a row that
  is being removed (`experience_postgres.py:77`; the model keeps the loss), and a
  recall may disable a row that a newer success refreshed (`recall.py:131`); the
  next success activates it again.
* An import that replaces the catalogue deletes index documents before a
  transaction that may be rolled back (`catalog/importer.py:138`): these rows have
  no documents until they change again.  `ValueIndexSync` has this of a column's values;
  of the semantic documents no property speaks.
* Query experiences are looked up outside the query lock and cached per call
  (`recall/service.py:83`); the primary keys that narrowed rights have hidden stay
  hidden in the snapshot (`context.py:444`).

Disagreements met while reading that no run shows:

* The conversation's `update_at` set by an attachment upload or deletion is
  rolled back: `assistant/attachments.py:49` and `:70` flush only, and
  `assistant/api/dependencies.py:49-55` closes the session without a commit,
  although the docstring at `attachments.py:55` promises the refresh.  The model
  follows the code: uploads do not touch the age.
* A finished delegation is shown as "running" while a later one of the same
  session executes (`assistant/sessions/state_reader.py:87`, against
  `docs/06` line 366).  The display is not part of the model.
* A formal conversation that a request admitted earlier creates after the last
  listing survives a completed user removal for ever (a draft expires), against
  `docs/07` line 196, which says all conversations are cleaned up.
  `CompletedMeansClean` says exactly this: what is left is in `late`, and empty.
* A column of an empty result is called nullable (`query/execution/executor.py:206`),
  although `docs/05` lines 106 and 256 say that the flag tells whether a null occurred.
  `SummariesMatchFiles` follows the code.
* `catalog/service.py:71` calls what it exports a configuration that can be imported
  again; an import refuses an empty catalogue (`catalog/importer.py:85`).
  `ExportsComeBack` makes the exception.
* The prompts say that a string returned by `shell` means that the command has ended
  (`resources/prompts/agents/analyst.md:33`, `planner.md:18`, `reviewer.md:12`,
  `explorer.md:30`).  If the backend fails on leaving the operation
  (`sandbox/shell_runner.py:56`, `ownership.py:182`), a command that runs on is answered
  as failed.  `VerdictsAreTrue` makes the exception (`lapsed`).
