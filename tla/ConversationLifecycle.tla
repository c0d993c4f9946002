----------------------- MODULE ConversationLifecycle -----------------------
(***************************************************************************)
(* The life of a Conversation across its stores: the directory row and the *)
(* recall records (Assistant PostgreSQL), the LangGraph checkpoint thread, *)
(* and the sandbox files.  Planner Runs, deletion requests and attachment  *)
(* uploads live in API processes; Cleaners are Celery task executions.  The *)
(* conversation lifecycle lock (a PostgreSQL advisory lock, taken without  *)
(* waiting) is the only thing that orders them across processes.           *)
(***************************************************************************)
EXTENDS Naturals, FiniteSets

CONSTANTS
    Conversations,  \* conversation identifiers of one user
    Processes,      \* API server processes
    Runs,           \* Planner Runs, each used once
    ResumeRuns,     \* the Runs that resume a pending checkpoint
    Requests,       \* deletion requests, each used once
    DraftRequests,  \* the requests of DELETE /chat/draft (draft_only = True)
    Uploads,        \* attachment uploads, each used once
    Cleaners,       \* Celery executions of the deletion and cleanup tasks
    Home,           \* the API process an actor lives in
    None,           \* no actor
    MaxFailures,    \* bound on failed cleanup steps
    MaxCrashes      \* bound on crashes of API processes

Local == Runs \cup Requests \cup Uploads
Actors == Local \cup Cleaners

ASSUME SubsetAssumption == ResumeRuns \subseteq Runs /\ DraftRequests \subseteq Requests
ASSUME HomeAssumption == Home \in [Local -> Processes]
ASSUME DisjointAssumption ==
    /\ Runs \cap Requests = {} /\ Runs \cap Uploads = {} /\ Runs \cap Cleaners = {}
    /\ Requests \cap Uploads = {} /\ Requests \cap Cleaners = {}
    /\ Uploads \cap Cleaners = {}
ASSUME NoneAssumption == None \notin Actors \cup Conversations
ASSUME BoundAssumption == MaxFailures \in Nat /\ MaxCrashes \in Nat

VARIABLES
    row,            \* "absent", "draft", "formal" or "gone", per conversation
    deleting,       \* conversations whose deletion_requested_at is set
    stale,          \* conversations whose update_at is before the draft cutoff
    tombstone,      \* conversations with a row in conversation_tombstones
    filesTombstone, \* conversations with a deletion key in the sandbox's Redis
    held,           \* <<conversation, store>> pairs with data in the store
    jobs,           \* <<process, conversation>>: sandbox work outliving its Run
    lock,           \* the holder of each conversation's lifecycle lock
    pc, target,     \* what each actor does, and to which conversation
    registry,       \* per process: the Run registered for a conversation
    cancelled,      \* Runs whose task was asked to cancel
    awaits,         \* the Run a deletion request waits for
    mode, batch,    \* what a Cleaner works through, and what is left of it
    queue,          \* conversations with a deletion task at the broker
    failures, crashes

rowVars == <<row, deleting, stale>>
storeVars == <<tombstone, filesTombstone, held, jobs>>
actorVars == <<lock, pc, target>>
runVars == <<registry, cancelled, awaits>>
cleanVars == <<mode, batch, queue>>
faultVars == <<failures, crashes>>
vars == <<rowVars, storeVars, actorVars, runVars, cleanVars, faultVars>>

Stores == {"checkpoint", "recall", "files"}

RunPhases == {"registered", "preparing", "admitted", "building", "streaming",
              "unwinding", "leaving", "done"}
CleanPhases == {"batch", "queued", "deciding", "sealing", "dropCheckpoint",
                "dropRecall", "sealFiles", "dropFiles", "dropRow"}
Phases == {"idle", "ended", "stopping", "waiting", "marking", "checking", "writing"}
          \cup RunPhases \cup CleanPhases

(* The phases in which an actor is inside "async with advisory_lock".      *)
Holding == {"preparing", "admitted", "building", "streaming", "unwinding",
            "leaving", "marking", "checking", "writing"}
           \cup (CleanPhases \ {"batch", "queued"})

(* A Run whose asyncio task is not done, and one whose turn was accepted.   *)
Live == RunPhases \ {"done"}
Executing == {"admitted", "building", "streaming", "unwinding"}

Init ==
    /\ row = [c \in Conversations |-> "absent"]
    /\ deleting = {} /\ stale = {} /\ tombstone = {} /\ filesTombstone = {}
    /\ held = {} /\ jobs = {}
    /\ lock = [c \in Conversations |-> None]
    /\ pc = [a \in Actors |-> "idle"]
    /\ target = [a \in Actors |-> None]
    /\ registry = [p \in Processes |-> [c \in Conversations |-> None]]
    /\ cancelled = {}
    /\ awaits = [q \in Requests |-> None]
    /\ mode = [k \in Cleaners |-> "task"]
    /\ batch = [k \in Cleaners |-> {}]
    /\ queue = {}
    /\ failures = 0 /\ crashes = 0

-----------------------------------------------------------------------------
(* Steps every actor is built from.                                        *)

Goto(a, phase) == pc' = [pc EXCEPT ![a] = phase]

(* pg_try_advisory_lock either gives the lock or raises at once.           *)
Acquire(a, phase) ==
    /\ lock[target[a]] = None
    /\ lock' = [lock EXCEPT ![target[a]] = a]
    /\ Goto(a, phase) /\ UNCHANGED target

Release(a, phase) ==
    /\ lock' = [lock EXCEPT ![target[a]] = None]
    /\ Goto(a, phase) /\ UNCHANGED target

Advance(a, from, to) ==
    /\ pc[a] = from /\ Goto(a, to)
    /\ UNCHANGED <<lock, target>>

Exists(c) == row[c] \in {"draft", "formal"}

(* ConversationPGRepo.get without include_deleting hides marked rows.      *)
Visible(c) == Exists(c) /\ c \notin deleting

-----------------------------------------------------------------------------
(* The directory.                                                          *)

Create(c) ==
    /\ row[c] = "absent"
    /\ \E kind \in {"draft", "formal"} : row' = [row EXCEPT ![c] = kind]
    /\ UNCHANGED <<deleting, stale, storeVars, actorVars, runVars, cleanVars, faultVars>>

(* A rename sets update_at in a transaction of its own, without the lock.  *)
Rename(c) ==
    /\ Visible(c)
    /\ stale' = stale \ {c}
    /\ UNCHANGED <<row, deleting, storeVars, actorVars, runVars, cleanVars, faultVars>>

(* Time passes the draft cutoff.                                           *)
Age(c) ==
    /\ row[c] = "draft"
    /\ stale' = stale \cup {c}
    /\ UNCHANGED <<row, deleting, storeVars, actorVars, runVars, cleanVars, faultVars>>

-----------------------------------------------------------------------------
(* Planner Runs.                                                           *)

(* ConversationRunService.start refuses while a registered task is alive.  *)
RegistryFree(p, c) == registry[p][c] # None => pc[registry[p][c]] \notin Live

StartRun(r, c) ==
    /\ pc[r] = "idle" /\ RegistryFree(Home[r], c)
    /\ registry' = [registry EXCEPT ![Home[r]][c] = r]
    /\ target' = [target EXCEPT ![r] = c]
    /\ Goto(r, "registered")
    /\ UNCHANGED <<lock, rowVars, storeVars, cancelled, awaits, cleanVars, faultVars>>

RunLocks(r) ==
    /\ pc[r] = "registered" /\ Acquire(r, "preparing")
    /\ UNCHANGED <<rowVars, storeVars, runVars, cleanVars, faultVars>>

(* The lock is busy, or the task is cancelled before it asks for it.       *)
RunNotAdmitted(r) ==
    /\ Advance(r, "registered", "done")
    /\ lock[target[r]] # None \/ r \in cancelled
    /\ UNCHANGED <<rowVars, storeVars, runVars, cleanVars, faultVars>>

(* Mutant: the tombstone is never looked up.                               *)
NeverSealed(c) == FALSE

(* ConversationTombstoneStore.exists                                       *)
Sealed(c) == c \in tombstone

(* AgentStateReader.can_resume_planner                                     *)
Resumable(c) == ~Sealed(c) /\ <<c, "checkpoint">> \in held

(* prepare() of a new turn: the draft becomes formal and update_at moves;  *)
(* a resumed turn needs a visible row and a checkpoint to resume.          *)
PrepareAccepts(r) ==
    LET c == target[r] IN
    /\ Advance(r, "preparing", "admitted")
    /\ Visible(c)
    /\ IF r \in ResumeRuns
       THEN Resumable(c) /\ UNCHANGED rowVars
       ELSE /\ row' = [row EXCEPT ![c] = "formal"]
            /\ stale' = stale \ {c}
            /\ UNCHANGED deleting
    /\ UNCHANGED <<storeVars, runVars, cleanVars, faultVars>>

PrepareRejects(r) ==
    LET c == target[r] IN
    /\ Advance(r, "preparing", "leaving")
    /\ ~Visible(c) \/ (r \in ResumeRuns /\ ~Resumable(c))
    /\ UNCHANGED <<rowVars, storeVars, runVars, cleanVars, faultVars>>

(* AgentManager.use_runtime looks the deletion tombstone up before it      *)
(* builds the runtime and again before it hands the runtime out.           *)
CheckTombstone(r, from, to) ==
    /\ Advance(r, from, IF Sealed(target[r]) THEN "leaving" ELSE to)
    /\ UNCHANGED <<rowVars, storeVars, runVars, cleanVars, faultVars>>

EnterRuntime(r) == CheckTombstone(r, "admitted", "building")
UseRuntime(r) == CheckTombstone(r, "building", "streaming")

(* LangGraph saves checkpoints while the graph runs and while it unwinds.  *)
WriteCheckpoint(r) ==
    /\ pc[r] \in {"streaming", "unwinding"}
    /\ held' = held \cup {<<target[r], "checkpoint">>}
    /\ UNCHANGED <<tombstone, filesTombstone, jobs, rowVars, actorVars, runVars,
                   cleanVars, faultVars>>

WriteRecall(r) ==
    /\ pc[r] = "streaming"
    /\ held' = held \cup {<<target[r], "recall">>}
    /\ UNCHANGED <<tombstone, filesTombstone, jobs, rowVars, actorVars, runVars,
                   cleanVars, faultVars>>

(* A sandbox operation registers only while no deletion key exists.        *)
SandboxOpen(c) == c \notin filesTombstone

(* A detached Shell job, or a runtime build the Run's cancellation does    *)
(* not reach, keeps working in the process after the Run has ended.        *)
StartJob(r) ==
    /\ pc[r] \in {"building", "streaming"} /\ SandboxOpen(target[r])
    /\ jobs' = jobs \cup {<<Home[r], target[r]>>}
    /\ UNCHANGED <<tombstone, filesTombstone, held, rowVars, actorVars, runVars,
                   cleanVars, faultVars>>

JobWritesFiles(p, c) ==
    /\ <<p, c>> \in jobs
    /\ held' = held \cup {<<c, "files">>}
    /\ UNCHANGED <<tombstone, filesTombstone, jobs, rowVars, actorVars, runVars,
                   cleanVars, faultVars>>

EndJob(p, c) ==
    /\ <<p, c>> \in jobs
    /\ jobs' = jobs \ {<<p, c>>}
    /\ UNCHANGED <<tombstone, filesTombstone, held, rowVars, actorVars, runVars,
                   cleanVars, faultVars>>

(* The turn ends by itself or with an exception.                           *)
TurnEnds(r) ==
    /\ Advance(r, "streaming", "unwinding")
    /\ UNCHANGED <<rowVars, storeVars, runVars, cleanVars, faultVars>>

(* Mutant: the stream loop swallows the CancelledError.                    *)
RunCancelledEarly(r) ==
    /\ r \in cancelled /\ pc[r] \in {"preparing", "admitted", "building"}
    /\ Goto(r, "leaving")
    /\ UNCHANGED <<lock, target>>
    /\ UNCHANGED <<rowVars, storeVars, runVars, cleanVars, faultVars>>

(* CancelledError surfaces at the task's next suspension point.            *)
RunCancelled(r) ==
    /\ r \in cancelled /\ pc[r] \in {"preparing", "admitted", "building", "streaming"}
    /\ Goto(r, IF pc[r] = "streaming" THEN "unwinding" ELSE "leaving")
    /\ UNCHANGED <<lock, target>>
    /\ UNCHANGED <<rowVars, storeVars, runVars, cleanVars, faultVars>>

(* responses.aclose() has returned: the lock goes, then the task is done.  *)
RunUnlocks(r) ==
    /\ pc[r] \in {"unwinding", "leaving"} /\ Release(r, "done")
    /\ UNCHANGED <<rowVars, storeVars, runVars, cleanVars, faultVars>>

(* Mutant: _finish without the "is run" comparison.                        *)
FinishRunBlind(r) ==
    /\ Advance(r, "done", "ended")
    /\ registry' = [registry EXCEPT ![Home[r]][target[r]] = None]
    /\ cancelled' = cancelled \ {r}
    /\ UNCHANGED <<rowVars, storeVars, awaits, cleanVars, faultVars>>

(* _finish, the task's done callback, removes only its own registration.   *)
FinishRun(r) ==
    LET p == Home[r] c == target[r] IN
    /\ Advance(r, "done", "ended")
    /\ registry' = IF registry[p][c] = r
                   THEN [registry EXCEPT ![p][c] = None] ELSE registry
    /\ cancelled' = cancelled \ {r}
    /\ UNCHANGED <<rowVars, storeVars, awaits, cleanVars, faultVars>>

(* POST /chat/stop, a client that leaves during admission, or close().     *)
CancelRun(r) ==
    /\ pc[r] \in Live /\ registry[Home[r]][target[r]] = r
    /\ cancelled' = cancelled \cup {r}
    /\ UNCHANGED <<registry, awaits, rowVars, storeVars, actorVars, cleanVars, faultVars>>

-----------------------------------------------------------------------------
(* Deletion requests.                                                      *)

(* A draft-only request for anything but a draft returns False.            *)
MayDelete(q, c) == Exists(c) /\ (q \in DraftRequests => row[c] = "draft")

RequestDeletion(q, c) ==
    /\ pc[q] = "idle" /\ MayDelete(q, c)
    /\ target' = [target EXCEPT ![q] = c]
    /\ Goto(q, "stopping")
    /\ UNCHANGED <<lock, rowVars, storeVars, runVars, cleanVars, faultVars>>

(* Mutant: stop() does not test what the registry returned.                *)
RequestStopsBlind(q) ==
    LET run == registry[Home[q]][target[q]] IN
    /\ Advance(q, "stopping", "waiting")
    /\ cancelled' = cancelled \cup {run}
    /\ awaits' = [awaits EXCEPT ![q] = run]
    /\ UNCHANGED <<registry, rowVars, storeVars, cleanVars, faultVars>>

(* stop() cancels the Run registered in this process and awaits its task.  *)
RequestStops(q) ==
    LET c == target[q] IN
    /\ Advance(q, "stopping", "waiting")
    /\ IF RegistryFree(Home[q], c)
       THEN UNCHANGED <<cancelled, awaits>>
       ELSE /\ cancelled' = cancelled \cup {registry[Home[q]][c]}
            /\ awaits' = [awaits EXCEPT ![q] = registry[Home[q]][c]]
    /\ UNCHANGED <<registry, rowVars, storeVars, cleanVars, faultVars>>

Stopped(q) == awaits[q] # None => pc[awaits[q]] \notin Live

(* Mutant: stopping the local Run is taken to be enough, without a lock.   *)
RequestLocksNothing(q) ==
    /\ Stopped(q) /\ Advance(q, "waiting", "marking")
    /\ UNCHANGED <<rowVars, storeVars, runVars, cleanVars, faultVars>>

RequestLocks(q) ==
    /\ pc[q] = "waiting" /\ Stopped(q) /\ Acquire(q, "marking")
    /\ UNCHANGED <<rowVars, storeVars, runVars, cleanVars, faultVars>>

RequestBusy(q) ==
    /\ Advance(q, "waiting", "ended")
    /\ Stopped(q) /\ lock[target[q]] # None
    /\ UNCHANGED <<rowVars, storeVars, runVars, cleanVars, faultVars>>

(* Mutant: the check before stop() is not repeated under the lock.         *)
RequestMarksUnchecked(q) ==
    /\ pc[q] = "marking" /\ Release(q, "ended")
    /\ deleting' = IF Exists(target[q]) THEN deleting \cup {target[q]} ELSE deleting
    /\ queue' = deleting'
    /\ UNCHANGED <<row, stale, mode, batch, storeVars, runVars, faultVars>>

(* The row is checked again under the lock.  The commit precedes the       *)
(* unlock; publishing the deletion task may fail and is not repeated here. *)
RequestMarks(q) ==
    LET c == target[q] IN
    /\ pc[q] = "marking" /\ Release(q, "ended")
    /\ IF MayDelete(q, c)
       THEN /\ deleting' = deleting \cup {c}
            /\ stale' = IF c \in deleting THEN stale ELSE stale \ {c}
            /\ queue' \in {queue, queue \cup {c}}
       ELSE UNCHANGED <<deleting, stale, queue>>
    /\ UNCHANGED <<row, mode, batch, storeVars, runVars, faultVars>>

-----------------------------------------------------------------------------
(* Attachment uploads.                                                     *)

UploadLocks(u, c) ==
    /\ pc[u] = "idle" /\ lock[c] = None
    /\ target' = [target EXCEPT ![u] = c]
    /\ lock' = [lock EXCEPT ![c] = u]
    /\ Goto(u, "checking")
    /\ UNCHANGED <<rowVars, storeVars, runVars, cleanVars, faultVars>>

UploadChecks(u) ==
    /\ Advance(u, "checking", "writing") /\ Visible(target[u])
    /\ UNCHANGED <<rowVars, storeVars, runVars, cleanVars, faultVars>>

UploadRefused(u) ==
    LET c == target[u] IN
    /\ \/ pc[u] = "checking" /\ ~Visible(c)
       \/ pc[u] = "writing" /\ ~SandboxOpen(c)
    /\ Release(u, "ended")
    /\ UNCHANGED <<rowVars, storeVars, runVars, cleanVars, faultVars>>

(* update() only flushes: nothing commits the request's session, so the    *)
(* new update_at is rolled back when the session closes.                   *)
UploadWrites(u) ==
    LET c == target[u] IN
    /\ pc[u] = "writing" /\ SandboxOpen(c)
    /\ held' = held \cup {<<c, "files">>}
    /\ Release(u, "ended")
    /\ UNCHANGED <<rowVars, tombstone, filesTombstone, jobs, runVars, cleanVars, faultVars>>

-----------------------------------------------------------------------------
(* Cleaners.                                                               *)

(* acks_late: the message stays at the broker until its task has ended, so *)
(* an expired visibility timeout hands it to a second worker.              *)
TakeTask(k, c) ==
    /\ pc[k] = "idle" /\ c \in queue
    /\ mode' = [mode EXCEPT ![k] = "task"]
    /\ target' = [target EXCEPT ![k] = c]
    /\ Goto(k, "queued")
    /\ UNCHANGED <<lock, batch, queue, rowVars, storeVars, runVars, faultVars>>

(* Mutant: the scan tests the mark with is_(None).                         *)
UnmarkedRows == {c \in Conversations : Exists(c) /\ c \notin deleting}

PendingDeletions == {c \in Conversations : Exists(c) /\ c \in deleting}
ExpiredDrafts == {c \in Conversations : row[c] = "draft" /\ c \in stale \ deleting}

(* The periodic task lists the marked rows, works through that list, then  *)
(* lists the expired drafts and works through that one.                    *)
ListPending(k) ==
    /\ Advance(k, "idle", "batch")
    /\ mode' = [mode EXCEPT ![k] = "pending"]
    /\ batch' = [batch EXCEPT ![k] = PendingDeletions]
    /\ UNCHANGED <<queue, rowVars, storeVars, runVars, faultVars>>

ListExpired(k) ==
    /\ pc[k] = "batch" /\ mode[k] = "pending" /\ batch[k] = {}
    /\ mode' = [mode EXCEPT ![k] = "expired"]
    /\ batch' = [batch EXCEPT ![k] = ExpiredDrafts]
    /\ UNCHANGED <<queue, rowVars, storeVars, actorVars, runVars, faultVars>>

NextOfBatch(k, c) ==
    /\ pc[k] = "batch" /\ c \in batch[k]
    /\ batch' = [batch EXCEPT ![k] = @ \ {c}]
    /\ target' = [target EXCEPT ![k] = c]
    /\ Goto(k, "queued")
    /\ UNCHANGED <<lock, mode, queue, rowVars, storeVars, runVars, faultVars>>

EndBatch(k) ==
    /\ mode[k] = "expired" /\ batch[k] = {}
    /\ Advance(k, "batch", "idle")
    /\ UNCHANGED <<cleanVars, rowVars, storeVars, runVars, faultVars>>

CleanerLocks(k) ==
    /\ pc[k] = "queued" /\ Acquire(k, "deciding")
    /\ UNCHANGED <<rowVars, storeVars, runVars, cleanVars, faultVars>>

(* delete_conversation_resources returned: a task is acknowledged, a batch *)
(* goes on with its next conversation.                                     *)
Returns(k) ==
    /\ Release(k, IF mode[k] = "task" THEN "idle" ELSE "batch")
    /\ queue' = IF mode[k] = "task" THEN queue \ {target[k]} ELSE queue
    /\ UNCHANGED <<mode, batch>>

(* It raised: a task is redelivered until its retries are used up, a batch *)
(* is given up with everything that was left in it.                        *)
Raises(k) ==
    /\ queue' \in IF mode[k] = "task" THEN {queue, queue \ {target[k]}} ELSE {queue}
    /\ batch' = [batch EXCEPT ![k] = {}]
    /\ UNCHANGED mode

CleanerBusy(k) ==
    /\ Advance(k, "queued", "idle") /\ Raises(k)
    /\ lock[target[k]] # None
    /\ UNCHANGED <<rowVars, storeVars, runVars, faultVars>>

(* Mutant: the expiry is not checked again under the lock.                 *)
EligibleOnce(k, c) == Exists(c)

(* The row is read again under the lock.                                   *)
Eligible(k, c) ==
    /\ Exists(c)
    /\ mode[k] = "expired" => row[c] = "draft" /\ c \in stale

CleanerProceeds(k) ==
    /\ Advance(k, "deciding", "sealing")
    /\ Eligible(k, target[k])
    /\ UNCHANGED <<rowVars, storeVars, runVars, cleanVars, faultVars>>

CleanerSkips(k) ==
    /\ pc[k] = "deciding" /\ ~Eligible(k, target[k]) /\ Returns(k)
    /\ UNCHANGED <<rowVars, storeVars, runVars, faultVars>>

(* Mutant: the checkpoint thread is deleted without a tombstone.           *)
SaveNoTombstone(k) ==
    /\ Advance(k, "sealing", "dropCheckpoint")
    /\ UNCHANGED <<storeVars, rowVars, runVars, cleanVars, faultVars>>

(* The tombstone is committed before the checkpoint thread is deleted.     *)
SaveTombstone(k) ==
    /\ Advance(k, "sealing", "dropCheckpoint")
    /\ tombstone' = tombstone \cup {target[k]}
    /\ UNCHANGED <<filesTombstone, held, jobs, rowVars, runVars, cleanVars, faultVars>>

DropStore(k, store, from, to) ==
    /\ Advance(k, from, to)
    /\ held' = held \ {<<target[k], store>>}
    /\ UNCHANGED <<tombstone, filesTombstone, jobs, rowVars, runVars, cleanVars, faultVars>>

DropCheckpoint(k) == DropStore(k, "checkpoint", "dropCheckpoint", "dropRecall")
DropRecall(k) == DropStore(k, "recall", "dropRecall", "sealFiles")
DropFiles(k) == DropStore(k, "files", "dropFiles", "dropRow")

(* Conversation maintenance: the gate is held and no operation is active.  *)
Idle(c) == \A p \in Processes : <<p, c>> \notin jobs

(* Mutant: maintenance does not wait for active operations.                *)
SealBusyFiles(k) ==
    /\ Advance(k, "sealFiles", "dropFiles")
    /\ filesTombstone' = filesTombstone \cup {target[k]}
    /\ UNCHANGED <<tombstone, held, jobs, rowVars, runVars, cleanVars, faultVars>>

SealFiles(k) ==
    /\ Advance(k, "sealFiles", "dropFiles") /\ Idle(target[k])
    /\ filesTombstone' = filesTombstone \cup {target[k]}
    /\ UNCHANGED <<tombstone, held, jobs, rowVars, runVars, cleanVars, faultVars>>

DropRow(k) ==
    /\ pc[k] = "dropRow" /\ Returns(k)
    /\ row' = [row EXCEPT ![target[k]] = "gone"]
    /\ deleting' = deleting \ {target[k]}
    /\ stale' = stale \ {target[k]}
    /\ UNCHANGED <<storeVars, runVars, faultVars>>

(* A step raises, times out, or the worker dies and its lock goes with it. *)
CleanerFails(k) ==
    /\ failures < MaxFailures /\ failures' = failures + 1
    /\ pc[k] \in Holding /\ Release(k, "idle") /\ Raises(k)
    /\ UNCHANGED <<crashes, rowVars, storeVars, runVars>>

-----------------------------------------------------------------------------
(* An API process dies: its tasks, its locks, its registry and its jobs    *)
(* vanish together.                                                        *)
CrashProcess(p) ==
    LET lost == {a \in Local : Home[a] = p /\ pc[a] # "idle"} IN
    /\ crashes < MaxCrashes /\ crashes' = crashes + 1
    /\ pc' = [a \in Actors |-> IF a \in lost THEN "ended" ELSE pc[a]]
    /\ lock' = [c \in Conversations |-> IF lock[c] \in lost THEN None ELSE lock[c]]
    /\ registry' = [registry EXCEPT ![p] = [c \in Conversations |-> None]]
    /\ jobs' = {j \in jobs : j[1] # p}
    /\ cancelled' = cancelled \ lost
    /\ UNCHANGED <<target, awaits, rowVars, tombstone, filesTombstone, held, cleanVars,
                   failures>>

DirectoryNext == \E c \in Conversations : Create(c) \/ Rename(c) \/ Age(c)

RunStep(r) ==
    \/ RunLocks(r) \/ RunNotAdmitted(r) \/ PrepareAccepts(r) \/ PrepareRejects(r)
    \/ EnterRuntime(r) \/ UseRuntime(r) \/ RunCancelled(r) \/ RunUnlocks(r) \/ FinishRun(r)

RunWork(r) ==
    \/ \E c \in Conversations : StartRun(r, c)
    \/ WriteCheckpoint(r) \/ WriteRecall(r) \/ StartJob(r)
    \/ TurnEnds(r) \/ CancelRun(r)

JobNext ==
    \E p \in Processes, c \in Conversations : JobWritesFiles(p, c) \/ EndJob(p, c)

RequestStep(q) ==
    RequestStops(q) \/ RequestLocks(q) \/ RequestBusy(q) \/ RequestMarks(q)

RequestNext ==
    \E q \in Requests :
        RequestStep(q) \/ \E c \in Conversations : RequestDeletion(q, c)

UploadStep(u) == UploadChecks(u) \/ UploadRefused(u) \/ UploadWrites(u)

UploadNext ==
    \E u \in Uploads : UploadStep(u) \/ \E c \in Conversations : UploadLocks(u, c)

CleanerStep(k) ==
    \/ ListExpired(k) \/ EndBatch(k) \/ CleanerBusy(k)
    \/ \E c \in Conversations : NextOfBatch(k, c)
    \/ CleanerProceeds(k) \/ CleanerSkips(k) \/ SaveTombstone(k) \/ DropCheckpoint(k)
    \/ DropRecall(k) \/ SealFiles(k) \/ DropFiles(k) \/ DropRow(k)

CleanerNext ==
    \E k \in Cleaners :
        \/ CleanerStep(k) \/ CleanerLocks(k) \/ ListPending(k) \/ CleanerFails(k)
        \/ \E c \in Conversations : TakeTask(k, c)

Next ==
    \/ DirectoryNext
    \/ \E r \in Runs : RunStep(r) \/ RunWork(r)
    \/ JobNext \/ RequestNext \/ UploadNext \/ CleanerNext
    \/ \E p \in Processes : CrashProcess(p)

Spec == Init /\ [][Next]_vars

-----------------------------------------------------------------------------
(* Fairness.  An admitted coroutine keeps being scheduled, a consumer keeps *)
(* taking what Celery beat sends, and a lock that is free again and again   *)
(* is obtained in the end.  Nothing obliges a model stream or a background  *)
(* job to end, a user to act, or a process to crash.                        *)
Fairness ==
    /\ \A r \in Runs : WF_vars(RunStep(r))
    /\ \A q \in Requests : WF_vars(RequestStep(q))
    /\ \A u \in Uploads : WF_vars(UploadStep(u))
    /\ \A k \in Cleaners :
        /\ WF_vars(CleanerStep(k)) /\ WF_vars(ListPending(k)) /\ SF_vars(CleanerLocks(k))

FairSpec == Spec /\ Fairness

-----------------------------------------------------------------------------
(* Properties.                                                             *)

TypeOK ==
    /\ row \in [Conversations -> {"absent", "draft", "formal", "gone"}]
    /\ deleting \subseteq Conversations /\ stale \subseteq Conversations
    /\ tombstone \subseteq Conversations /\ filesTombstone \subseteq Conversations
    /\ held \subseteq Conversations \X Stores
    /\ jobs \subseteq Processes \X Conversations
    /\ lock \in [Conversations -> Actors \cup {None}]
    /\ pc \in [Actors -> Phases]
    /\ target \in [Actors -> Conversations \cup {None}]
    /\ registry \in [Processes -> [Conversations -> Runs \cup {None}]]
    /\ cancelled \subseteq Runs
    /\ awaits \in [Requests -> Runs \cup {None}]
    /\ mode \in [Cleaners -> {"task", "pending", "expired"}]
    /\ batch \in [Cleaners -> SUBSET Conversations]
    /\ queue \subseteq Conversations
    /\ failures \in 0 .. MaxFailures /\ crashes \in 0 .. MaxCrashes

(* The lifecycle lock and the program counters agree: whoever is inside an *)
(* "async with lock" block of a conversation is its only holder, and no    *)
(* failure, cancellation or crash leaves a lock behind without a holder    *)
(* (postgres_advisory_locks.py, advisory_lock).                            *)
LockMatchesPhases ==
    /\ \A a \in Actors : pc[a] \in Holding => target[a] \in Conversations /\ lock[target[a]] = a
    /\ \A c \in Conversations : lock[c] # None => pc[lock[c]] \in Holding /\ target[lock[c]] = c

(* When the directory row is gone, no store still has data of the          *)
(* conversation, and none ever will have again (lifecycle.py,              *)
(* delete_conversation_resources: the row goes last).                      *)
NoOrphans == \A c \in Conversations : row[c] = "gone" => \A s \in Stores : <<c, s>> \notin held

(* Every Run whose task is alive is the one the registry of its process    *)
(* finds, so that stop, subscribe and a second start meet it: a late done  *)
(* callback of an earlier Run must not unregister it (runs.py, _finish).   *)
LiveRunsAreRegistered ==
    \A r \in Runs : pc[r] \in Live => registry[Home[r]][target[r]] = r

(* From the end of prepare() until the lock is released the conversation   *)
(* of a Run is a formal one that nobody marks or deletes, in any process.  *)
ExecutingRunsOwnTheirRow ==
    \A r \in Runs :
        pc[r] \in Executing => row[target[r]] = "formal" /\ target[r] \notin deleting

(* Once a store is closed by its tombstone nothing puts data into it, even *)
(* when the deletion stopped half-way and the row is still usable.         *)
SealedStoresStayEmpty ==
    [][\A c \in Conversations :
        /\ c \in tombstone /\ <<c, "checkpoint">> \notin held => <<c, "checkpoint">> \notin held'
        /\ c \in filesTombstone /\ <<c, "files">> \notin held => <<c, "files">> \notin held']_vars

(* A conversation that became formal and was not marked survives: neither  *)
(* a draft cleanup that listed it earlier nor a redelivered or stale task  *)
(* deletes it (lifecycle.py, the checks after the lock is taken).          *)
UnmarkedFormalSurvives ==
    [][\A c \in Conversations :
        row[c] = "formal" /\ c \notin deleting => row'[c] = "formal"]_vars

(* A draft-only request that saw a draft, then waited for a Run, does not  *)
(* mark the conversation that Run made formal.                             *)
DraftRequestSparesFormal ==
    [][\A q \in DraftRequests :
        pc[q] = "marking" /\ row[target[q]] = "formal" =>
            (target[q] \in deleting' => target[q] \in deleting)]_vars

(* A marked conversation is deleted in the end, whatever was lost on the   *)
(* way (the task message, retries, a batch), unless a background job of    *)
(* the conversation keeps the sandbox busy for ever.                       *)
MarkedIsDeleted ==
    \A c \in Conversations :
        []<>(~Idle(c)) \/ [](c \in deleting => <>(row[c] = "gone"))

(* A Run whose task was cancelled ends and frees the lock, whichever phase *)
(* the cancellation met.                                                   *)
CancelledRunEnds == \A r \in Runs : (r \in cancelled) ~> (pc[r] = "ended")

(* Seen as a deletion of things in several stores: the conversation's      *)
(* tombstone closes the checkpoint thread and, because only an admitted    *)
(* turn records recalls, the recall records; the sandbox's key closes the  *)
(* files.                                                                  *)
SealedPairs ==
    (tombstone \X {"checkpoint", "recall"}) \cup (filesTombstone \X {"files"})

Life == [c \in Conversations |->
            IF row[c] = "absent" THEN "none" ELSE IF row[c] = "gone" THEN "gone" ELSE "live"]

Promise == INSTANCE SealedStores
               WITH Things <- Conversations, life <- Life, sealed <- SealedPairs

(* Deletion keeps the order it promises: close, then empty, then forget.   *)
DeletionIsOrderly == Promise!Spec

(* The inductive invariant behind the safety properties.                   *)

PhasesByKind ==
    /\ \A r \in Runs : pc[r] \in {"idle", "ended"} \cup RunPhases
    /\ \A q \in Requests : pc[q] \in {"idle", "ended", "stopping", "waiting", "marking"}
    /\ \A u \in Uploads : pc[u] \in {"idle", "ended", "checking", "writing"}
    /\ \A k \in Cleaners : pc[k] \in {"idle"} \cup CleanPhases

BusyActorsHaveTargets ==
    \A a \in Actors : pc[a] \notin {"idle", "ended", "batch"} => target[a] \in Conversations

(* A Run past the tombstone check works on an unsealed conversation.       *)
RunsWorkUnsealed ==
    \A r \in Runs : pc[r] \in {"building", "streaming", "unwinding"} => ~Sealed(target[r])

WorkNeedsRow ==
    /\ \A c \in deleting : Exists(c)
    /\ \A c \in Conversations : <<c, "checkpoint">> \in held => row[c] = "formal"
    /\ \A u \in Uploads : pc[u] = "writing" => Exists(target[u])
    /\ \A j \in jobs : Exists(j[2]) /\ SandboxOpen(j[2])

(* How far a Cleaner is tells what is already closed and empty.            *)
FromDropRow == {"dropRow"}
FromDropFiles == {"dropFiles"} \cup FromDropRow
FromSealFiles == {"sealFiles"} \cup FromDropFiles
FromDropRecall == {"dropRecall"} \cup FromSealFiles
FromDropCheckpoint == {"dropCheckpoint"} \cup FromDropRecall
FromSealing == {"sealing"} \cup FromDropCheckpoint

CleanersProgress ==
    \A k \in Cleaners :
        /\ pc[k] \in FromSealing => Exists(target[k])
        /\ pc[k] \in FromDropCheckpoint => target[k] \in tombstone
        /\ pc[k] \in FromDropRecall => <<target[k], "checkpoint">> \notin held
        /\ pc[k] \in FromSealFiles => <<target[k], "recall">> \notin held
        /\ pc[k] \in FromDropFiles => target[k] \in filesTombstone
        /\ pc[k] \in FromDropRow => <<target[k], "files">> \notin held

GoneIsSealed ==
    \A c \in Conversations : row[c] = "gone" => c \in tombstone \cap filesTombstone

(* Whatever asks for a deletion without looking at the mark saw it before. *)
Doomed == {c \in Conversations : c \in deleting \/ row[c] = "gone"}

DeletionsAreFounded ==
    /\ queue \subseteq Doomed
    /\ \A k \in Cleaners :
        /\ pc[k] = "batch" => mode[k] # "task"
        /\ mode[k] = "pending" => batch[k] \subseteq Doomed
        /\ pc[k] \notin {"idle", "batch"} /\ mode[k] # "expired" => target[k] \in Doomed
        /\ pc[k] \in FromSealing /\ mode[k] = "expired" => row[target[k]] = "draft"

IInv ==
    /\ TypeOK /\ PhasesByKind /\ BusyActorsHaveTargets
    /\ LockMatchesPhases /\ LiveRunsAreRegistered
    /\ ExecutingRunsOwnTheirRow /\ RunsWorkUnsealed /\ WorkNeedsRow
    /\ CleanersProgress /\ GoneIsSealed /\ NoOrphans /\ DeletionsAreFounded

(* A statement the code does not keep: docs/06 says that the deletion flow *)
(* recovers by the directory's mark, so that a formal conversation whose   *)
(* deletion has begun is a marked one.                                     *)
BegunDeletionIsMarked ==
    \A c \in Conversations : c \in tombstone /\ row[c] = "formal" => c \in deleting

=============================================================================
