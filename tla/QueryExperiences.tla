-------------------------- MODULE QueryExperiences --------------------------
(***************************************************************************)
(* Query experiences: SQL templates learned from successful queries.  The  *)
(* truth is a PostgreSQL row with a revision; Elasticsearch holds a search *)
(* document written after the commit by Celery tasks that may be lost,     *)
(* repeated and reordered.  The model follows the rows that one role,      *)
(* authorization fingerprint and SQL structure has in the course of time,  *)
(* and one metadata asset the template depends on.                         *)
(***************************************************************************)
EXTENDS Naturals

CONSTANTS
    Experiences,  \* row identifiers; a removed row's identifier is not reused
    Recorders,    \* queries that succeeded and are being recorded
    Recallers,    \* recalls of experiences for a turn
    Workers,      \* executions of the index synchronisation task
    MaxRevision,  \* bound on the revisions of a row
    MaxMeta,      \* bound on the metadata versions of the asset
    MaxFailures   \* bound on failed synchronisations

Actors == Recorders \cup Recallers \cup Workers

ASSUME BoundAssumption ==
    MaxRevision \in Nat /\ MaxMeta \in Nat \ {0} /\ MaxFailures \in Nat
ASSUME DisjointAssumption ==
    Recorders \cap Recallers = {} /\ Recorders \cap Workers = {} /\ Recallers \cap Workers = {}

VARIABLES
    status,     \* of a row: see Statuses
    revision,   \* of a row: 0 while it is absent
    indexed,    \* indexed_revision of a row
    assets,     \* metadata version the row's asset snapshot carries
    meta,       \* current metadata version of the asset
    announced,  \* FALSE while a published change is not yet handled
    document,   \* revision whose text is searchable, 0 for no document
    version,    \* version Elasticsearch remembers for the document's id
    queue,      \* <<experience, revision>> messages at the broker
    pc,         \* phase of each actor
    seen,       \* metadata version a recorder or a recall has read
    task,       \* message a worker works on
    snapshot,   \* <<status, revision>> a worker has read
    found,      \* candidates of a recall, then <<experience, version>> kept
    outdated,   \* experiences a recall is about to disable
    dead,       \* messages a recall will send for rows it met disabled
    failures

rowVars == <<status, revision, indexed, assets>>
metaVars == <<meta, announced>>
indexVars == <<document, version>>
workVars == <<task, snapshot>>
recallVars == <<found, outdated, dead>>
vars == <<rowVars, metaVars, indexVars, queue, pc, seen, workVars, recallVars, failures>>

Statuses == {"absent", "active", "admin", "changed", "deleting", "removed"}
Present == {e \in Experiences : status[e] \notin {"absent", "removed"}}
Revisions == 0 .. MaxRevision
NoTask == <<>>
Phases == {"idle", "versions", "conflict",
           "found", "versioned", "decided", "answered",
           "reading", "writing", "marking"}

Init ==
    /\ status = [e \in Experiences |-> "absent"]
    /\ revision = [e \in Experiences |-> 0]
    /\ indexed = [e \in Experiences |-> 0]
    /\ assets = [e \in Experiences |-> 0]
    /\ meta = 1 /\ announced = TRUE
    /\ document = [e \in Experiences |-> 0]
    /\ version = [e \in Experiences |-> 0]
    /\ queue = {}
    /\ pc = [a \in Actors |-> "idle"]
    /\ seen = [a \in Recorders \cup Recallers |-> 0]
    /\ task = [w \in Workers |-> NoTask]
    /\ snapshot = [w \in Workers |-> NoTask]
    /\ found = [a \in Recallers |-> {}]
    /\ outdated = [a \in Recallers |-> {}]
    /\ dead = [a \in Recallers |-> {}]
    /\ failures = 0

Advance(a, from, to) == pc[a] = from /\ pc' = [pc EXCEPT ![a] = to]

(* The commit is done; submitting the task may fail, which is only logged. *)
Enqueue(messages) == \E sent \in SUBSET messages : queue' = queue \cup sent

(* The rows E get the status s and a new revision.                         *)
Bump(E, s) ==
    /\ \A e \in E : revision[e] < MaxRevision
    /\ status' = [e \in Experiences |-> IF e \in E THEN s ELSE status[e]]
    /\ revision' = [e \in Experiences |-> IF e \in E THEN revision[e] + 1 ELSE revision[e]]

-----------------------------------------------------------------------------
(* Recording a successful query.                                           *)

(* The asset versions are read before the recording transaction begins.    *)
RecordReads(q) ==
    /\ Advance(q, "idle", "versions")
    /\ seen' = [seen EXCEPT ![q] = meta]
    /\ UNCHANGED <<rowVars, metaVars, indexVars, queue, workVars, recallVars, failures>>

RecordInserts(q, e) ==
    /\ Advance(q, "versions", "idle")
    /\ Present = {} /\ status[e] = "absent"
    /\ Bump({e}, "active")
    /\ assets' = [assets EXCEPT ![e] = seen[q]]
    /\ Enqueue({<<e, revision'[e]>>})
    /\ UNCHANGED <<indexed, metaVars, indexVars, seen, workVars, recallVars, failures>>

(* INSERT ... ON CONFLICT DO NOTHING returned no row.                      *)
RecordConflicts(q) ==
    /\ Advance(q, "versions", "conflict")
    /\ Present # {}
    /\ UNCHANGED <<rowVars, metaVars, indexVars, queue, seen, workVars, recallVars, failures>>

(* refresh_from_success re-activates what a metadata change disabled.      *)
Reactivated(s) == IF s = "changed" THEN "active" ELSE s

(* Mutant: the status is set before the row turns out to be being deleted. *)
RecordRefreshesTooEarly(q, e) ==
    /\ Advance(q, "conflict", "idle")
    /\ e \in Present
    /\ IF status[e] = "deleting"
       THEN status' = [status EXCEPT ![e] = "active"] /\ UNCHANGED <<revision, assets>>
       ELSE Bump({e}, Reactivated(status[e])) /\ assets' = [assets EXCEPT ![e] = seen[q]]
    /\ Enqueue({<<e, revision'[e]>>})
    /\ UNCHANGED <<indexed, metaVars, indexVars, seen, workVars, recallVars, failures>>

(* A row that is being deleted stays as it is; its message is sent anyway. *)
RecordRefreshes(q, e) ==
    /\ Advance(q, "conflict", "idle")
    /\ e \in Present
    /\ IF status[e] = "deleting"
       THEN UNCHANGED <<status, revision, assets>>
       ELSE Bump({e}, Reactivated(status[e])) /\ assets' = [assets EXCEPT ![e] = seen[q]]
    /\ Enqueue({<<e, revision'[e]>>})
    /\ UNCHANGED <<indexed, metaVars, indexVars, seen, workVars, recallVars, failures>>

(* The conflicting row vanished before it could be locked: the recording   *)
(* transaction fails, which is only logged.                                *)
RecordIsLost(q) ==
    /\ Advance(q, "conflict", "idle")
    /\ Present = {}
    /\ UNCHANGED <<rowVars, metaVars, indexVars, queue, seen, workVars, recallVars, failures>>

-----------------------------------------------------------------------------
(* Administration and metadata changes.                                    *)

DisableManually(e) ==
    /\ status[e] \in {"active", "changed"}
    /\ Bump({e}, "admin")
    /\ Enqueue({<<e, revision'[e]>>})
    /\ UNCHANGED <<indexed, assets, metaVars, indexVars, pc, seen, workVars, recallVars, failures>>

RequestDeletion(e) ==
    /\ status[e] \in {"active", "admin", "changed"}
    /\ Bump({e}, "deleting")
    /\ Enqueue({<<e, revision'[e]>>})
    /\ UNCHANGED <<indexed, assets, metaVars, indexVars, pc, seen, workVars, recallVars, failures>>

(* The catalog commits a new version of the asset.                         *)
PublishMetadata ==
    /\ announced /\ meta < MaxMeta
    /\ meta' = meta + 1 /\ announced' = FALSE
    /\ UNCHANGED <<rowVars, indexVars, queue, pc, seen, workVars, recallVars, failures>>

(* Then the workflow disables what refers to the asset, at any version.    *)
InvalidateAssets ==
    LET active == {e \in Experiences : status[e] = "active"} IN
    /\ ~announced /\ announced' = TRUE
    /\ Bump(active, "changed")
    /\ Enqueue({<<e, revision'[e]>> : e \in active})
    /\ UNCHANGED <<indexed, assets, meta, indexVars, pc, seen, workVars, recallVars, failures>>

(* The transaction fails or the process dies before it.                    *)
InvalidationIsLost ==
    /\ ~announced /\ announced' = TRUE
    /\ UNCHANGED <<rowVars, meta, indexVars, queue, pc, seen, workVars, recallVars, failures>>

-----------------------------------------------------------------------------
(* Recall.  Role and authorization filters select the rows of this model;  *)
(* ranking and the final asset permission check only drop results.         *)

RecallSearches(a) ==
    /\ pc[a] \in {"idle", "answered"} /\ pc' = [pc EXCEPT ![a] = "found"]
    /\ found' = [found EXCEPT ![a] = {e \in Experiences : document[e] # 0}]
    /\ outdated' = [outdated EXCEPT ![a] = {}]
    /\ dead' = [dead EXCEPT ![a] = {}]
    /\ UNCHANGED <<rowVars, metaVars, indexVars, queue, seen, workVars, failures>>

RecallReadsVersions(a) ==
    /\ Advance(a, "found", "versioned")
    /\ seen' = [seen EXCEPT ![a] = meta]
    /\ UNCHANGED <<rowVars, metaVars, indexVars, queue, workVars, recallVars, failures>>

(* The rows are read again in the transaction that will disable.           *)
RecallReadsRows(a) ==
    LET rows == found[a] \cap Present
        active == {e \in rows : status[e] = "active"} IN
    /\ Advance(a, "versioned", "decided")
    /\ found' = [found EXCEPT ![a] = {<<e, assets[e]>> : e \in active}]
    /\ outdated' = [outdated EXCEPT ![a] = {e \in active : assets[e] # seen[a]}]
    /\ dead' = [dead EXCEPT ![a] = {<<e, revision[e]>> : e \in rows \ active}]
    /\ UNCHANGED <<rowVars, metaVars, indexVars, queue, seen, workVars, failures>>

(* UPDATE ... WHERE status = 'active' RETURNING id: only the rows this     *)
(* recall disabled itself are left out of its answer.                      *)
RecallAnswers(a) ==
    LET disabled == {e \in outdated[a] : status[e] = "active"} IN
    /\ Advance(a, "decided", "answered")
    /\ Bump(disabled, "changed")
    /\ found' = [found EXCEPT ![a] = {x \in @ : x[1] \notin disabled}]
    /\ Enqueue(dead[a] \cup {<<e, revision'[e]>> : e \in disabled})
    /\ UNCHANGED <<indexed, assets, metaVars, indexVars, seen, workVars, outdated, dead,
                   failures>>

-----------------------------------------------------------------------------
(* Synchronising the index.                                                *)

(* acks_late: the message stays at the broker while a worker has it.       *)
TakeTask(w, m) ==
    /\ m \in queue
    /\ Advance(w, "idle", "reading")
    /\ task' = [task EXCEPT ![w] = m]
    /\ UNCHANGED <<rowVars, metaVars, indexVars, queue, seen, snapshot, recallVars, failures>>

LayDown(w) ==
    /\ task' = [task EXCEPT ![w] = NoTask]
    /\ snapshot' = [snapshot EXCEPT ![w] = NoTask]

Acknowledge(w) == queue' = queue \ {task[w]} /\ LayDown(w)

(* A missing row is deleted from the index under the requested revision.   *)
SyncReads(w) ==
    LET e == task[w][1] IN
    /\ Advance(w, "reading", "writing")
    /\ e \in Present => indexed[e] < revision[e]
    /\ snapshot' = [snapshot EXCEPT ![w] =
            IF e \in Present THEN <<status[e], revision[e]>> ELSE <<"removed", task[w][2]>>]
    /\ UNCHANGED <<rowVars, metaVars, indexVars, queue, seen, task, recallVars, failures>>

SyncHasNothingToDo(w) ==
    LET e == task[w][1] IN
    /\ Advance(w, "reading", "idle")
    /\ e \in Present /\ indexed[e] >= revision[e]
    /\ Acknowledge(w)
    /\ UNCHANGED <<rowVars, metaVars, indexVars, seen, recallVars, failures>>

(* Mutant: documents are written without an external version.              *)
AcceptsAny(e, r) == TRUE

(* version_type = external_gte; a conflict is ignored.                     *)
Accepts(e, r) == r >= version[e]

(* Mutant: a row that is being deleted keeps its document.                 *)
UnsearchableUnlessDeleting(s) == s # "active" /\ s # "deleting"

Unsearchable(s) == s # "active"

SyncWrites(w) ==
    LET e == task[w][1] s == snapshot[w][1] r == snapshot[w][2] IN
    /\ pc[w] = "writing"
    /\ IF Accepts(e, r)
       THEN /\ document' = [document EXCEPT ![e] = IF Unsearchable(s) THEN 0 ELSE r]
            /\ version' = [version EXCEPT ![e] = r]
       ELSE UNCHANGED indexVars
    /\ IF s = "removed"
       THEN pc' = [pc EXCEPT ![w] = "idle"] /\ Acknowledge(w)
       ELSE pc' = [pc EXCEPT ![w] = "marking"] /\ UNCHANGED <<queue, workVars>>
    /\ UNCHANGED <<rowVars, metaVars, seen, recallVars, failures>>

(* Mutant: indexed_revision is set to whatever the revision is by now.     *)
SyncMarksAny(w) ==
    LET e == task[w][1] IN
    /\ Advance(w, "marking", "idle")
    /\ snapshot[w][1] # "deleting"
    /\ indexed' = [indexed EXCEPT ![e] = IF e \in Present THEN revision[e] ELSE @]
    /\ Acknowledge(w)
    /\ UNCHANGED <<status, revision, assets, metaVars, indexVars, seen, recallVars, failures>>

(* Mutant: the revision after the one that was written is marked.          *)
SyncMarksNext(w) ==
    LET e == task[w][1] r == snapshot[w][2] IN
    /\ Advance(w, "marking", "idle")
    /\ snapshot[w][1] # "deleting"
    /\ indexed' = [indexed EXCEPT ![e] = IF e \in Present /\ revision[e] = r THEN r + 1 ELSE @]
    /\ Acknowledge(w)
    /\ UNCHANGED <<status, revision, assets, metaVars, indexVars, seen, recallVars, failures>>

(* mark_indexes_synced, WHERE revision = the one that was written.         *)
SyncMarks(w) ==
    LET e == task[w][1] r == snapshot[w][2] IN
    /\ Advance(w, "marking", "idle")
    /\ snapshot[w][1] # "deleting"
    /\ indexed' = [indexed EXCEPT ![e] = IF e \in Present /\ revision[e] = r THEN r ELSE @]
    /\ Acknowledge(w)
    /\ UNCHANGED <<status, revision, assets, metaVars, indexVars, seen, recallVars, failures>>

(* finalize_deletion, WHERE revision and status are still the same.        *)
SyncRemoves(w) ==
    LET e == task[w][1] r == snapshot[w][2] IN
    /\ Advance(w, "marking", "idle")
    /\ snapshot[w][1] = "deleting"
    /\ status' = IF revision[e] = r /\ status[e] = "deleting"
                 THEN [status EXCEPT ![e] = "removed"] ELSE status
    /\ Acknowledge(w)
    /\ UNCHANGED <<revision, indexed, assets, metaVars, indexVars, seen, recallVars, failures>>

(* A step raises or the worker dies: the task is delivered again, or given *)
(* up once its retries are used.                                           *)
SyncFails(w) ==
    /\ failures < MaxFailures /\ failures' = failures + 1
    /\ pc[w] \in {"reading", "writing", "marking"} /\ pc' = [pc EXCEPT ![w] = "idle"]
    /\ queue' \in {queue, queue \ {task[w]}} /\ LayDown(w)
    /\ UNCHANGED <<rowVars, metaVars, indexVars, seen, recallVars>>

(* Mutant: the scan looks at active rows only.                             *)
BehindAndActive == {e \in Experiences : status[e] = "active" /\ indexed[e] < revision[e]}

PendingRepairs == {e \in Present : indexed[e] < revision[e]}

(* The periodic scan; a batch that cannot be submitted is tried next time. *)
RepairIndexes ==
    /\ PendingRepairs # {}
    /\ queue' = queue \cup {<<e, revision[e]>> : e \in PendingRepairs}
    /\ UNCHANGED <<rowVars, metaVars, indexVars, pc, seen, workVars, recallVars, failures>>

(* Elasticsearch forgets the version of a deleted document after a while   *)
(* (index.gc_deletes).  Assumed: a write is not under way for that long.   *)
ForgetVersion(e) ==
    /\ document[e] = 0 /\ version[e] # 0
    /\ \A w \in Workers : ~(pc[w] = "writing" /\ task[w][1] = e)
    /\ version' = [version EXCEPT ![e] = 0]
    /\ UNCHANGED <<rowVars, metaVars, document, queue, pc, seen, workVars, recallVars, failures>>

RecorderNext(q) ==
    \/ RecordReads(q) \/ RecordConflicts(q) \/ RecordIsLost(q)
    \/ \E e \in Experiences : RecordInserts(q, e) \/ RecordRefreshes(q, e)

RecallerNext(a) ==
    RecallSearches(a) \/ RecallReadsVersions(a) \/ RecallReadsRows(a) \/ RecallAnswers(a)

SyncStep(w) ==
    SyncReads(w) \/ SyncHasNothingToDo(w) \/ SyncWrites(w) \/ SyncMarks(w) \/ SyncRemoves(w)

WorkerNext(w) == SyncStep(w) \/ SyncFails(w) \/ \E m \in queue : TakeTask(w, m)

MetadataNext == PublishMetadata \/ InvalidateAssets \/ InvalidationIsLost

Next ==
    \/ \E q \in Recorders : RecorderNext(q)
    \/ \E a \in Recallers : RecallerNext(a)
    \/ \E w \in Workers : WorkerNext(w)
    \/ \E e \in Experiences : DisableManually(e) \/ RequestDeletion(e) \/ ForgetVersion(e)
    \/ MetadataNext \/ RepairIndexes

Spec == Init /\ [][Next]_vars

(* Celery beat keeps scanning, and the consumers keep taking every message *)
(* and working it off.                                                     *)
Fairness ==
    /\ WF_vars(RepairIndexes)
    /\ \A w \in Workers : WF_vars(SyncStep(w))
    /\ \A m \in Experiences \X Revisions : SF_vars(\E w \in Workers : TakeTask(w, m))

FairSpec == Spec /\ Fairness

-----------------------------------------------------------------------------
(* Properties.                                                             *)

TypeOK ==
    /\ status \in [Experiences -> Statuses]
    /\ revision \in [Experiences -> Revisions]
    /\ indexed \in [Experiences -> Revisions]
    /\ assets \in [Experiences -> 0 .. MaxMeta]
    /\ meta \in 1 .. MaxMeta /\ announced \in BOOLEAN
    /\ document \in [Experiences -> Revisions] /\ version \in [Experiences -> Revisions]
    /\ queue \subseteq Experiences \X Revisions
    /\ pc \in [Actors -> Phases]
    /\ seen \in [Recorders \cup Recallers -> 0 .. MaxMeta]
    /\ task \in [Workers -> (Experiences \X Revisions) \cup {NoTask}]
    /\ snapshot \in [Workers -> (Statuses \X Revisions) \cup {NoTask}]
    /\ DOMAIN found = Recallers
    /\ outdated \in [Recallers -> SUBSET Experiences]
    /\ dead \in [Recallers -> SUBSET (Experiences \X Revisions)]
    /\ failures \in 0 .. MaxFailures

(* A row whose indexed_revision has caught up is never repaired again, so  *)
(* its document must be right for good: searchable exactly when the row is *)
(* active, with that revision's text (indexer.py, sync).                   *)
SyncedMeansProjected ==
    \A e \in Present :
        indexed[e] = revision[e] =>
            document[e] = IF status[e] = "active" THEN revision[e] ELSE 0

(* Nothing scans for documents of removed rows: when a row goes its        *)
(* document is gone, and no late task brings it back.                      *)
RemovedMeansUnsearchable == \A e \in Experiences : status[e] = "removed" => document[e] = 0

(* docs/05, 3.5: an old task does not overwrite a newer state, whatever    *)
(* the order in which the tasks of two revisions reach Elasticsearch.      *)
OldTasksOverwriteNothing ==
    [][\A e \in Experiences :
        document'[e] \notin {0, document[e]} => e \in Present /\ document'[e] > indexed[e]]_vars

(* What an administrator disabled stays out of use however often the same  *)
(* query succeeds or its metadata changes, until it is deleted.            *)
AdminDecisionStands ==
    [][\A e \in Experiences :
        /\ status[e] = "admin" => status'[e] \in {"admin", "deleting"}
        /\ status[e] = "deleting" => status'[e] \in {"deleting", "removed"}]_vars

(* Every committed change reaches the index, and a row whose deletion was  *)
(* requested is removed, though messages and tasks are lost.               *)
Settled(e) ==
    \/ status[e] = "removed"
    \/ e \in Present /\ status[e] # "deleting" /\ indexed[e] = revision[e]

IndexCatchesUp == \A e \in Experiences : (e \in Present) ~> Settled(e)

(* docs/05, 3.6: a recall answers only with experiences whose metadata     *)
(* version is the current one, as read during the recall.                  *)
RecallsAreFresh ==
    \A a \in Recallers : pc[a] = "answered" => \A x \in found[a] : x[2] = seen[a]

(* The inductive invariant.                                                *)

(* The document shows what a row of this status and revision asks for.     *)
Shows(e, s, r) == document[e] = IF Unsearchable(s) THEN 0 ELSE r

(* A write that is under way for a row the worker has seen.                *)
Writing(w, e) == pc[w] = "writing" /\ task[w][1] = e /\ snapshot[w][1] # "removed"

(* No write under way can undo the document of revision r: an older one is *)
(* refused, one of the same revision writes the same again.                *)
Covers(e, r) ==
    \A w \in Workers :
        Writing(w, e) /\ snapshot[w][2] <= r =>
            \/ version[e] > snapshot[w][2]
            \/ snapshot[w][2] = r /\ Shows(e, snapshot[w][1], r)

Known(m) == status[m[1]] # "absent" /\ m[2] <= revision[m[1]]

MessagesAreOld ==
    /\ \A m \in queue : Known(m)
    /\ \A a \in Recallers : \A m \in dead[a] : Known(m)

(* A snapshot is an earlier state of the row, or the present one.          *)
SnapshotIsOld(w) ==
    LET e == task[w][1] s == snapshot[w][1] r == snapshot[w][2] IN
    /\ r <= revision[e]
    /\ s = "removed" => status[e] = "removed"
    /\ s # "removed" => r > 0
    /\ s # "removed" /\ r = revision[e] =>
         status[e] = s \/ (s = "deleting" /\ status[e] = "removed")

Holds(w) == pc[w] \in {"writing", "marking"}

WorkersKnow ==
    \A w \in Workers :
        /\ pc[w] \in {"idle", "reading", "writing", "marking"}
        /\ pc[w] # "idle" => task[w] # NoTask /\ Known(task[w])
        /\ Holds(w) => snapshot[w] # NoTask /\ SnapshotIsOld(w)
        /\ pc[w] = "marking" => snapshot[w][1] # "removed"

(* One revision of a row has one status.                                   *)
SnapshotsAgree ==
    \A v, w \in Workers :
        /\ Holds(v) /\ Holds(w) /\ task[v][1] = task[w][1]
        /\ snapshot[v][1] # "removed" /\ snapshot[w][1] # "removed"
        /\ snapshot[v][2] = snapshot[w][2]
        => snapshot[v][1] = snapshot[w][1]

RevisionsBound == \A e \in Experiences : indexed[e] <= revision[e] /\ version[e] <= revision[e]

IndexedIsCovered == \A e \in Experiences : Covers(e, indexed[e])

WrittenIsCovered ==
    \A w \in Workers :
        LET e == task[w][1] s == snapshot[w][1] r == snapshot[w][2] IN
        pc[w] = "marking" => Covers(e, r) /\ (r = revision[e] => Shows(e, s, r))

RemovedIsCovered ==
    \A e \in Experiences : status[e] = "removed" => Covers(e, revision[e])

IInv ==
    /\ TypeOK /\ MessagesAreOld /\ WorkersKnow /\ SnapshotsAgree /\ RevisionsBound
    /\ IndexedIsCovered /\ WrittenIsCovered /\ RemovedIsCovered
    /\ SyncedMeansProjected /\ RemovedMeansUnsearchable

=============================================================================
