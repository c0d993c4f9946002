----------------------- MODULE QueryExperiencesProofs -----------------------
(***************************************************************************)
(* Proofs about QueryExperiences, for any number of rows, recorders,       *)
(* recalls and workers.  The argument is about writes under way: Covers    *)
(* says that none of them can still undo what was written, and a row is    *)
(* marked as synchronised, or removed, only when it is covered.            *)
(***************************************************************************)
EXTENDS QueryExperiences, TLAPS

USE DEF rowVars, metaVars, indexVars, workVars, recallVars, Advance, NoTask

LEMMA RevisionsAreNaturals == Revisions \subseteq Nat /\ 0 .. MaxMeta \subseteq Nat
BY BoundAssumption DEF Revisions

LEMMA TypeInit == Init => TypeOK
BY BoundAssumption DEF Init, TypeOK, Revisions, Statuses, Phases, Actors

LEMMA BumpTypes ==
    ASSUME TypeOK, NEW E, NEW s \in Statuses, Bump(E, s)
    PROVE  status' \in [Experiences -> Statuses] /\ revision' \in [Experiences -> Revisions]
BY BoundAssumption DEF TypeOK, Bump, Revisions

LEMMA TypeNext == TypeOK /\ WorkersKnow /\ Next => TypeOK'
<1> SUFFICES ASSUME TypeOK, WorkersKnow, Next PROVE TypeOK'
    OBVIOUS
<1> USE BoundAssumption
<1>1. ASSUME NEW q \in Recorders, RecorderNext(q) PROVE TypeOK'
  <2>1. CASE RecordReads(q)
    BY <2>1 DEF TypeOK, RecordReads, Phases, Actors
  <2>2. CASE RecordConflicts(q)
    BY <2>2 DEF TypeOK, RecordConflicts, Phases, Actors
  <2>3. CASE RecordIsLost(q)
    BY <2>3 DEF TypeOK, RecordIsLost, Phases, Actors
  <2>4. ASSUME NEW e \in Experiences, RecordInserts(q, e) PROVE TypeOK'
    <3>1. status' \in [Experiences -> Statuses] /\ revision' \in [Experiences -> Revisions]
      BY <2>4, BumpTypes DEF RecordInserts, Statuses
    <3>2. queue' \subseteq Experiences \X Revisions
      <4>1. Enqueue({<<e, revision'[e]>>})
        BY <2>4 DEF RecordInserts
      <4> QED BY <3>1, <4>1 DEF Enqueue, TypeOK
    <3>3. assets' \in [Experiences -> 0 .. MaxMeta]
      BY <2>4 DEF RecordInserts, TypeOK
    <3> QED BY <2>4, <3>1, <3>2, <3>3 DEF TypeOK, RecordInserts, Phases, Actors
  <2>5. ASSUME NEW e \in Experiences, RecordRefreshes(q, e) PROVE TypeOK'
    <3>1. status' \in [Experiences -> Statuses] /\ revision' \in [Experiences -> Revisions]
      <4>1. Reactivated(status[e]) \in Statuses
        BY DEF TypeOK, Reactivated, Statuses
      <4> QED BY <2>5, <4>1, BumpTypes DEF RecordRefreshes, TypeOK
    <3>2. queue' \subseteq Experiences \X Revisions
      BY <2>5, <3>1 DEF RecordRefreshes, Enqueue, TypeOK
    <3>3. assets' \in [Experiences -> 0 .. MaxMeta]
      BY <2>5 DEF RecordRefreshes, TypeOK
    <3> QED BY <2>5, <3>1, <3>2, <3>3 DEF TypeOK, RecordRefreshes, Phases, Actors
  <2> QED BY <1>1, <2>1, <2>2, <2>3, <2>4, <2>5 DEF RecorderNext
<1>2. ASSUME NEW a \in Recallers, RecallerNext(a) PROVE TypeOK'
  <2>1. CASE RecallSearches(a)
    BY <2>1 DEF TypeOK, RecallSearches, Phases, Actors
  <2>2. CASE RecallReadsVersions(a)
    BY <2>2 DEF TypeOK, RecallReadsVersions, Phases, Actors
  <2>3. CASE RecallReadsRows(a)
    BY <2>3 DEF TypeOK, RecallReadsRows, Phases, Actors, Present
  <2>4. CASE RecallAnswers(a)
    <3> DEFINE disabled == {e \in outdated[a] : status[e] = "active"}
    <3>1. status' \in [Experiences -> Statuses] /\ revision' \in [Experiences -> Revisions]
      BY <2>4, BumpTypes DEF RecallAnswers, Statuses
    <3>2. queue' \subseteq Experiences \X Revisions
      BY <2>4, <3>1 DEF RecallAnswers, Enqueue, TypeOK
    <3> QED BY <2>4, <3>1, <3>2 DEF TypeOK, RecallAnswers, Phases, Actors
  <2> QED BY <1>2, <2>1, <2>2, <2>3, <2>4 DEF RecallerNext
<1>3. ASSUME NEW w \in Workers, WorkerNext(w) PROVE TypeOK'
  <2>0. pc[w] \in {"reading", "writing", "marking"} =>
            task[w] \in Experiences \X Revisions
    BY DEF WorkersKnow, TypeOK
  <2>1. CASE SyncReads(w)
    BY <2>0, <2>1 DEF TypeOK, SyncReads, Phases, Actors, Statuses, Present
  <2>2. CASE SyncHasNothingToDo(w)
    BY <2>2 DEF TypeOK, SyncHasNothingToDo, Acknowledge, LayDown, Phases, Actors
  <2>3. CASE SyncWrites(w)
    <3>1. snapshot[w] \in Statuses \X Revisions
      BY <2>3 DEF WorkersKnow, SyncWrites, Holds, TypeOK
    <3>2. document' \in [Experiences -> Revisions] /\ version' \in [Experiences -> Revisions]
      <4>1. PICK e \in Experiences, r \in Revisions : task[w][1] = e /\ snapshot[w][2] = r
        BY <2>0, <2>3, <3>1 DEF SyncWrites
      <4>2. 0 \in Revisions
        BY DEF Revisions
      <4> QED BY <2>3, <4>1, <4>2 DEF SyncWrites, TypeOK
    <3> QED BY <2>3, <3>2 DEF TypeOK, SyncWrites, Acknowledge, LayDown, Phases, Actors
  <2>4. CASE SyncMarks(w)
    <3>1. snapshot[w] \in Statuses \X Revisions
      BY <2>4 DEF WorkersKnow, SyncMarks, Holds, TypeOK
    <3> QED BY <2>0, <2>4, <3>1 DEF TypeOK, SyncMarks, Acknowledge, LayDown, Phases, Actors
  <2>5. CASE SyncRemoves(w)
    BY <2>0, <2>5 DEF TypeOK, SyncRemoves, Acknowledge, LayDown, Phases, Actors, Statuses
  <2>6. CASE SyncFails(w)
    BY <2>6 DEF TypeOK, SyncFails, LayDown, Phases, Actors
  <2>7. ASSUME NEW m \in queue, TakeTask(w, m) PROVE TypeOK'
    BY <2>7 DEF TypeOK, TakeTask, Phases, Actors
  <2> QED BY <1>3, <2>1, <2>2, <2>3, <2>4, <2>5, <2>6, <2>7 DEF WorkerNext, SyncStep
<1>4. ASSUME NEW e \in Experiences, DisableManually(e) \/ RequestDeletion(e) PROVE TypeOK'
  <2>1. status' \in [Experiences -> Statuses] /\ revision' \in [Experiences -> Revisions]
    BY <1>4, BumpTypes DEF DisableManually, RequestDeletion, Statuses
  <2>2. queue' \subseteq Experiences \X Revisions
    BY <1>4, <2>1 DEF DisableManually, RequestDeletion, Enqueue, TypeOK
  <2> QED BY <1>4, <2>1, <2>2 DEF TypeOK, DisableManually, RequestDeletion
<1>5. ASSUME NEW e \in Experiences, ForgetVersion(e) PROVE TypeOK'
  BY <1>5 DEF TypeOK, ForgetVersion, Revisions
<1>6. CASE PublishMetadata
  <2>1. meta' \in 1 .. MaxMeta /\ announced' \in BOOLEAN
    <3>1. meta \in 1 .. MaxMeta /\ MaxMeta \in Nat /\ meta < MaxMeta
      BY <1>6 DEF TypeOK, PublishMetadata
    <3>2. meta' = meta + 1 /\ announced' = FALSE
      BY <1>6 DEF PublishMetadata
    <3>3. meta + 1 \in 1 .. MaxMeta
      BY ONLY <3>1
    <3> QED BY <3>2, <3>3
  <2> QED BY <1>6, <2>1 DEF TypeOK, PublishMetadata
<1>7. CASE InvalidateAssets
  <2>1. status' \in [Experiences -> Statuses] /\ revision' \in [Experiences -> Revisions]
    BY <1>7, BumpTypes DEF InvalidateAssets, Statuses
  <2>2. queue' \subseteq Experiences \X Revisions
    BY <1>7, <2>1 DEF InvalidateAssets, Enqueue, TypeOK
  <2> QED BY <1>7, <2>1, <2>2 DEF TypeOK, InvalidateAssets
<1>8. CASE InvalidationIsLost
  BY <1>8 DEF TypeOK, InvalidationIsLost
<1>9. CASE RepairIndexes
  BY <1>9 DEF TypeOK, RepairIndexes, PendingRepairs, Present
<1> QED BY <1>1, <1>2, <1>3, <1>4, <1>5, <1>6, <1>7, <1>8, <1>9 DEF Next, MetadataNext

-----------------------------------------------------------------------------
(* Steps that write no document.                                           *)

SameWork == UNCHANGED workVars /\ \A w \in Workers : pc'[w] = pc[w]

LEMMA FrameKeeps ==
    ASSUME IInv, TypeOK', MessagesAreOld', SameWork,
           UNCHANGED <<status, revision, indexed, indexVars>>
    PROVE  IInv'
<1> USE DEF IInv, SameWork
<1>1. \A e, s, r : Shows(e, s, r)' <=> Shows(e, s, r)
  BY DEF Shows
<1>2. \A w \in Workers : \A e : Writing(w, e)' <=> Writing(w, e)
  BY DEF Writing
<1>3. \A e, r : Covers(e, r)' <=> Covers(e, r)
  BY <1>1, <1>2 DEF Covers
<1>4. WorkersKnow'
  BY DEF WorkersKnow, Known, Holds, SnapshotIsOld
<1>5. SnapshotsAgree'
  BY DEF SnapshotsAgree, Holds
<1>6. RevisionsBound' /\ IndexedIsCovered'
  BY <1>3 DEF RevisionsBound, IndexedIsCovered
<1>7. WrittenIsCovered' /\ RemovedIsCovered'
  BY <1>1, <1>3 DEF WrittenIsCovered, RemovedIsCovered
<1>8. SyncedMeansProjected' /\ RemovedMeansUnsearchable'
  BY DEF SyncedMeansProjected, RemovedMeansUnsearchable, Present
<1> QED BY <1>4, <1>5, <1>6, <1>7, <1>8

LEMMA BumpKeeps ==
    ASSUME IInv, TypeOK', MessagesAreOld', SameWork,
           NEW E \in SUBSET Experiences, \A e \in E : status[e] # "removed",
           NEW s \in {"active", "admin", "changed", "deleting"}, Bump(E, s),
           UNCHANGED <<indexed, indexVars>>
    PROVE  IInv'
<1> USE DEF IInv, SameWork
<1>0. \A e \in Experiences : revision[e] \in Nat /\ indexed[e] \in Nat /\ version[e] \in Nat
  BY RevisionsAreNaturals DEF TypeOK
<1>1. \A e, t, r : Shows(e, t, r)' <=> Shows(e, t, r)
  BY DEF Shows
<1>2. \A w \in Workers : \A e : Writing(w, e)' <=> Writing(w, e)
  BY DEF Writing
<1>3. \A e, r : Covers(e, r)' <=> Covers(e, r)
  BY <1>1, <1>2 DEF Covers
<1>4. /\ \A e \in E : status'[e] = s /\ revision'[e] = revision[e] + 1
      /\ \A e \in Experiences \ E : status'[e] = status[e] /\ revision'[e] = revision[e]
  BY DEF Bump
<1>5. \A w \in Workers : pc[w] # "idle" => task[w] \in Experiences \X Revisions
  BY DEF WorkersKnow, TypeOK
<1>6. \A w \in Workers : Holds(w) => snapshot[w] \in Statuses \X Revisions
  BY DEF WorkersKnow, TypeOK
<1>7. WorkersKnow'
  <2> SUFFICES ASSUME NEW w \in Workers, pc[w] # "idle"
               PROVE  Known(task[w])' /\ (Holds(w) => SnapshotIsOld(w)')
    BY DEF WorkersKnow, Holds
  <2>1. PICK e \in Experiences, r \in Nat : task[w][1] = e /\ task[w][2] = r
    BY <1>5, RevisionsAreNaturals
  <2>2. Known(task[w])'
    BY <1>0, <1>4, <2>1 DEF WorkersKnow, Known
  <2>3. ASSUME Holds(w) PROVE SnapshotIsOld(w)'
    <3>1. PICK t \in Statuses, q \in Nat : snapshot[w][1] = t /\ snapshot[w][2] = q
      BY <1>6, <2>3, RevisionsAreNaturals
    <3>2. SnapshotIsOld(w)
      BY <2>3 DEF WorkersKnow
    <3> QED BY <1>0, <1>4, <2>1, <3>1, <3>2 DEF SnapshotIsOld
  <2> QED BY <2>2, <2>3
<1>8. SnapshotsAgree'
  BY DEF SnapshotsAgree, Holds
<1>9. RevisionsBound' /\ IndexedIsCovered'
  BY <1>0, <1>3, <1>4 DEF RevisionsBound, IndexedIsCovered
<1>10. WrittenIsCovered'
  <2> SUFFICES ASSUME NEW w \in Workers, pc[w] = "marking"
               PROVE  /\ Covers(task[w][1], snapshot[w][2])'
                      /\ (snapshot[w][2] = revision[task[w][1]])' =>
                            Shows(task[w][1], snapshot[w][1], snapshot[w][2])'
    BY DEF WrittenIsCovered
  <2>1. PICK e \in Experiences : task[w][1] = e
    BY <1>5
  <2>2. PICK q \in Nat : snapshot[w][2] = q
    BY <1>6, RevisionsAreNaturals DEF Holds
  <2>3. q <= revision[e] /\ Covers(e, q) /\ (q = revision[e] => Shows(e, snapshot[w][1], q))
    BY <2>1, <2>2 DEF WrittenIsCovered, WorkersKnow, SnapshotIsOld, Holds
  <2> QED BY <1>0, <1>1, <1>3, <1>4, <2>1, <2>2, <2>3
<1>11. RemovedIsCovered' /\ RemovedMeansUnsearchable'
  BY <1>3, <1>4 DEF RemovedIsCovered, RemovedMeansUnsearchable
<1>12. SyncedMeansProjected'
  BY <1>0, <1>4 DEF SyncedMeansProjected, Present, RevisionsBound
<1> QED BY <1>7, <1>8, <1>9, <1>10, <1>11, <1>12

(* A message names a row that exists or existed, and a revision it had.    *)
LEMMA OldMessagesStayOld ==
    ASSUME IInv, TypeOK',
           \A e \in Experiences : revision[e] <= revision'[e]
               /\ (status[e] # "absent" => status'[e] # "absent"),
           NEW m, m \in Experiences \X Revisions, Known(m)
    PROVE  Known(m)'
<1>1. PICK e \in Experiences, r \in Nat : m[1] = e /\ m[2] = r
  BY RevisionsAreNaturals
<1>2. revision[e] \in Nat /\ revision'[e] \in Nat
  BY RevisionsAreNaturals DEF IInv, TypeOK
<1> QED BY <1>1, <1>2 DEF Known

LEMMA BumpGrows ==
    ASSUME IInv, NEW E \in SUBSET Experiences, NEW s \in Statuses \ {"absent"}, Bump(E, s)
    PROVE  /\ \A e \in Experiences : revision[e] <= revision'[e]
                 /\ (status[e] # "absent" => status'[e] # "absent")
           /\ \A e \in E : status'[e] = s /\ revision'[e] \in Nat
<1>1. \A e \in Experiences : revision[e] \in Nat
  BY RevisionsAreNaturals DEF IInv, TypeOK
<1> QED BY <1>1 DEF Bump

LEMMA RowsAreKnown == ASSUME TypeOK PROVE \A e \in Present : Known(<<e, revision[e]>>)
<1> SUFFICES ASSUME NEW e \in Present PROVE Known(<<e, revision[e]>>)
  OBVIOUS
<1>1. revision[e] \in Nat /\ status[e] # "absent"
  BY RevisionsAreNaturals DEF TypeOK, Present
<1>2. revision[e] <= revision[e]
  BY <1>1
<1> QED BY <1>1, <1>2 DEF Known

LEMMA OtherPhases ==
    ASSUME TypeOK, NEW a \in Recorders \cup Recallers, NEW phase,
           pc' = [pc EXCEPT ![a] = phase], UNCHANGED workVars
    PROVE  SameWork
BY DisjointAssumption DEF TypeOK, Actors, SameWork

(* Rows change, then messages about them, or those of a recall, are sent.  *)
LEMMA BumpAndSendKeeps ==
    ASSUME IInv, TypeOK', SameWork,
           NEW E \in SUBSET Experiences, \A e \in E : status[e] # "removed",
           NEW s \in {"active", "admin", "changed", "deleting"}, Bump(E, s),
           UNCHANGED <<indexed, indexVars, dead>>,
           \A m \in queue' : \/ m \in queue
                             \/ \E a \in Recallers : m \in dead[a]
                             \/ \E e \in E : m = <<e, revision'[e]>>
    PROVE  IInv'
<1>1. MessagesAreOld'
  <2> SUFFICES ASSUME NEW m, m \in queue' \/ \E a \in Recallers : m \in dead[a]
               PROVE  Known(m)'
    BY DEF MessagesAreOld
  <2>1. CASE \E e \in E : m = <<e, revision'[e]>>
    BY <2>1, BumpGrows DEF Known, Statuses
  <2>2. CASE ~ \E e \in E : m = <<e, revision'[e]>>
    <3>1. m \in queue \/ \E a \in Recallers : m \in dead[a]
      BY <2>2
    <3>2. m \in Experiences \X Revisions /\ Known(m)
      BY <3>1 DEF IInv, TypeOK, MessagesAreOld
    <3> QED BY <3>2, BumpGrows, OldMessagesStayOld DEF Statuses
  <2> QED BY <2>1, <2>2
<1> QED BY <1>1, BumpKeeps

LEMMA RecorderKeeps == ASSUME IInv, TypeOK', NEW q \in Recorders, RecorderNext(q) PROVE IInv'
<1>0. TypeOK
  BY DEF IInv
<1>1. CASE RecordReads(q) \/ RecordConflicts(q) \/ RecordIsLost(q)
  <2>1. MessagesAreOld'
    BY <1>1 DEF IInv, MessagesAreOld, Known, RecordReads, RecordConflicts, RecordIsLost
  <2>2. SameWork
    BY <1>0, <1>1, OtherPhases DEF RecordReads, RecordConflicts, RecordIsLost
  <2> QED BY <1>1, <2>1, <2>2, FrameKeeps DEF RecordReads, RecordConflicts, RecordIsLost
<1>2. ASSUME NEW e \in Experiences, RecordInserts(q, e) PROVE IInv'
  <2>1. SameWork
    BY <1>0, <1>2, OtherPhases DEF RecordInserts
  <2>2. \A m \in queue' : m \in queue \/ m = <<e, revision'[e]>>
    BY <1>2 DEF RecordInserts, Enqueue
  <2> QED BY <1>2, <2>1, <2>2, BumpAndSendKeeps DEF RecordInserts
<1>3. ASSUME NEW e \in Experiences, RecordRefreshes(q, e) PROVE IInv'
  <2>1. SameWork
    BY <1>0, <1>3, OtherPhases DEF RecordRefreshes
  <2>2. \A m \in queue' : m \in queue \/ m = <<e, revision'[e]>>
    BY <1>3 DEF RecordRefreshes, Enqueue
  <2>3. CASE status[e] # "deleting"
    <3>1. Reactivated(status[e]) \in {"active", "admin"} /\ status[e] # "removed"
      BY <1>0, <1>3, <2>3 DEF RecordRefreshes, Reactivated, Present, TypeOK, Statuses
    <3> QED BY <1>3, <2>1, <2>2, <2>3, <3>1, BumpAndSendKeeps DEF RecordRefreshes
  <2>4. CASE status[e] = "deleting"
    <3>1. revision[e] \in Nat /\ UNCHANGED <<status, revision, dead>>
      BY <1>0, <1>3, <2>4, RevisionsAreNaturals DEF TypeOK, RecordRefreshes
    <3>2. MessagesAreOld'
      BY <2>2, <2>4, <3>1 DEF IInv, MessagesAreOld, Known
    <3> QED BY <1>3, <2>1, <2>4, <3>2, FrameKeeps DEF RecordRefreshes
  <2> QED BY <2>3, <2>4
<1> QED BY <1>1, <1>2, <1>3 DEF RecorderNext

LEMMA RecallerKeeps == ASSUME IInv, TypeOK', NEW a \in Recallers, RecallerNext(a) PROVE IInv'
<1>0. TypeOK
  BY DEF IInv
<1>1. SameWork
  BY <1>0, OtherPhases DEF RecallerNext, RecallSearches, RecallReadsVersions, RecallReadsRows,
        RecallAnswers
<1>2. CASE RecallSearches(a) \/ RecallReadsVersions(a)
  <2>1. MessagesAreOld'
    BY <1>0, <1>2 DEF IInv, MessagesAreOld, Known, RecallSearches, RecallReadsVersions, TypeOK
  <2> QED BY <1>1, <1>2, <2>1, FrameKeeps DEF RecallSearches, RecallReadsVersions
<1>3. CASE RecallReadsRows(a)
  <2>1. \A e \in Present : Known(<<e, revision[e]>>)
    BY <1>0, RowsAreKnown
  <2>2. \A b \in Recallers : \A m \in dead'[b] :
            m \in dead[b] \/ \E e \in Present : m = <<e, revision[e]>>
    BY <1>0, <1>3 DEF RecallReadsRows, TypeOK
  <2>3. MessagesAreOld'
    BY <1>3, <2>1, <2>2 DEF IInv, MessagesAreOld, Known, RecallReadsRows
  <2> QED BY <1>1, <1>3, <2>3, FrameKeeps DEF RecallReadsRows
<1>4. CASE RecallAnswers(a)
  <2> DEFINE disabled == {e \in outdated[a] : status[e] = "active"}
  <2>1. disabled \in SUBSET Experiences /\ \A e \in disabled : status[e] # "removed"
    BY <1>0 DEF TypeOK
  <2>2. Enqueue(dead[a] \cup {<<e, revision'[e]>> : e \in disabled})
    BY <1>4 DEF RecallAnswers
  <2>3. \A m \in queue' : m \in queue \/ m \in dead[a]
                          \/ \E e \in disabled : m = <<e, revision'[e]>>
    BY <2>2 DEF Enqueue
  <2>4. Bump(disabled, "changed") /\ UNCHANGED <<indexed, indexVars, dead>>
    BY <1>4 DEF RecallAnswers
  <2> HIDE DEF disabled
  <2> QED BY <1>1, <2>1, <2>3, <2>4, BumpAndSendKeeps
<1> QED BY <1>2, <1>3, <1>4 DEF RecallerNext

(* Administrators, metadata changes and the repair scan.                   *)
LEMMA ManagementKeeps ==
    ASSUME IInv, TypeOK',
           \/ \E e \in Experiences : DisableManually(e) \/ RequestDeletion(e)
           \/ MetadataNext \/ RepairIndexes
    PROVE  IInv'
<1>0. TypeOK
  BY DEF IInv
<1>1. SameWork
  BY DEF DisableManually, RequestDeletion, MetadataNext, PublishMetadata, InvalidateAssets,
         InvalidationIsLost, RepairIndexes, SameWork
<1>2. ASSUME NEW e \in Experiences, DisableManually(e) \/ RequestDeletion(e) PROVE IInv'
  <2>1. \A m \in queue' : m \in queue \/ m = <<e, revision'[e]>>
    BY <1>2 DEF DisableManually, RequestDeletion, Enqueue
  <2>2. PICK s \in {"admin", "deleting"} : Bump({e}, s)
    BY <1>2 DEF DisableManually, RequestDeletion
  <2>3. status[e] # "removed" /\ UNCHANGED <<indexed, indexVars, dead>>
    BY <1>2 DEF DisableManually, RequestDeletion
  <2> QED BY <1>1, <2>1, <2>2, <2>3, BumpAndSendKeeps
<1>3. CASE InvalidateAssets
  <2> DEFINE active == {e \in Experiences : status[e] = "active"}
  <2>1. Bump(active, "changed") /\ UNCHANGED <<indexed, indexVars, dead>>
    BY <1>3 DEF InvalidateAssets
  <2>2. Enqueue({<<e, revision'[e]>> : e \in active})
    BY <1>3 DEF InvalidateAssets
  <2>3. \A m \in queue' : m \in queue \/ \E e \in active : m = <<e, revision'[e]>>
    BY <2>2 DEF Enqueue
  <2>4. active \in SUBSET Experiences /\ \A e \in active : status[e] # "removed"
    OBVIOUS
  <2> HIDE DEF active
  <2> QED BY <1>1, <2>1, <2>3, <2>4, BumpAndSendKeeps
<1>4. CASE PublishMetadata \/ InvalidationIsLost
  <2>1. MessagesAreOld'
    BY <1>4 DEF IInv, MessagesAreOld, Known, PublishMetadata, InvalidationIsLost
  <2> QED BY <1>1, <1>4, <2>1, FrameKeeps DEF PublishMetadata, InvalidationIsLost
<1>5. CASE RepairIndexes
  <2>1. \A e \in Present : Known(<<e, revision[e]>>)
    BY <1>0, RowsAreKnown
  <2>2. \A m \in queue' : m \in queue \/ \E e \in Present : m = <<e, revision[e]>>
    BY <1>5 DEF RepairIndexes, PendingRepairs
  <2>3. MessagesAreOld'
    BY <1>5, <2>1, <2>2 DEF IInv, MessagesAreOld, Known, RepairIndexes
  <2> QED BY <1>1, <1>5, <2>3, FrameKeeps DEF RepairIndexes
<1> QED BY <1>2, <1>3, <1>4, <1>5 DEF MetadataNext

-----------------------------------------------------------------------------
(* Steps of the synchronisation.                                           *)

OthersSame(w) ==
    \A v \in Workers \ {w} : pc'[v] = pc[v] /\ task'[v] = task[v] /\ snapshot'[v] = snapshot[v]

LEMMA WorkerTypes ==
    ASSUME IInv, NEW w \in Workers
    PROVE  /\ pc[w] # "idle" =>
                task[w] \in Experiences \X Revisions /\ task[w][1] \in Experiences
                /\ task[w][2] \in Nat /\ Known(task[w])
           /\ Holds(w) =>
                snapshot[w] \in Statuses \X Revisions /\ snapshot[w][1] \in Statuses
                /\ snapshot[w][2] \in Nat /\ SnapshotIsOld(w)
<1>1. pc[w] # "idle" => task[w] \in Experiences \X Revisions
  BY DEF IInv, WorkersKnow, TypeOK
<1>2. Holds(w) => snapshot[w] \in Statuses \X Revisions
  BY DEF IInv, WorkersKnow, TypeOK
<1> QED BY <1>1, <1>2, RevisionsAreNaturals DEF IInv, WorkersKnow

LEMMA RowTypes ==
    ASSUME TypeOK, NEW e \in Experiences
    PROVE  /\ status[e] \in Statuses /\ revision[e] \in Nat /\ indexed[e] \in Nat
           /\ document[e] \in Nat /\ version[e] \in Nat
BY RevisionsAreNaturals DEF TypeOK

(* The worker stops holding a snapshot, or has none yet.                   *)
LEMMA LeaveKeeps ==
    ASSUME IInv, TypeOK', MessagesAreOld', NEW w \in Workers, OthersSame(w),
           pc'[w] \in {"idle", "reading"},
           pc'[w] = "reading" => task'[w] # NoTask /\ Known(task[w])',
           UNCHANGED <<status, revision, indexed, indexVars>>
    PROVE  IInv'
<1> USE DEF IInv, OthersSame
<1>1. \A e, s, r : Shows(e, s, r)' <=> Shows(e, s, r)
  BY DEF Shows
<1>2. \A e : ~Writing(w, e)'
  BY DEF Writing
<1>3. \A v \in Workers \ {w} : \A e : Writing(v, e)' <=> Writing(v, e)
  BY DEF Writing
<1>4. \A e, r : Covers(e, r) => Covers(e, r)'
  BY <1>1, <1>2, <1>3 DEF Covers
<1>5. WorkersKnow'
  <2>1. ASSUME NEW v \in Workers \ {w}
        PROVE  (Known(task[v])' <=> Known(task[v])) /\ (SnapshotIsOld(v)' <=> SnapshotIsOld(v))
    BY <2>1 DEF Known, SnapshotIsOld
  <2>2. ~Holds(w)'
    BY DEF Holds
  <2> QED BY <2>1, <2>2 DEF WorkersKnow, Holds
<1>6. SnapshotsAgree'
  BY DEF SnapshotsAgree, Holds
<1>7. RevisionsBound' /\ IndexedIsCovered'
  BY <1>4 DEF RevisionsBound, IndexedIsCovered
<1>8. WrittenIsCovered' /\ RemovedIsCovered'
  BY <1>1, <1>4 DEF WrittenIsCovered, RemovedIsCovered
<1>9. SyncedMeansProjected' /\ RemovedMeansUnsearchable'
  BY DEF SyncedMeansProjected, RemovedMeansUnsearchable, Present
<1> QED BY <1>5, <1>6, <1>7, <1>8, <1>9

LEMMA ReadKeeps == ASSUME IInv, TypeOK', NEW w \in Workers, SyncReads(w) PROVE IInv'
<1> USE DEF IInv
<1> DEFINE e == task[w][1]
<1>0. e \in Experiences /\ Known(task[w]) /\ task[w][2] \in Nat
  BY WorkerTypes DEF SyncReads
<1>1. /\ UNCHANGED <<status, revision, indexed, indexVars, task, queue, dead>>
      /\ pc[w] = "reading" /\ pc'[w] = "writing"
      /\ \A v \in Workers \ {w} : pc'[v] = pc[v] /\ snapshot'[v] = snapshot[v]
      /\ snapshot'[w] = IF e \in Present THEN <<status[e], revision[e]>> ELSE <<"removed", task[w][2]>>
  BY DEF SyncReads, TypeOK, Actors
<1>2. e \in Present => indexed[e] < revision[e]
  BY DEF SyncReads
<1>3. status[e] # "absent" /\ (e \notin Present => status[e] = "removed")
      /\ task[w][2] <= revision[e] /\ (e \in Present => revision[e] > 0)
  BY <1>0, <1>2, RowTypes DEF Known, Present
<1>4. \A x, s, r : Shows(x, s, r)' <=> Shows(x, s, r)
  BY <1>1 DEF Shows
<1>5. \A v \in Workers \ {w} : \A x : Writing(v, x)' <=> Writing(v, x)
  BY <1>1 DEF Writing
<1>6. \A x : Writing(w, x)' => x = e /\ e \in Present /\ snapshot'[w] = <<status[e], revision[e]>>
  BY <1>1 DEF Writing
<1>7. ASSUME NEW x \in Experiences, NEW r \in Nat, Covers(x, r),
             x = e /\ e \in Present /\ revision[e] <= r =>
                version[x] > revision[e] \/ (revision[e] = r /\ Shows(e, status[e], r))
      PROVE  Covers(x, r)'
  BY <1>1, <1>4, <1>5, <1>6, <1>7 DEF Covers
<1>8. MessagesAreOld'
  BY <1>1 DEF MessagesAreOld, Known
<1>9. WorkersKnow'
  <2>1. SnapshotIsOld(w)'
    BY <1>0, <1>1, <1>3, RowTypes DEF SnapshotIsOld, Present
  <2>2. \A v \in Workers \ {w} : SnapshotIsOld(v)' <=> SnapshotIsOld(v)
    BY <1>1 DEF SnapshotIsOld
  <2>3. \A v \in Workers : Known(task[v])' <=> Known(task[v])
    BY <1>1 DEF Known
  <2> QED BY <1>1, <2>1, <2>2, <2>3 DEF WorkersKnow, Holds
<1>10. SnapshotsAgree'
  <2>1. ASSUME NEW v \in Workers \ {w}, Holds(v), task[v][1] = e, snapshot[v][1] # "removed",
               snapshot'[w][1] # "removed", snapshot[v][2] = snapshot'[w][2]
        PROVE  snapshot[v][1] = snapshot'[w][1]
    <3>1. snapshot'[w] = <<status[e], revision[e]>> /\ e \in Present
      BY <1>1, <2>1
    <3> QED BY <2>1, <3>1 DEF WorkersKnow, SnapshotIsOld, Present
  <2> QED BY <1>1, <2>1 DEF SnapshotsAgree, Holds
<1>11. RevisionsBound'
  BY <1>1 DEF RevisionsBound
<1>12. IndexedIsCovered'
  <2> SUFFICES ASSUME NEW x \in Experiences PROVE Covers(x, indexed[x])'
    BY <1>1 DEF IndexedIsCovered
  <2>1. Covers(x, indexed[x])
    BY DEF IndexedIsCovered
  <2>2. Covers(x, indexed[x])'
    BY <1>1, <1>2, <1>7, <2>1, RowTypes
  <2> QED BY <2>2
<1>13. WrittenIsCovered'
  <2> SUFFICES ASSUME NEW v \in Workers \ {w}, pc[v] = "marking"
               PROVE  /\ Covers(task[v][1], snapshot[v][2])'
                      /\ snapshot[v][2] = revision[task[v][1]] =>
                            Shows(task[v][1], snapshot[v][1], snapshot[v][2])'
    BY <1>1 DEF WrittenIsCovered
  <2> DEFINE x == task[v][1] s == snapshot[v][1] r == snapshot[v][2]
  <2>1. x \in Experiences /\ r \in Nat /\ SnapshotIsOld(v) /\ s # "removed"
    BY WorkerTypes DEF Holds, WorkersKnow
  <2>2. Covers(x, r) /\ (r = revision[x] => Shows(x, s, r))
    BY DEF WrittenIsCovered
  <2>3. x = e /\ e \in Present /\ revision[e] <= r => revision[e] = r /\ Shows(e, status[e], r)
    BY <2>1, <2>2, RowTypes DEF SnapshotIsOld, Present
  <2>4. Covers(x, r)'
    <3>1. UNCHANGED <<x, r>>
      BY <1>1
    <3> HIDE DEF x, r
    <3> QED BY <1>7, <2>1, <2>2, <2>3, <3>1
  <2>5. r = revision[x] => Shows(x, s, r)'
    <3>1. UNCHANGED <<x, r, s>>
      BY <1>1
    <3> HIDE DEF x, r, s
    <3> QED BY <1>4, <2>2, <3>1
  <2> QED BY <2>4, <2>5
<1>14. RemovedIsCovered'
  <2> SUFFICES ASSUME NEW x \in Experiences, status[x] = "removed" PROVE Covers(x, revision[x])'
    BY <1>1 DEF RemovedIsCovered
  <2>1. Covers(x, revision[x])
    BY DEF RemovedIsCovered
  <2>2. Covers(x, revision[x])'
    BY <1>1, <1>7, <2>1, RowTypes DEF Present
  <2> QED BY <2>2
<1>15. SyncedMeansProjected' /\ RemovedMeansUnsearchable'
  BY <1>1 DEF SyncedMeansProjected, RemovedMeansUnsearchable, Present
<1> QED BY <1>8, <1>9, <1>10, <1>11, <1>12, <1>13, <1>14, <1>15

(* The heart of the argument: a write keeps every row covered.             *)
LEMMA WriteKeeps == ASSUME IInv, TypeOK', NEW w \in Workers, SyncWrites(w) PROVE IInv'
<1> USE DEF IInv
<1> DEFINE e == task[w][1] s == snapshot[w][1] r == snapshot[w][2]
<1>0. e \in Experiences /\ s \in Statuses /\ r \in Nat /\ SnapshotIsOld(w) /\ Known(task[w])
  BY WorkerTypes DEF SyncWrites, Holds
<1>1. /\ UNCHANGED <<status, revision, indexed, dead>>
      /\ pc[w] = "writing" /\ pc'[w] = IF s = "removed" THEN "idle" ELSE "marking"
      /\ OthersSame(w)
      /\ s # "removed" => UNCHANGED <<task, snapshot>>
  BY DEF SyncWrites, Acknowledge, LayDown, OthersSame, TypeOK, Actors
<1>2. queue' \subseteq queue
  BY DEF SyncWrites, Acknowledge
<1>3. /\ \A x \in Experiences \ {e} : document'[x] = document[x] /\ version'[x] = version[x]
      /\ IF r >= version[e]
         THEN document'[e] = (IF Unsearchable(s) THEN 0 ELSE r) /\ version'[e] = r
         ELSE document'[e] = document[e] /\ version'[e] = version[e]
  BY <1>0 DEF SyncWrites, Accepts, TypeOK
<1>4. r <= revision[e] /\ (s = "removed" => status[e] = "removed")
      /\ (s # "removed" /\ r = revision[e] =>
            status[e] = s \/ (s = "deleting" /\ status[e] = "removed"))
  BY <1>0 DEF SnapshotIsOld
<1>5. MessagesAreOld'
  BY <1>1, <1>2 DEF MessagesAreOld, Known
<1>7. WorkersKnow'
  <2>1. ASSUME NEW v \in Workers \ {w}
        PROVE  (Known(task[v])' <=> Known(task[v])) /\ (SnapshotIsOld(v)' <=> SnapshotIsOld(v))
    BY <1>1, <2>1 DEF Known, SnapshotIsOld, OthersSame
  <2>2. s # "removed" => Known(task[w])' /\ SnapshotIsOld(w)'
    BY <1>0, <1>1 DEF Known, SnapshotIsOld
  <2> QED BY <1>1, <2>1, <2>2 DEF WorkersKnow, Holds, OthersSame
<1>8. SnapshotsAgree'
  BY <1>1 DEF SnapshotsAgree, Holds, OthersSame
<1>9. RevisionsBound'
  BY <1>1, <1>3, <1>4 DEF RevisionsBound
(* A covered revision stays covered, and what it shows stays the same.     *)
<1>10. ASSUME NEW x \in Experiences, NEW q \in Nat, Covers(x, q),
              status[x] = "removed" => document[x] = 0
       PROVE  /\ Covers(x, q)'
              /\ (x = e /\ r >= version[e] /\ r <= q) => document'[e] = document[e]
  <2>1. ASSUME x = e, r >= version[e], r <= q PROVE document'[e] = document[e]
    <3>1. CASE s = "removed"
      BY <1>3, <1>4, <1>10, <2>1, <3>1 DEF Unsearchable
    <3>2. CASE s # "removed"
      <4>1. Writing(w, e)
        BY <1>1, <3>2 DEF Writing
      <4>2. version[e] > r \/ (r = q /\ Shows(e, s, q))
        <5>1. Writing(w, x) /\ snapshot[w][2] <= q
          BY <2>1, <4>1
        <5>2. version[x] > snapshot[w][2] \/ (snapshot[w][2] = q /\ Shows(x, snapshot[w][1], q))
          BY ONLY <1>10, <5>1, w \in Workers DEF Covers
        <5> QED BY <2>1, <5>2
      <4> QED BY <1>0, <1>3, <2>1, <4>2, RowTypes DEF Shows
    <3> QED BY <3>1, <3>2
  <2>2. Covers(x, q)'
    <3> SUFFICES ASSUME NEW v \in Workers, Writing(v, x)', (snapshot[v][2])' <= q
                 PROVE  \/ (version[x] > snapshot[v][2])'
                        \/ ((snapshot[v][2])' = q /\ Shows(x, snapshot[v][1], q)')
      BY DEF Covers
    <3>1. v # w /\ Writing(v, x) /\ UNCHANGED <<snapshot[v], task[v]>>
      BY <1>1 DEF Writing, OthersSame
    <3>2. version[x] > snapshot[v][2] \/ (snapshot[v][2] = q /\ Shows(x, snapshot[v][1], q))
      <4>1. Writing(v, x) /\ snapshot[v][2] <= q
        BY <3>1
      <4> QED BY ONLY <1>10, <4>1, v \in Workers DEF Covers
    <3>3. snapshot[v][2] \in Nat /\ version[x] \in Nat
      BY <3>1, WorkerTypes, RowTypes DEF Holds, Writing
    <3>4. CASE x # e \/ ~(r >= version[e])
      BY <1>3, <3>1, <3>2, <3>4 DEF Shows
    <3>5. CASE x = e /\ r >= version[e] /\ r <= q
      <4>1. version'[x] = r /\ document'[x] = document[x]
        BY <1>3, <2>1, <3>5
      <4> QED BY <1>0, <3>1, <3>2, <3>3, <3>5, <4>1 DEF Shows
    <3>6. CASE x = e /\ r >= version[e] /\ ~(r <= q)
      BY <1>0, <1>3, <3>1, <3>3, <3>6
    <3> QED BY <3>4, <3>5, <3>6
  <2> QED BY <2>1, <2>2
<1>11. \A x \in Experiences : status[x] = "removed" => document[x] = 0
  BY DEF RemovedMeansUnsearchable
<1>12. IndexedIsCovered'
  BY <1>1, <1>10, <1>11, RowTypes DEF IndexedIsCovered
<1>13. RemovedIsCovered'
  BY <1>1, <1>10, <1>11, RowTypes DEF RemovedIsCovered
<1>14. RemovedMeansUnsearchable'
  <2> SUFFICES ASSUME NEW x \in Experiences, status[x] = "removed" PROVE document'[x] = 0
    BY <1>1 DEF RemovedMeansUnsearchable
  <2>1. Covers(x, revision[x]) /\ revision[x] \in Nat /\ document[x] = 0
    BY <1>11, RowTypes DEF RemovedIsCovered
  <2> QED BY <1>3, <1>4, <1>10, <2>1
<1>15. SyncedMeansProjected'
  <2> SUFFICES ASSUME NEW x \in Present, indexed[x] = revision[x]
               PROVE  document'[x] = document[x]
    BY <1>1 DEF SyncedMeansProjected, Present
  <2>1. x \in Experiences /\ Covers(x, revision[x]) /\ revision[x] \in Nat
    BY RowTypes DEF IndexedIsCovered, Present
  <2> QED BY <1>3, <1>4, <1>10, <1>11, <2>1
<1>16. WrittenIsCovered'
  <2>1. ASSUME NEW v \in Workers \ {w}, pc[v] = "marking"
        PROVE  /\ Covers(task[v][1], snapshot[v][2])'
               /\ snapshot[v][2] = revision[task[v][1]] =>
                    Shows(task[v][1], snapshot[v][1], snapshot[v][2])'
    <3> DEFINE x == task[v][1] t == snapshot[v][1] q == snapshot[v][2]
    <3>1. x \in Experiences /\ q \in Nat /\ Covers(x, q) /\ (q = revision[x] => Shows(x, t, q))
      BY <2>1, WorkerTypes DEF Holds, WrittenIsCovered
    <3>2. UNCHANGED <<x, t, q>>
      BY <1>1, <2>1 DEF OthersSame
    <3> HIDE DEF x, t, q
    <3>3. Covers(x, q)'
      BY <1>10, <1>11, <3>1, <3>2
    <3>4. q = revision[x] => document'[x] = document[x]
      BY <1>3, <1>4, <1>10, <1>11, <3>1
    <3>5. q = revision[x] => Shows(x, t, q)'
      BY <3>1, <3>2, <3>4 DEF Shows
    <3> QED BY <3>3, <3>5 DEF x, t, q
  <2>2. ASSUME s # "removed"
        PROVE  Covers(e, r)' /\ (r = revision[e] => Shows(e, s, r)')
    <3>0. UNCHANGED <<e, s, r>>
      BY <1>1, <2>2
    <3>1. ASSUME NEW v \in Workers, Writing(v, e)', (snapshot[v][2])' <= r
          PROVE  \/ (version[e] > snapshot[v][2])'
                 \/ ((snapshot[v][2])' = r /\ Shows(e, snapshot[v][1], r)')
      <4>1. v # w /\ Writing(v, e) /\ UNCHANGED <<snapshot[v], task[v]>>
        BY <1>1, <3>0, <3>1 DEF Writing, OthersSame
      <4>2. snapshot[v][2] \in Nat /\ version[e] \in Nat
        BY <1>0, <4>1, WorkerTypes, RowTypes DEF Holds, Writing
      <4>3. snapshot[v][2] = r => snapshot[v][1] = s
        BY <1>1, <2>2, <4>1 DEF SnapshotsAgree, Writing, Holds
      <4> HIDE DEF e, s, r
      <4> QED BY <1>0, <1>3, <3>0, <3>1, <4>1, <4>2, <4>3 DEF Shows
    <3>2. r = revision[e] => version[e] <= r
      BY <1>0 DEF RevisionsBound
    <3>3. r = revision[e] => Shows(e, s, r)'
      <4> HIDE DEF e, s, r
      <4> QED BY <1>3, <3>0, <3>2, <1>0, RowTypes DEF Shows
    <3>4. Covers(e, r)'
      <4> HIDE DEF e, s, r
      <4> QED BY <3>0, <3>1 DEF Covers
    <3> QED BY <3>3, <3>4
  <2> QED BY <1>1, <2>1, <2>2 DEF WrittenIsCovered, OthersSame
<1> QED BY <1>5, <1>7, <1>8, <1>9, <1>12, <1>13, <1>14, <1>15, <1>16

(* A row is marked only when its revision is covered and shown.            *)
LEMMA MarkKeeps == ASSUME IInv, TypeOK', NEW w \in Workers, SyncMarks(w) PROVE IInv'
<1> USE DEF IInv
<1> DEFINE e == task[w][1] r == snapshot[w][2]
<1>0. e \in Experiences /\ r \in Nat /\ SnapshotIsOld(w) /\ Holds(w)
  BY WorkerTypes DEF SyncMarks, Holds
<1>1. /\ UNCHANGED <<status, revision, document, version, dead>>
      /\ pc[w] = "marking" /\ pc'[w] = "idle" /\ queue' \subseteq queue
      /\ OthersSame(w)
  BY DEF SyncMarks, Acknowledge, LayDown, OthersSame, TypeOK, Actors
<1>2. /\ \A x \in Experiences \ {e} : indexed'[x] = indexed[x]
      /\ indexed'[e] = IF e \in Present /\ revision[e] = r THEN r ELSE indexed[e]
  BY <1>0 DEF SyncMarks, TypeOK
<1>3. Covers(e, r) /\ (r = revision[e] => Shows(e, snapshot[w][1], r))
  BY <1>1 DEF WrittenIsCovered
<1>4. \A v \in Workers \ {w} : \A x : Writing(v, x)' <=> Writing(v, x)
  BY <1>1 DEF Writing, OthersSame
<1>5. ASSUME NEW x, NEW q PROVE Covers(x, q) => Covers(x, q)'
  <2>1. ~Writing(w, x)'
    BY <1>1 DEF Writing
  <2> QED BY <1>1, <1>4, <2>1 DEF Covers, Shows, OthersSame
<1>6. MessagesAreOld'
  BY <1>1 DEF MessagesAreOld, Known
<1>7. WorkersKnow'
  <2>1. ASSUME NEW v \in Workers \ {w}
        PROVE  (Known(task[v])' <=> Known(task[v])) /\ (SnapshotIsOld(v)' <=> SnapshotIsOld(v))
    BY <1>1, <2>1 DEF Known, SnapshotIsOld, OthersSame
  <2> QED BY <1>1, <2>1 DEF WorkersKnow, Holds, OthersSame
<1>8. SnapshotsAgree'
  BY <1>1 DEF SnapshotsAgree, Holds, OthersSame
<1>9. RevisionsBound' /\ IndexedIsCovered'
  <2> HIDE DEF e, r
  <2> QED BY <1>0, <1>1, <1>2, <1>3, <1>5, RowTypes DEF RevisionsBound, IndexedIsCovered
<1>10. WrittenIsCovered'
  <2> SUFFICES ASSUME NEW v \in Workers \ {w}, pc[v] = "marking"
               PROVE  /\ Covers(task[v][1], snapshot[v][2])'
                      /\ snapshot[v][2] = revision[task[v][1]] =>
                            Shows(task[v][1], snapshot[v][1], snapshot[v][2])'
    BY <1>1 DEF WrittenIsCovered, OthersSame
  <2> DEFINE x == task[v][1] t == snapshot[v][1] q == snapshot[v][2]
  <2>1. Covers(x, q) /\ (q = revision[x] => Shows(x, t, q))
    BY DEF WrittenIsCovered
  <2>2. UNCHANGED <<x, t, q>>
    BY <1>1 DEF OthersSame
  <2> HIDE DEF x, t, q
  <2>3. Covers(x, q)' /\ (q = revision[x] => Shows(x, t, q)')
    BY <1>1, <1>5, <2>1, <2>2 DEF Shows
  <2> QED BY <2>3 DEF x, t, q
<1>11. RemovedIsCovered' /\ RemovedMeansUnsearchable'
  BY <1>1, <1>5 DEF RemovedIsCovered, RemovedMeansUnsearchable
<1>12. SyncedMeansProjected'
  <2>1. ASSUME e \in Present, revision[e] = r
        PROVE  document[e] = IF status[e] = "active" THEN revision[e] ELSE 0
    <3>1. snapshot[w][1] # "removed"
      BY <1>0, <2>1 DEF SnapshotIsOld, Present
    <3>2. snapshot[w][1] = status[e] /\ Shows(e, status[e], r)
      BY <1>0, <1>3, <2>1, <3>1 DEF SnapshotIsOld, Present
    <3> QED BY <2>1, <3>2 DEF Shows, Unsearchable
  <2> HIDE DEF e, r
  <2> QED BY <1>1, <1>2, <2>1 DEF SyncedMeansProjected, Present
<1> QED BY <1>6, <1>7, <1>8, <1>9, <1>10, <1>11, <1>12

(* A row is removed only when no write under way can bring it back.        *)
LEMMA RemoveKeeps == ASSUME IInv, TypeOK', NEW w \in Workers, SyncRemoves(w) PROVE IInv'
<1> USE DEF IInv
<1> DEFINE e == task[w][1] r == snapshot[w][2]
<1>0. e \in Experiences /\ r \in Nat /\ SnapshotIsOld(w) /\ Holds(w) /\ Known(task[w])
  BY WorkerTypes DEF SyncRemoves, Holds
<1>1. /\ UNCHANGED <<revision, indexed, document, version, dead>>
      /\ pc[w] = "marking" /\ pc'[w] = "idle" /\ queue' \subseteq queue
      /\ OthersSame(w) /\ snapshot[w][1] = "deleting"
  BY DEF SyncRemoves, Acknowledge, LayDown, OthersSame, TypeOK, Actors
<1>2. /\ \A x \in Experiences \ {e} : status'[x] = status[x]
      /\ status'[e] = IF revision[e] = r /\ status[e] = "deleting" THEN "removed" ELSE status[e]
  BY <1>0 DEF SyncRemoves, TypeOK
<1>3. Covers(e, r) /\ (r = revision[e] => document[e] = 0)
  BY <1>1 DEF WrittenIsCovered, Shows, Unsearchable
<1>4. \A v \in Workers \ {w} : \A x : Writing(v, x)' <=> Writing(v, x)
  BY <1>1 DEF Writing, OthersSame
<1>5. ASSUME NEW x, NEW q PROVE Covers(x, q) => Covers(x, q)'
  <2>1. ~Writing(w, x)'
    BY <1>1 DEF Writing
  <2> QED BY <1>1, <1>4, <2>1 DEF Covers, Shows, OthersSame
<1>6. /\ \A x \in Experiences : status[x] # "absent" <=> status'[x] # "absent"
      /\ \A x \in Experiences : status[x] = "removed" => status'[x] = "removed"
      /\ \A x \in Experiences : status'[x] = status[x]
            \/ (x = e /\ revision[e] = r /\ status[e] = "deleting" /\ status'[e] = "removed")
  <2> HIDE DEF e, r
  <2> QED BY <1>2
<1>7. MessagesAreOld'
  BY <1>1, <1>6 DEF MessagesAreOld, Known, TypeOK
<1>8. WorkersKnow'
  <2> SUFFICES ASSUME NEW v \in Workers \ {w}, pc[v] # "idle"
               PROVE  Known(task[v])' /\ (Holds(v) => SnapshotIsOld(v)')
    BY <1>1 DEF WorkersKnow, Holds, OthersSame
  <2>1. UNCHANGED <<task[v], snapshot[v]>> /\ task[v][1] \in Experiences
    BY <1>1, WorkerTypes DEF OthersSame
  <2>2. Known(task[v])'
    BY <1>1, <1>6, <2>1 DEF WorkersKnow, Known
  <2>3. ASSUME Holds(v) PROVE SnapshotIsOld(v)'
    <3>1. SnapshotIsOld(v)
      BY <2>3, WorkerTypes
    <3> QED BY <1>1, <1>6, <2>1, <3>1 DEF SnapshotIsOld
  <2> QED BY <2>2, <2>3
<1>9. SnapshotsAgree'
  BY <1>1 DEF SnapshotsAgree, Holds, OthersSame
<1>10. RevisionsBound' /\ IndexedIsCovered'
  BY <1>1, <1>5 DEF RevisionsBound, IndexedIsCovered
<1>11. WrittenIsCovered'
  <2> SUFFICES ASSUME NEW v \in Workers \ {w}, pc[v] = "marking"
               PROVE  /\ Covers(task[v][1], snapshot[v][2])'
                      /\ snapshot[v][2] = revision[task[v][1]] =>
                            Shows(task[v][1], snapshot[v][1], snapshot[v][2])'
    BY <1>1 DEF WrittenIsCovered, OthersSame
  <2> DEFINE x == task[v][1] t == snapshot[v][1] q == snapshot[v][2]
  <2>1. Covers(x, q) /\ (q = revision[x] => Shows(x, t, q))
    BY DEF WrittenIsCovered
  <2>2. UNCHANGED <<x, t, q>>
    BY <1>1 DEF OthersSame
  <2> HIDE DEF x, t, q
  <2>3. Covers(x, q)' /\ (q = revision[x] => Shows(x, t, q)')
    BY <1>1, <1>5, <2>1, <2>2 DEF Shows
  <2> QED BY <2>3 DEF x, t, q
<1>12. RemovedIsCovered' /\ RemovedMeansUnsearchable'
  <2> HIDE DEF e, r
  <2> QED BY <1>1, <1>3, <1>5, <1>6 DEF RemovedIsCovered, RemovedMeansUnsearchable
<1>13. SyncedMeansProjected'
  <2> HIDE DEF e, r
  <2> QED BY <1>1, <1>6 DEF SyncedMeansProjected, Present
<1> QED BY <1>7, <1>8, <1>9, <1>10, <1>11, <1>12, <1>13

(* A forgotten version covers nothing any more, but nobody writes then.    *)
LEMMA ForgetKeeps == ASSUME IInv, TypeOK', NEW e \in Experiences, ForgetVersion(e) PROVE IInv'
<1> USE DEF IInv
<1>1. /\ UNCHANGED <<status, revision, indexed, document, queue, dead, pc, task, snapshot>>
      /\ \A x \in Experiences \ {e} : version'[x] = version[x]
      /\ version'[e] = 0
  BY DEF ForgetVersion, TypeOK
<1>2. \A w \in Workers : \A x : Writing(w, x)' <=> Writing(w, x) /\ x # e
  BY <1>1 DEF Writing, ForgetVersion
<1>3. \A x, s, r : Shows(x, s, r)' <=> Shows(x, s, r)
  BY <1>1 DEF Shows
<1>4. ASSUME NEW x \in Experiences, NEW q PROVE Covers(x, q) => Covers(x, q)'
  BY <1>1, <1>2, <1>3 DEF Covers
<1>5. MessagesAreOld' /\ WorkersKnow' /\ SnapshotsAgree'
  BY <1>1 DEF MessagesAreOld, Known, WorkersKnow, SnapshotIsOld, SnapshotsAgree, Holds
<1>6. RevisionsBound'
  BY <1>1, RowTypes DEF RevisionsBound
<1>7. IndexedIsCovered' /\ RemovedIsCovered'
  BY <1>1, <1>4 DEF IndexedIsCovered, RemovedIsCovered
<1>8. WrittenIsCovered'
  <2> SUFFICES ASSUME NEW v \in Workers, pc[v] = "marking"
               PROVE  /\ Covers(task[v][1], snapshot[v][2])'
                      /\ snapshot[v][2] = revision[task[v][1]] =>
                            Shows(task[v][1], snapshot[v][1], snapshot[v][2])'
    BY <1>1 DEF WrittenIsCovered
  <2> DEFINE x == task[v][1] t == snapshot[v][1] q == snapshot[v][2]
  <2>1. Covers(x, q) /\ (q = revision[x] => Shows(x, t, q))
    BY DEF WrittenIsCovered
  <2>2. UNCHANGED <<x, t, q>> /\ x \in Experiences
    BY <1>1, WorkerTypes
  <2> HIDE DEF x, t, q
  <2>3. Covers(x, q)' /\ (q = revision[x] => Shows(x, t, q)')
    BY <1>1, <1>3, <1>4, <2>1, <2>2
  <2> QED BY <2>3 DEF x, t, q
<1>9. SyncedMeansProjected' /\ RemovedMeansUnsearchable'
  BY <1>1 DEF SyncedMeansProjected, RemovedMeansUnsearchable, Present
<1> QED BY <1>5, <1>6, <1>7, <1>8, <1>9

LEMMA WorkerKeeps == ASSUME IInv, TypeOK', NEW w \in Workers, WorkerNext(w) PROVE IInv'
<1>1. CASE SyncReads(w) \/ SyncWrites(w) \/ SyncMarks(w) \/ SyncRemoves(w)
  BY <1>1, ReadKeeps, WriteKeeps, MarkKeeps, RemoveKeeps
<1>2. CASE SyncHasNothingToDo(w) \/ SyncFails(w)
  <2>1. OthersSame(w) /\ pc'[w] = "idle"
    BY <1>2 DEF SyncHasNothingToDo, SyncFails, Acknowledge, LayDown, OthersSame, IInv, TypeOK, Actors
  <2>2. MessagesAreOld'
    BY <1>2 DEF SyncHasNothingToDo, SyncFails, Acknowledge, IInv, MessagesAreOld, Known
  <2> QED BY <1>2, <2>1, <2>2, LeaveKeeps DEF SyncHasNothingToDo, SyncFails
<1>3. ASSUME NEW m \in queue, TakeTask(w, m) PROVE IInv'
  <2>1. OthersSame(w) /\ pc'[w] = "reading" /\ task'[w] = m
    BY <1>3 DEF TakeTask, OthersSame, IInv, TypeOK, Actors
  <2>2. MessagesAreOld'
    BY <1>3 DEF TakeTask, IInv, MessagesAreOld, Known
  <2>3. task'[w] # NoTask /\ Known(task[w])'
    <3>1. Known(m) /\ m \in Experiences \X Revisions
      BY DEF IInv, MessagesAreOld, TypeOK
    <3>2. m # NoTask
      <4>1. PICK e \in Experiences, r \in Revisions : m = <<e, r>>
        BY <3>1
      <4> QED BY <4>1
    <3>3. task'[w] = m /\ UNCHANGED <<status, revision>>
      BY <1>3, <2>1 DEF TakeTask
    <3> QED BY <3>1, <3>2, <3>3 DEF Known
  <2> QED BY <1>3, <2>1, <2>2, <2>3, LeaveKeeps DEF TakeTask
<1> QED BY <1>1, <1>2, <1>3 DEF WorkerNext, SyncStep

-----------------------------------------------------------------------------
(* The theorems.                                                           *)

LEMMA InitKeeps == Init => IInv
<1> SUFFICES ASSUME Init PROVE IInv
  OBVIOUS
<1>1. TypeOK
  BY TypeInit
<1>2. \A w \in Workers : pc[w] = "idle"
  BY DEF Init, Actors
<1>3. MessagesAreOld /\ WorkersKnow /\ SnapshotsAgree
  BY <1>2 DEF Init, MessagesAreOld, WorkersKnow, SnapshotsAgree, Holds
<1>4. RevisionsBound /\ SyncedMeansProjected /\ RemovedMeansUnsearchable
  BY DEF Init, RevisionsBound, SyncedMeansProjected, RemovedMeansUnsearchable, Present
<1>5. IndexedIsCovered /\ WrittenIsCovered /\ RemovedIsCovered
  BY <1>2 DEF IndexedIsCovered, WrittenIsCovered, RemovedIsCovered, Covers, Writing
<1> QED BY <1>1, <1>3, <1>4, <1>5 DEF IInv

LEMMA StepKeeps == IInv /\ [Next]_vars => IInv'
<1> SUFFICES ASSUME IInv, [Next]_vars PROVE IInv'
  OBVIOUS
<1>1. CASE Next
  <2>1. TypeOK'
    BY <1>1, TypeNext DEF IInv
  <2> QED BY <1>1, <2>1, RecorderKeeps, RecallerKeeps, WorkerKeeps, ManagementKeeps, ForgetKeeps
          DEF Next
<1>2. CASE UNCHANGED vars
  <2>1. TypeOK'
    BY <1>2 DEF vars, IInv, TypeOK
  <2>2. MessagesAreOld' /\ SameWork
    BY <1>2 DEF vars, IInv, MessagesAreOld, Known, SameWork
  <2> QED BY <1>2, <2>1, <2>2, FrameKeeps DEF vars
<1> QED BY <1>1, <1>2

(* The variables stay in their types, and the strengthened invariant about *)
(* writes under way holds, for any number of rows, recorders, recalls and  *)
(* workers.                                                                *)
THEOREM Inductive == Spec => []IInv
<1>1. Init => IInv
  BY InitKeeps
<1>2. IInv /\ [Next]_vars => IInv'
  BY StepKeeps
<1> QED BY <1>1, <1>2, PTL DEF Spec

THEOREM TypeCorrect == Spec => []TypeOK
<1>1. IInv => TypeOK
  BY DEF IInv
<1> QED BY <1>1, Inductive, PTL

(* A row that counts as synchronised is searchable exactly when it is      *)
(* active, with the text of its revision.                                  *)
THEOREM Projected == Spec => []SyncedMeansProjected
<1>1. IInv => SyncedMeansProjected
  BY DEF IInv
<1> QED BY <1>1, Inductive, PTL

(* A removed row never has a document again, whatever tasks are still out. *)
THEOREM Unreachable == Spec => []RemovedMeansUnsearchable
<1>1. IInv => RemovedMeansUnsearchable
  BY DEF IInv
<1> QED BY <1>1, Inductive, PTL

(* A task of an old revision overwrites nothing newer.                     *)
THEOREM NothingOverwritten == Spec => OldTasksOverwriteNothing
<1>1. ASSUME IInv, [Next]_vars, NEW e \in Experiences, document'[e] \notin {0, document[e]}
      PROVE  e \in Present /\ document'[e] > indexed[e]
  <2>1. PICK w \in Workers : SyncWrites(w)
    <3>1. document' # document
      BY <1>1
    <3>2. ~ (\E q \in Recorders : RecorderNext(q))
      BY <3>1 DEF RecorderNext, RecordReads, RecordConflicts, RecordIsLost, RecordInserts,
                  RecordRefreshes
    <3>3. ~ (\E a \in Recallers : RecallerNext(a))
      BY <3>1 DEF RecallerNext, RecallSearches, RecallReadsVersions, RecallReadsRows, RecallAnswers
    <3>4. ~ (MetadataNext \/ RepairIndexes)
      BY <3>1 DEF MetadataNext, PublishMetadata, InvalidateAssets, InvalidationIsLost, RepairIndexes
    <3>5. ~ \E x \in Experiences : DisableManually(x) \/ RequestDeletion(x) \/ ForgetVersion(x)
      BY <3>1 DEF DisableManually, RequestDeletion, ForgetVersion
    <3>6. \A w \in Workers : WorkerNext(w) => SyncWrites(w)
      BY <3>1 DEF WorkerNext, SyncStep, SyncReads, SyncHasNothingToDo, SyncMarks, SyncRemoves,
                  SyncFails, TakeTask
    <3>7. Next
      BY <1>1, <3>1 DEF vars
    <3> QED BY <3>2, <3>3, <3>4, <3>5, <3>6, <3>7 DEF Next
  <2> DEFINE s == snapshot[w][1] r == snapshot[w][2]
  <2>2. e = task[w][1] /\ r >= version[e] /\ document'[e] = r /\ s = "active" /\ r # document[e]
    <3>1. document \in [Experiences -> Revisions]
      BY <1>1 DEF IInv, TypeOK
    <3> QED BY <1>1, <2>1, <3>1 DEF SyncWrites, Accepts, Unsearchable
  <2>3. /\ r \in Nat /\ SnapshotIsOld(w) /\ Writing(w, e)
        /\ indexed[e] \in Nat /\ version[e] \in Nat /\ revision[e] \in Nat
    BY <1>1, <2>1, <2>2, WorkerTypes, RowTypes DEF SyncWrites, Holds, Writing, IInv
  <2>4. ASSUME NEW q \in Nat, Covers(e, q), r <= q PROVE FALSE
    <3>1. version[e] > r \/ (r = q /\ Shows(e, s, q))
      BY ONLY <2>3, <2>4, w \in Workers DEF Covers
    <3> HIDE DEF r, s
    <3> QED BY <2>2, <2>3, <3>1 DEF Shows, Unsearchable
  <2>5. ~(r <= indexed[e])
    BY <1>1, <2>3, <2>4 DEF IInv, IndexedIsCovered
  <2>6. status[e] # "removed"
    <3>1. r <= revision[e]
      BY <2>2, <2>3 DEF SnapshotIsOld
    <3>2. status[e] = "removed" => Covers(e, revision[e])
      BY <1>1 DEF IInv, RemovedIsCovered
    <3> QED BY <2>3, <2>4, <3>1, <3>2
  <2>7. status[e] # "absent"
    BY <1>1, <2>1, <2>2 DEF IInv, WorkersKnow, Known, SyncWrites
  <2> QED BY <2>2, <2>3, <2>5, <2>6, <2>7 DEF Present
<1>2. IInv /\ [Next]_vars =>
        [\A e \in Experiences :
            document'[e] \notin {0, document[e]} => e \in Present /\ document'[e] > indexed[e]]_vars
  BY <1>1
<1> QED BY <1>2, Inductive, PTL DEF Spec, OldTasksOverwriteNothing

(* What an administrator decided about a row is undone by no success, no   *)
(* recall and no metadata change.                                          *)
THEOREM AdminDecides == Spec => AdminDecisionStands
<1> DEFINE Stands(e) ==
        /\ status[e] = "admin" => status'[e] \in {"admin", "deleting"}
        /\ status[e] = "deleting" => status'[e] \in {"deleting", "removed"}
<1>1. ASSUME IInv, [Next]_vars, NEW e \in Experiences PROVE Stands(e)
  <2>0. UNCHANGED status => Stands(e)
    OBVIOUS
  <2>1. ASSUME NEW q \in Recorders, RecorderNext(q) PROVE Stands(e)
    <3>1. ASSUME NEW x \in Experiences, RecordInserts(q, x) \/ RecordRefreshes(q, x)
          PROVE  Stands(e)
      BY <3>1 DEF RecordInserts, RecordRefreshes, Bump, Reactivated
    <3> QED BY <2>0, <2>1, <3>1 DEF RecorderNext, RecordReads, RecordConflicts, RecordIsLost
  <2>2. ASSUME NEW a \in Recallers, RecallerNext(a) PROVE Stands(e)
    <3>1. CASE RecallAnswers(a)
      BY <3>1 DEF RecallAnswers, Bump
    <3> QED BY <2>0, <2>2, <3>1
         DEF RecallerNext, RecallSearches, RecallReadsVersions, RecallReadsRows
  <2>3. ASSUME NEW w \in Workers, WorkerNext(w) PROVE Stands(e)
    <3>1. CASE SyncRemoves(w)
      <4>1. status \in [Experiences -> Statuses] /\ task[w][1] \in Experiences
        BY <1>1, <3>1, WorkerTypes DEF SyncRemoves, IInv, TypeOK
      <4> QED BY <3>1, <4>1 DEF SyncRemoves
    <3> QED BY <2>0, <2>3, <3>1 DEF WorkerNext, SyncStep, SyncReads, SyncHasNothingToDo,
                  SyncWrites, SyncMarks, SyncFails, TakeTask
  <2>4. ASSUME NEW x \in Experiences, DisableManually(x) \/ RequestDeletion(x) \/ ForgetVersion(x)
        PROVE  Stands(e)
    BY <2>4 DEF DisableManually, RequestDeletion, ForgetVersion, Bump
  <2>5. CASE MetadataNext \/ RepairIndexes
    <3>1. CASE InvalidateAssets
      BY <3>1 DEF InvalidateAssets, Bump
    <3> QED BY <2>0, <2>5, <3>1
         DEF MetadataNext, PublishMetadata, InvalidationIsLost, RepairIndexes
  <2>6. CASE UNCHANGED vars
    BY <2>0, <2>6 DEF vars
  <2> QED BY <1>1, <2>1, <2>2, <2>3, <2>4, <2>5, <2>6 DEF Next
<1>2. IInv /\ [Next]_vars => [\A e \in Experiences : Stands(e)]_vars
  BY <1>1
<1> QED BY <1>2, Inductive, PTL DEF Spec, AdminDecisionStands

-----------------------------------------------------------------------------
(* What brings the index up to date.                                       *)

(* What a step does to one row.                                            *)
RowStays(e) == status'[e] = status[e] /\ revision'[e] = revision[e] /\ indexed'[e] = indexed[e]

RowIsChanged(e) == revision'[e] = revision[e] + 1 /\ indexed'[e] = indexed[e]

RowIsMarked(e) ==
    /\ e \in Present /\ status[e] # "deleting"
    /\ indexed'[e] = revision[e] /\ status'[e] = status[e] /\ revision'[e] = revision[e]

RowIsRemoved(e) ==
    /\ status[e] = "deleting" /\ status'[e] = "removed"
    /\ indexed'[e] = indexed[e] /\ revision'[e] = revision[e]

(* A row whose deletion was requested never counts as synchronised.        *)
DeletingIsPending == \A e \in Experiences : status[e] = "deleting" => indexed[e] < revision[e]

(* Nothing is overlooked by the periodic scan: a row is right in the index,*)
(* or the scan will send a message for it, whatever messages, tasks and    *)
(* attempts were lost.                                                     *)
UnsettledIsPending == \A e \in Present : Settled(e) \/ e \in PendingRepairs

(* A worker that worked on the revision r of a row ends.                   *)
EndsWith(w, e, r) == task[w] # NoTask /\ task[w][1] = e /\ snapshot[w][2] = r
                     /\ (SyncMarks(w) \/ SyncRemoves(w))

(* Work on the index is not undone: only a new revision of a row makes it  *)
(* pending again, no step takes its mark back, and a worker that ends with *)
(* the present revision has settled it.                                    *)
WorkOnTheIndexLasts ==
    [][\A e \in Experiences :
          /\ indexed[e] <= indexed'[e]
          /\ Settled(e) => Settled(e)' \/ revision[e] < revision'[e]
          /\ \A w \in Workers : EndsWith(w, e, revision[e]) => Settled(e)']_vars

(* A step leaves a row alone, gives it a new revision, marks or removes it.*)
LEMMA RowsMove ==
    ASSUME IInv, [Next]_vars, NEW e \in Experiences
    PROVE  RowStays(e) \/ RowIsChanged(e) \/ RowIsMarked(e) \/ RowIsRemoved(e)
<1> DEFINE Moves == RowStays(e) \/ RowIsChanged(e) \/ RowIsMarked(e) \/ RowIsRemoved(e)
<1> SUFFICES Moves
  OBVIOUS
<1>0. /\ UNCHANGED <<status, revision, indexed>> => Moves
      /\ \A E, s : Bump(E, s) /\ UNCHANGED indexed => Moves
  BY DEF Bump, RowStays, RowIsChanged
<1> HIDE DEF Moves
<1>1. ASSUME NEW q \in Recorders, RecorderNext(q) PROVE Moves
  <2>1. ASSUME NEW x \in Experiences, RecordInserts(q, x) \/ RecordRefreshes(q, x) PROVE Moves
    BY <1>0, <2>1 DEF RecordInserts, RecordRefreshes
  <2> QED BY <1>0, <1>1, <2>1 DEF RecorderNext, RecordReads, RecordConflicts, RecordIsLost
<1>2. ASSUME NEW a \in Recallers, RecallerNext(a) PROVE Moves
  BY <1>0, <1>2
     DEF RecallerNext, RecallSearches, RecallReadsVersions, RecallReadsRows, RecallAnswers
<1>3. ASSUME NEW w \in Workers, WorkerNext(w) PROVE Moves
  <2>1. CASE SyncMarks(w) \/ SyncRemoves(w)
    <3>1. /\ SnapshotIsOld(w) /\ task[w][1] \in Experiences
          /\ status \in [Experiences -> Statuses] /\ indexed \in [Experiences -> Revisions]
      BY <2>1, WorkerTypes DEF SyncMarks, SyncRemoves, Holds, IInv, TypeOK
    <3>2. CASE SyncMarks(w)
      BY <3>1, <3>2 DEF SyncMarks, SnapshotIsOld, Moves, RowStays, RowIsMarked, Present
    <3>3. CASE SyncRemoves(w)
      BY <3>1, <3>3 DEF SyncRemoves, Moves, RowStays, RowIsRemoved
    <3> QED BY <2>1, <3>2, <3>3
  <2> QED BY <1>0, <1>3, <2>1 DEF WorkerNext, SyncStep, SyncReads, SyncHasNothingToDo,
                SyncWrites, SyncFails, TakeTask
<1>4. ASSUME NEW x \in Experiences, DisableManually(x) \/ RequestDeletion(x) \/ ForgetVersion(x)
      PROVE  Moves
  BY <1>0, <1>4 DEF DisableManually, RequestDeletion, ForgetVersion
<1>5. CASE MetadataNext \/ RepairIndexes
  BY <1>0, <1>5 DEF MetadataNext, PublishMetadata, InvalidateAssets, InvalidationIsLost,
        RepairIndexes
<1>6. CASE UNCHANGED vars
  BY <1>0, <1>6 DEF vars
<1> QED BY <1>1, <1>2, <1>3, <1>4, <1>5, <1>6 DEF Next, Moves

(* The scan finds every row that is not right in the index yet, so that    *)
(* one more message is sent for it however many were lost.                 *)
THEOREM ScanFindsUnsettled == Spec => []UnsettledIsPending
<1>1. Init => DeletingIsPending
  BY DEF Init, DeletingIsPending
<1>2. IInv /\ DeletingIsPending /\ [Next]_vars => DeletingIsPending'
  <2> SUFFICES ASSUME IInv, DeletingIsPending, [Next]_vars, NEW e \in Experiences,
                      status'[e] = "deleting"
               PROVE  indexed'[e] < revision'[e]
    BY DEF DeletingIsPending
  <2>1. indexed[e] \in Nat /\ revision[e] \in Nat /\ indexed[e] <= revision[e]
    BY RowTypes DEF IInv, RevisionsBound
  <2>2. status[e] = "deleting" => indexed[e] < revision[e]
    BY DEF DeletingIsPending
  <2> QED BY <2>1, <2>2, RowsMove DEF RowStays, RowIsChanged, RowIsMarked, RowIsRemoved
<1>3. IInv /\ DeletingIsPending => UnsettledIsPending
  <2> SUFFICES ASSUME IInv, DeletingIsPending, NEW e \in Present
               PROVE  Settled(e) \/ e \in PendingRepairs
    BY DEF UnsettledIsPending
  <2>1. indexed[e] \in Nat /\ revision[e] \in Nat /\ indexed[e] <= revision[e]
    BY RowTypes DEF IInv, RevisionsBound, Present
  <2> QED BY <2>1 DEF Settled, PendingRepairs, DeletingIsPending, Present
<1> QED BY <1>1, <1>2, <1>3, Inductive, PTL DEF Spec

(* What the workers have done for a revision is never taken back; only a   *)
(* newer revision of the row gives them something to do again.             *)
THEOREM IndexOnlyAdvances == Spec => WorkOnTheIndexLasts
<1> DEFINE Lasts(e) ==
        /\ indexed[e] <= indexed'[e]
        /\ Settled(e) => Settled(e)' \/ revision[e] < revision'[e]
        /\ \A w \in Workers : EndsWith(w, e, revision[e]) => Settled(e)'
<1>1. ASSUME IInv, [Next]_vars, NEW e \in Experiences PROVE Lasts(e)
  <2>1. indexed[e] \in Nat /\ revision[e] \in Nat /\ indexed[e] <= revision[e]
    BY <1>1, RowTypes DEF IInv, RevisionsBound
  <2>2. indexed[e] <= indexed'[e] /\ (Settled(e) => Settled(e)' \/ revision[e] < revision'[e])
    BY <1>1, <2>1, RowsMove
       DEF RowStays, RowIsChanged, RowIsMarked, RowIsRemoved, Settled, Present
  <2>3. ASSUME NEW w \in Workers, EndsWith(w, e, revision[e]) PROVE Settled(e)'
    <3>1. /\ SnapshotIsOld(w) /\ snapshot[w][1] # "removed" /\ status[e] \in Statuses
          /\ revision[e] > 0 /\ Known(task[w])
      <4>1. pc[w] = "marking"
        BY <2>3 DEF EndsWith, SyncMarks, SyncRemoves
      <4>2. SnapshotIsOld(w) /\ snapshot[w][1] # "removed" /\ Known(task[w])
        BY <1>1, <4>1, WorkerTypes DEF IInv, WorkersKnow, Holds
      <4> QED BY <1>1, <2>3, <4>2, RowTypes DEF SnapshotIsOld, EndsWith, IInv
    <3>2. status[e] # "absent"
      BY <1>1, <2>3, <3>1 DEF EndsWith, Known
    <3>3. status \in [Experiences -> Statuses] /\ indexed \in [Experiences -> Revisions]
      BY <1>1 DEF IInv, TypeOK
    <3>4. CASE SyncMarks(w)
      BY <2>3, <3>1, <3>2, <3>3, <3>4
         DEF EndsWith, SyncMarks, SnapshotIsOld, Settled, Present
    <3>5. CASE SyncRemoves(w)
      BY <2>3, <3>1, <3>3, <3>5 DEF EndsWith, SyncRemoves, SnapshotIsOld, Settled
    <3> QED BY <2>3, <3>4, <3>5 DEF EndsWith
  <2> QED BY <2>2, <2>3
<1>2. IInv /\ [Next]_vars => [\A e \in Experiences : Lasts(e)]_vars
  BY <1>1
<1> QED BY <1>2, Inductive, PTL DEF Spec, WorkOnTheIndexLasts

=============================================================================
