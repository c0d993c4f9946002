---------------------------- MODULE SemanticIndex ---------------------------
(***************************************************************************)
(* One column or metric of the catalogue and its documents in the semantic *)
(* index.  Administrators edit, import and delete it in PostgreSQL; after  *)
(* each commit a task is queued that brings the documents in line, under a *)
(* lock of the resource, and confirms the version it has indexed.  The     *)
(* documents are one per text of the resource: its name and, as many       *)
(* texts as contents here, a text of its content.                          *)
(***************************************************************************)
EXTENDS Naturals, FiniteSets

CONSTANTS
    Contents,   \* what an entry may say
    Writers,    \* edits, imports and deletions, one each
    Tasks,      \* executions of the synchronisation task
    Nobody,
    Absent,     \* no content, no document
    MaxQueue,   \* bound on queued tasks
    MaxVersion, \* bound on meta_version
    MaxFaults   \* bound on steps that fail

IndexAssumption ==
    /\ Nobody \notin Tasks /\ Absent \notin Contents
    /\ MaxQueue \in Nat /\ MaxVersion \in Nat /\ MaxFaults \in Nat

VARIABLES
    entry,      \* the row: content, meta_version and index_version
    writer,     \* edits, imports and deletions
    queue,      \* number of queued tasks
    lock,       \* pg_advisory_xact_lock of the resource
    task,       \* the tasks
    document,   \* the document of each text
    faults,     \* number of steps that failed
    neglected,  \* history: a change no task will index
    overlapped  \* history: a deletion met a task that writes

indexVars == <<entry, writer, queue, lock, task, document, faults, neglected, overlapped>>

Fault == faults < MaxFaults /\ faults' = faults + 1

Texts == Contents \cup {"name"}
NoEntry == [content |-> Absent, version |-> 0, indexed |-> 0]
Present == entry.content # Absent
Document(e) == [content |-> e.content, version |-> e.version]
NoDocument == [content |-> Absent, version |-> 0]

(* The documents of an entry: name and payload are those of its version.   *)
Target(e) == [x \in Texts |-> IF x \in {"name", e.content} THEN Document(e) ELSE NoDocument]

Idle == [kind |-> "none", phase |-> "idle", content |-> Absent, found |-> NoEntry]
Over == [Idle EXCEPT !.phase = "over"]
Resting == [phase |-> "idle", found |-> NoEntry, todo |-> {}]
Busy == {t \in Tasks : task[t].phase # "idle"}

Init ==
    /\ entry = NoEntry
    /\ writer = [w \in Writers |-> Idle]
    /\ queue = 0 /\ lock = Nobody
    /\ task = [t \in Tasks |-> Resting]
    /\ document = [x \in Texts |-> NoDocument]
    /\ faults = 0 /\ neglected = FALSE /\ overlapped = FALSE

-----------------------------------------------------------------------------
(* Writers.  Each reads the row first; an import keeps the rows it read in *)
(* its session, so that it also computes versions from them.               *)

Begin(w, kind, content) ==
    /\ writer[w].phase = "idle"
    /\ kind = "delete" => Present
    /\ writer' = [writer EXCEPT ![w] =
           [kind |-> kind, phase |-> "read", content |-> content, found |-> entry]]
    /\ UNCHANGED <<entry, queue, lock, task, document, faults, neglected, overlapped>>

(* Nothing changes: an edit or an import that says what the row said.      *)
Unchanged(w) ==
    /\ writer[w].phase = "read" /\ writer[w].content = writer[w].found.content
    /\ writer' = [writer EXCEPT ![w] = Over]
    /\ UNCHANGED <<entry, queue, lock, task, document, faults, neglected, overlapped>>

(* The version follows the one the writer read; what it did not change is  *)
(* not written, such as the version that is indexed.  A row that was       *)
(* missing is made, with version 1, or has come to be there: an import     *)
(* looks again before it counts, but the merge of an edit, or of an import *)
(* that looked too soon, finds the row only after and starts it anew.      *)
Made(w) == [content |-> writer[w].content, version |-> 1, indexed |-> 0]
Counted(w) ==
    [entry EXCEPT !.content = writer[w].content, !.version = writer[w].found.version + 1]
Met(w) ==
    [entry EXCEPT !.content = writer[w].content,
                  !.version = IF writer[w].content = entry.content THEN @ ELSE @ + 1]
Written(w) ==
    IF writer[w].found # NoEntry THEN {Counted(w)}
    ELSE {Made(w)} \cup {e \in {Met(w)} : Present}

(* The row a writer found must still be there: an update of no row fails.  *)
Write(w) ==
    /\ writer[w].phase = "read" /\ writer[w].kind # "delete"
    /\ writer[w].content # writer[w].found.content
    /\ writer[w].found # NoEntry => Present
    /\ entry' \in {e \in Written(w) : e.version <= MaxVersion}
    /\ writer' = [writer EXCEPT ![w].phase = "written"]
    /\ UNCHANGED <<queue, lock, task, document, faults, neglected, overlapped>>

(* So does the insertion of a row that another writer has just inserted.   *)
WriteFails(w) ==
    /\ writer[w].phase = "read" /\ writer[w].kind # "delete"
    /\ (writer[w].found = NoEntry) = Present
    /\ writer' = [writer EXCEPT ![w] = Over]
    /\ UNCHANGED <<entry, queue, lock, task, document, faults, neglected, overlapped>>

(* The task is queued after the commit, when the experiences that use the  *)
(* resource are invalidated; if that fails, it is not.                     *)
Notify(w) ==
    /\ writer[w].phase = "written"
    /\ \/ queue < MaxQueue /\ queue' = queue + 1 /\ UNCHANGED <<faults, neglected>>
       \/ Fault /\ UNCHANGED queue /\ neglected' = TRUE
    /\ writer' = [writer EXCEPT ![w] = Over]
    /\ UNCHANGED <<entry, lock, task, document, overlapped>>

(* A deletion - also one of an import that replaces the catalogue - takes  *)
(* the documents away first, without the lock, and then the row.           *)
DeleteDocuments(w) ==
    /\ writer[w].kind = "delete" /\ writer[w].phase = "read"
    /\ document' = [x \in Texts |-> NoDocument]
    /\ writer' = [writer EXCEPT ![w].phase = "unindexed"]
    /\ overlapped' = (overlapped \/ lock # Nobody)
    /\ UNCHANGED <<entry, queue, lock, task, faults, neglected>>

DeleteRow(w) ==
    /\ writer[w].phase = "unindexed"
    /\ entry' = NoEntry
    /\ writer' = [writer EXCEPT ![w] = Over]
    /\ neglected' = FALSE
    /\ overlapped' = (overlapped \/ lock # Nobody \/ document # Target(NoEntry))
    /\ UNCHANGED <<queue, lock, task, document, faults>>

(* The second transaction fails: the row stays and has no documents.       *)
DeleteFails(w) ==
    /\ writer[w].phase = "unindexed" /\ Fault
    /\ writer' = [writer EXCEPT ![w] = Over]
    /\ neglected' = TRUE
    /\ UNCHANGED <<entry, queue, lock, task, document, overlapped>>

-----------------------------------------------------------------------------
(* The synchronisation task.                                               *)

Take(t) ==
    /\ queue > 0 /\ task[t].phase = "idle"
    /\ queue' = queue - 1
    /\ task' = [task EXCEPT ![t].phase = "locking"]
    /\ UNCHANGED <<entry, writer, lock, document, faults, neglected, overlapped>>

(* Texts to create, to update and to delete.                               *)
Delta(e) == {x \in Texts : document[x] # Target(e)[x]}

(* Mutant: no lock: two tasks may write the same documents.                *)
LoadUnlocked(t) ==
    /\ task[t].phase = "locking" /\ Present
    /\ lock' = lock
    /\ task' = [task EXCEPT ![t] = [phase |-> "writing", found |-> entry, todo |-> Delta(entry)]]
    /\ overlapped' = FALSE
    /\ UNCHANGED <<entry, writer, queue, document, faults, neglected>>

(* With the lock, row and documents are read and compared; the texts that  *)
(* are new are embedded.                                                   *)
Load(t) ==
    /\ task[t].phase = "locking" /\ lock = Nobody /\ Present
    /\ lock' = t
    /\ task' = [task EXCEPT ![t] = [phase |-> "writing", found |-> entry, todo |-> Delta(entry)]]
    /\ overlapped' = FALSE
    /\ UNCHANGED <<entry, writer, queue, document, faults, neglected>>

(* There is no such resource: the task fails, and again when retried.      *)
FindNothing(t) ==
    /\ task[t].phase = "locking" /\ lock = Nobody /\ ~Present
    /\ task' = [task EXCEPT ![t] = Resting]
    /\ UNCHANGED <<entry, writer, queue, lock, document, faults, neglected, overlapped>>

(* A part of the delta.                                                    *)
Apply(t) ==
    /\ task[t].phase = "writing"
    /\ \E x \in task[t].todo :
        /\ document' = [document EXCEPT ![x] = Target(task[t].found)[x]]
        /\ task' = [task EXCEPT ![t].todo = @ \ {x}]
    /\ UNCHANGED <<entry, writer, queue, lock, faults, neglected, overlapped>>

Release(t) == lock' = IF lock = t THEN Nobody ELSE lock

(* The version is confirmed if the row still has it.                       *)
Mark(t) ==
    /\ task[t].phase = "writing" /\ task[t].todo = {}
    /\ LET current == Present /\ entry.version = task[t].found.version
       IN  /\ entry' = IF current THEN [entry EXCEPT !.indexed = entry.version] ELSE entry
           /\ neglected' = (neglected /\ (entry.content # task[t].found.content \/ ~current))
    /\ Release(t)
    /\ task' = [task EXCEPT ![t] = Resting]
    /\ UNCHANGED <<writer, queue, document, faults, overlapped>>

(* Embedding or a bulk request fails, or the worker dies: the task is      *)
(* retried or redelivered, until its retries are used up.                  *)
Fail(t) ==
    /\ task[t].phase # "idle" /\ Fault
    /\ Release(t)
    /\ task' = [task EXCEPT ![t] = Resting]
    /\ \/ queue < MaxQueue /\ queue' = queue + 1 /\ UNCHANGED neglected
       \/ UNCHANGED queue /\ neglected' = Present
    /\ UNCHANGED <<entry, writer, document, overlapped>>

WriterStep(w) ==
    \/ \E c \in Contents : Begin(w, "edit", c)
    \/ Begin(w, "delete", Absent)
    \/ Unchanged(w) \/ Write(w) \/ WriteFails(w) \/ Notify(w)
    \/ DeleteDocuments(w) \/ DeleteRow(w) \/ DeleteFails(w)
TaskStep(t) == Take(t) \/ Load(t) \/ FindNothing(t) \/ Apply(t) \/ Mark(t) \/ Fail(t)

Next ==
    \/ \E w \in Writers : WriterStep(w)
    \/ \E t \in Tasks : TaskStep(t)

Spec == Init /\ [][Next]_indexVars

-----------------------------------------------------------------------------
(* Properties.                                                             *)

Entries == [content : Contents \cup {Absent}, version : 0 .. MaxVersion, indexed : 0 .. MaxVersion]

TypeOK ==
    /\ entry \in Entries
    /\ writer \in [Writers -> [kind : {"none", "edit", "delete"},
                               phase : {"idle", "read", "written", "unindexed", "over"},
                               content : Contents \cup {Absent}, found : Entries]]
    /\ queue \in 0 .. MaxQueue /\ lock \in Tasks \cup {Nobody}
    /\ task \in [Tasks -> [phase : {"idle", "locking", "writing"}, found : Entries,
                           todo : SUBSET Texts]]
    /\ document \in [Texts -> [content : Contents \cup {Absent}, version : 0 .. MaxVersion]]
    /\ faults \in 0 .. MaxFaults /\ neglected \in BOOLEAN /\ overlapped \in BOOLEAN

Settled ==
    /\ queue = 0 /\ Busy = {}
    /\ \A w \in Writers : writer[w].phase \notin {"written", "unindexed"}

(* When every task has run and no notification was lost, the documents are *)
(* those of the row and the version is confirmed, however edits, imports,  *)
(* retries and partial writes were interleaved, and a resource that is     *)
(* gone has no documents - unless a task was writing when the documents    *)
(* were deleted, since a deletion does not take the lock.                  *)
SettledIndexIsCurrent ==
    Settled =>
        /\ Present /\ ~neglected /\ ~overlapped =>
             document = Target(entry) /\ entry.indexed = entry.version
        /\ ~Present /\ ~overlapped => document = Target(NoEntry)

=============================================================================
