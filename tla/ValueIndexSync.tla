---------------------------- MODULE ValueIndexSync --------------------------
(***************************************************************************)
(* The index of the values of one column.  Background tasks copy values    *)
(* from Doris to Elasticsearch outside of any transaction; a row in        *)
(* PostgreSQL says which run owns the synchronisation, which generation of *)
(* documents is the current one and up to which cursor it goes.  The value *)
(* with number v comes from a row whose cursor column is v.                *)
(***************************************************************************)
EXTENDS Integers, FiniteSets

CONSTANTS
    Runs,       \* synchronisation runs
    MaxValue,   \* the source's values are 1 .. MaxValue
    Lookback,   \* value_lookback_seconds
    MaxChanges, \* bound on configuration changes and deletions, together
    Nobody

Unset == -1      \* no cursor, no generation, no row
Values == 1 .. MaxValue

SyncAssumption ==
    /\ Nobody \notin Runs /\ Unset \notin Runs
    /\ MaxValue \in Nat /\ Lookback \in Nat /\ MaxChanges \in Nat

VARIABLES
    source,     \* values in Doris, where nothing is deleted here
    present,    \* whether the catalogue has the column
    deletions,  \* requests to delete it that have taken the documents away
    deleting,   \* those of them that have not come to the row yet
    enabled,    \* index_values of the column
    cursored,   \* whether the table has a value_index_cursor_column
    version,    \* metadata versions of column and table, together
    row,        \* ValueIndexSyncState
    docs,       \* generation of each value's document
    run,        \* the runs
    lost        \* history: values whose documents a clear or a removal of the
                \* column deleted or a run without the row touched

catalogVars == <<present, deletions, deleting, enabled, cursored, version>>
vars == <<source, catalogVars, row, docs, run, lost>>

NoRow == [status |-> "none", active |-> Nobody, generation |-> Unset, cursor |-> Unset]
NewRun == [phase |-> "new", mode |-> "full", generation |-> Unset, cursor |-> Unset,
           cursored |-> FALSE, version |-> 0, bound |-> Unset, todo |-> {}]

Greatest(S) == CHOOSE v \in S : \A w \in S : w <= v
Owns(r) == row.active = r
Indexed == {v \in Values : docs[v] # Unset}
Ended(phase) == [NewRun EXCEPT !.phase = phase]
Alive(r) == run[r].phase \notin {"new", "over", "dead"}

Init ==
    /\ source = {} /\ version = 0 /\ lost = {}
    /\ present = TRUE /\ deletions = 0 /\ deleting = 0 /\ enabled = TRUE /\ cursored = TRUE
    /\ row = NoRow
    /\ docs = [v \in Values |-> Unset]
    /\ run = [r \in Runs |-> NewRun]

-----------------------------------------------------------------------------
(* The source and the catalogue.                                           *)

(* A row is late by no more than the lookback.                             *)
SourceGrows ==
    /\ \E v \in Values \ source :
        /\ \A w \in source : w - v <= Lookback
        /\ v = 1 \/ v - 1 \in source \/ v - 2 \in source
        /\ source' = source \cup {v}
    /\ UNCHANGED <<catalogVars, row, docs, run, lost>>

Changeable == version + deletions < MaxChanges

SetIndexValues ==
    /\ present /\ Changeable
    /\ enabled' = ~enabled
    /\ version' = version + 1
    /\ UNCHANGED <<source, present, deletions, deleting, cursored, row, docs, run, lost>>

(* A change of the cursor column deletes the row, whoever owns it.         *)
SetCursorColumn ==
    /\ Changeable
    /\ cursored' = ~cursored
    /\ version' = version + 1
    /\ row' = NoRow
    /\ UNCHANGED <<source, present, deletions, deleting, enabled, docs, run, lost>>

(* A column is deleted, alone, with its table or by an import that does    *)
(* not bring it: the documents go first, outside of a transaction, when    *)
(* the catalogue had the column a while ago; whatever runs do.             *)
DeleteDocuments ==
    /\ Changeable /\ deletions' = deletions + 1
    /\ deleting' = deleting + 1
    /\ docs' = [v \in Values |-> Unset]
    /\ lost' = lost \cup Indexed
    /\ UNCHANGED <<source, present, enabled, cursored, version, row, run>>

(* Then the column goes and, by cascade, the row.                          *)
DeleteColumn ==
    /\ deleting > 0 /\ deleting' = deleting - 1
    /\ present' = FALSE /\ row' = NoRow
    /\ UNCHANGED <<source, deletions, enabled, cursored, version, docs, run, lost>>

(* Or the request fails: the row, if there is one, keeps its cursor.       *)
DeletionFails ==
    /\ deleting > 0 /\ deleting' = deleting - 1
    /\ UNCHANGED <<source, present, deletions, enabled, cursored, version, row, docs, run, lost>>

(* A column that comes back starts with the first version again.  Versions *)
(* are counted on here: whoever has found an older one has lost the row.   *)
AddColumn ==
    /\ ~present /\ present' = TRUE
    /\ Changeable /\ version' = version + 1
    /\ enabled' \in BOOLEAN
    /\ UNCHANGED <<source, deletions, deleting, cursored, row, docs, run, lost>>

CatalogStep ==
    \/ SetIndexValues \/ SetCursorColumn
    \/ DeleteDocuments \/ DeleteColumn \/ DeletionFails \/ AddColumn

-----------------------------------------------------------------------------
(* The dispatcher.                                                         *)

(* Older than the time limit of a task: the run that owned it has died.    *)
Stale == row.active # Nobody => ~Alive(row.active)

(* A synchronisation, or the cleaning of a column that is not indexed any  *)
(* more, is claimed for a task; the claim takes the row from a dead run.   *)
Claim ==
    /\ row.status # "none"
    /\ enabled => cursored /\ row.generation # Unset /\ row.cursor # Unset
    /\ row.status = "syncing" => Stale
    /\ row' = [row EXCEPT !.status = "syncing", !.active = Nobody]
    /\ UNCHANGED <<source, catalogVars, docs, run, lost>>

(* The task could not be published.                                        *)
ClaimFails ==
    /\ row.status = "syncing" /\ row.active = Nobody
    /\ row' = [row EXCEPT !.status = "failed"]
    /\ UNCHANGED <<source, catalogVars, docs, run, lost>>

-----------------------------------------------------------------------------
(* A run.                                                                  *)

(* An incremental run goes on from a committed generation and cursor.      *)
Possible(mode) ==
    enabled /\ mode = "incremental" => row.generation # Unset /\ cursored /\ row.cursor # Unset

(* A task of the dispatcher, which is incremental, or an administrator's.  *)
(* The number of the run serves as the generation a full one makes.        *)
Begin(r) ==
    /\ run[r].phase = "new" /\ present
    /\ row.status = "syncing" => row.active = Nobody
    /\ \E requested \in {"full", "incremental"} :
        LET mode == IF enabled THEN requested ELSE "clear"
        IN  /\ Possible(requested)
            /\ run' = [run EXCEPT ![r] =
                   [NewRun EXCEPT !.phase = "begun", !.mode = mode,
                                  !.generation = IF mode = "full" THEN r ELSE row.generation,
                                  !.cursor = row.cursor, !.cursored = cursored,
                                  !.version = version]]
    /\ row' = [row EXCEPT !.status = "syncing", !.active = r]
    /\ UNCHANGED <<source, catalogVars, docs, lost>>

Deletes(r, S) ==
    /\ docs' = [v \in Values |-> IF v \in S THEN Unset ELSE docs[v]]
    /\ lost' = IF Owns(r) /\ run[r].mode = "full" THEN lost ELSE lost \cup (S \cap Indexed)

Clear(r) ==
    /\ run[r].phase = "begun" /\ run[r].mode = "clear"
    /\ Deletes(r, Values)
    /\ run' = [run EXCEPT ![r].phase = "done"]
    /\ UNCHANGED <<source, catalogVars, row>>

(* The greatest cursor is read before the values are; nothing to read ends *)
(* an incremental run.                                                     *)
ReadBound(r) ==
    /\ run[r].phase = "begun" /\ run[r].mode # "clear"
    /\ LET known == run[r].cursored /\ source # {}
       IN  run' = [run EXCEPT ![r] =
               [@ EXCEPT !.phase = IF ~known /\ run[r].mode = "incremental" THEN "done"
                                   ELSE "bounded",
                         !.bound = IF known THEN Greatest(source) ELSE Unset]]
    /\ UNCHANGED <<source, catalogVars, row, docs, lost>>

Window(r) == {v \in source : run[r].cursor - Lookback <= v /\ v <= run[r].bound}

ReadValues(r) ==
    /\ run[r].phase = "bounded"
    /\ run' = [run EXCEPT ![r] =
           [@ EXCEPT !.phase = "writing",
                     !.todo = IF run[r].mode = "full" THEN source ELSE Window(r)]]
    /\ UNCHANGED <<source, catalogVars, row, docs, lost>>

(* A batch of documents, with stable ids: a value has one document.        *)
Write(r) ==
    /\ run[r].phase = "writing" /\ run[r].todo # {}
    /\ \E v \in run[r].todo :
        /\ docs' = [docs EXCEPT ![v] = run[r].generation]
        /\ run' = [run EXCEPT ![r].todo = @ \ {v}]
        /\ lost' = IF Owns(r) THEN lost \ {v} ELSE lost \cup {v}
    /\ UNCHANGED <<source, catalogVars, row>>

(* A full run deletes the documents of other generations.                  *)
Written(r) ==
    /\ run[r].phase = "writing" /\ run[r].todo = {}
    /\ IF run[r].mode = "full"
       THEN Deletes(r, {v \in Indexed : docs[v] # run[r].generation})
       ELSE UNCHANGED <<docs, lost>>
    /\ run' = [run EXCEPT ![r].phase = "done"]
    /\ UNCHANGED <<source, catalogVars, row>>

(* The cursor a run commits: its upper bound, else the one it found.       *)
Reached(r) == IF run[r].bound # Unset THEN run[r].bound ELSE run[r].cursor

FailedRow(r) == IF Owns(r) THEN [row EXCEPT !.status = "failed", !.active = Nobody] ELSE row

(* The row's owner commits, if the configuration is still the one it found;*)
(* any other run fails.                                                    *)
Complete(r) ==
    /\ run[r].phase = "done"
    /\ row' = IF ~Owns(r) \/ version # run[r].version THEN FailedRow(r)
              ELSE IF run[r].mode = "clear" THEN NoRow
              ELSE [status |-> "succeeded", active |-> Nobody,
                    generation |-> run[r].generation, cursor |-> Reached(r)]
    /\ run' = [run EXCEPT ![r] = Ended("over")]
    /\ UNCHANGED <<source, catalogVars, docs, lost>>

(* A read or a write fails.                                                *)
Fail(r) ==
    /\ Alive(r)
    /\ row' = FailedRow(r)
    /\ run' = [run EXCEPT ![r] = Ended("over")]
    /\ UNCHANGED <<source, catalogVars, docs, lost>>

(* The worker dies, or the task reaches its time limit.                    *)
Die(r) ==
    /\ Alive(r)
    /\ run' = [run EXCEPT ![r] = Ended("dead")]
    /\ UNCHANGED <<source, catalogVars, row, docs, lost>>

RunStep(r) ==
    \/ Begin(r) \/ Clear(r) \/ ReadBound(r) \/ ReadValues(r) \/ Write(r) \/ Written(r)
    \/ Complete(r) \/ Fail(r) \/ Die(r)

Next ==
    \/ SourceGrows \/ CatalogStep \/ Claim \/ ClaimFails
    \/ \E r \in Runs : RunStep(r)

Spec == Init /\ [][Next]_vars

-----------------------------------------------------------------------------
(* Properties.                                                             *)

Generations == Runs \cup {Unset}
Phases == {"new", "begun", "bounded", "writing", "done", "over", "dead"}

TypeOK ==
    /\ source \subseteq Values /\ lost \subseteq Values
    /\ present \in BOOLEAN /\ deletions \in 0 .. MaxChanges /\ deleting \in 0 .. deletions
    /\ enabled \in BOOLEAN /\ cursored \in BOOLEAN /\ version \in 0 .. MaxChanges
    /\ row \in [status : {"none", "syncing", "failed", "succeeded"},
                active : Runs \cup {Nobody}, generation : Generations,
                cursor : Values \cup {Unset}]
    /\ docs \in [Values -> Generations]
    /\ run \in [Runs -> [phase : Phases, mode : {"full", "incremental", "clear"},
                         generation : Generations, cursor : Values \cup {Unset},
                         cursored : BOOLEAN, version : 0 .. MaxChanges,
                         bound : Values \cup {Unset}, todo : SUBSET Values]]

(* What a committed cursor promises: every value the source had before the *)
(* lookback window is indexed, whatever runs failed, died or overlapped -  *)
(* except for what a clear deleted, what a removal of the column deleted   *)
(* that did not remove the row after, and what a run that had lost the row *)
(* wrote or deleted, which the owner may even take for an old generation.  *)
CommittedValuesAreIndexed ==
    row.status = "succeeded" /\ row.cursor # Unset =>
        {v \in source : v < row.cursor - Lookback} \subseteq Indexed \cup lost

=============================================================================
