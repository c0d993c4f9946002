------------------------------- MODULE Metadata --------------------------------
(***************************************************************************)
(* The catalogue, the documents of one of its entries and the index of the *)
(* values of one of its columns share no state in this model: one of them  *)
(* moves, or a component that is not here.                                 *)
(***************************************************************************)
EXTENDS Naturals, FiniteSets, Parts

CONSTANTS CatalogTables, CatalogColumns, CatalogMetrics, CatalogTableOf, TableContents, None,
          StartCatalogs, CatalogJobs, CatalogWriters
VARIABLES tables, editor
Catalog == INSTANCE MetadataCatalog WITH
               Tables <- CatalogTables, Columns <- CatalogColumns, Metrics <- CatalogMetrics,
               TableOf <- CatalogTableOf, Contents <- TableContents, Start <- StartCatalogs,
               Jobs <- CatalogJobs, Writers <- CatalogWriters, catalog <- tables,
               writer <- editor
catalogVars == <<tables, editor>>

CONSTANTS EntryContents, EntryWriters, IndexTasks, MaxQueue, MaxVersion, MaxIndexFaults
VARIABLES entry, writer, queue, indexLock, task, document, indexFaults, neglected, overlapped
Entries == INSTANCE SemanticIndex WITH
               Contents <- EntryContents, Writers <- EntryWriters, Tasks <- IndexTasks,
               MaxFaults <- MaxIndexFaults, lock <- indexLock, faults <- indexFaults
entryVars == <<entry, writer, queue, indexLock, task, document, indexFaults, neglected,
               overlapped>>

CONSTANTS SyncRuns, MaxValue, Lookback, MaxSyncChanges
VARIABLES source, present, deletions, deleting, enabled, cursored, version, row, docs, run, unseen
Sync == INSTANCE ValueIndexSync WITH
            Runs <- SyncRuns, MaxChanges <- MaxSyncChanges, lost <- unseen
valueVars == <<source, present, deletions, deleting, enabled, cursored, version, row, docs, run, unseen>>

ASSUME MetadataAssumption ==
    Catalog!CatalogAssumption /\ Entries!IndexAssumption /\ Sync!SyncAssumption

metadataVars == <<part, catalogVars, entryVars, valueVars>>

MetadataInit == Catalog!Init /\ Entries!Init /\ Sync!Init

CatalogStep == part = "catalog" /\ Catalog!Next /\ UNCHANGED <<part, entryVars, valueVars>>
EntryStep == part = "entries" /\ Entries!Next /\ UNCHANGED <<part, catalogVars, valueVars>>
ValueStep == part = "values" /\ Sync!Next /\ UNCHANGED <<part, catalogVars, entryVars>>

MetadataNext == CatalogStep \/ EntryStep \/ ValueStep

MetadataSpec == MetadataInit /\ [][MetadataNext]_metadataVars

MetadataTypes ==
    /\ part = "catalog" => Catalog!TypeOK
    /\ part = "entries" => Entries!TypeOK
    /\ part = "values" => Sync!TypeOK

(* The catalogue, and the indexes of its entries and of a column's values. *)
MetadataIsKept ==
    /\ part = "catalog" => Catalog!CatalogIsKept
    /\ part = "entries" => Entries!SettledIndexIsCurrent
    /\ part = "values" => Sync!CommittedValuesAreIndexed
=============================================================================
