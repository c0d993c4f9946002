-------------------------------- MODULE Recall ---------------------------------
(***************************************************************************)
(* One search of the metadata and the recalled context of a conversation   *)
(* share a catalogue and no state in this model: one of them moves, or a   *)
(* component that is not here.                                             *)
(***************************************************************************)
EXTENDS Naturals, FiniteSets, Parts

CONSTANTS Columns, Tables, TableOf, Reference, KeyColumns, Metrics, Needs, KnownValues, ColumnOf,
          Failures, MaxCatalogs

CONSTANTS Depth, Limit, MaxContexts, SearchedColumns, Spelling
VARIABLES policy, types, stage, embedded, ranked, clipped, failures, answered, response
Search == INSTANCE MetadataSearch WITH
              Keys <- KeyColumns, Values <- KnownValues, Indexed <- SearchedColumns,
              MaxVersion <- MaxCatalogs, None <- Absent
searchVars == <<policy, types, stage, embedded, ranked, clipped, failures, answered, response>>

CONSTANTS RecallQueries, Rank, Calls, RecallCrews, RecallKind, On, Keeper, Retried, Cut, Whole,
          Experiences, Uses, MadeUnder, Searches, Rights, MaxRecallChanges
VARIABLES rights, catalog, changes, day, latest, holder, callPc, callPolicy, recalled, cache,
          before, removed, revivers
Recalls == INSTANCE RecallContext WITH
               Keys <- KeyColumns, Values <- KnownValues, MaxVersion <- MaxCatalogs,
               None <- Absent, Queries <- RecallQueries, Target <- Keeper,
               Crews <- RecallCrews, Kind <- RecallKind, MaxChanges <- MaxRecallChanges,
               version <- catalog, pc <- callPc, policy <- callPolicy, found <- recalled
recallVars == <<rights, catalog, changes, day, latest, holder, callPc, callPolicy, recalled, cache,
                before, removed, revivers>>

ASSUME RecallAssumption == Search!SearchAssumption /\ Recalls!ContextAssumption

recallingVars == <<part, searchVars, recallVars>>

RecallInit == Search!Init /\ Recalls!Init

SearchStep == part = "search" /\ Search!Next /\ UNCHANGED <<part, recallVars>>
RecallStep == part = "recalls" /\ Recalls!Next /\ UNCHANGED <<part, searchVars>>

RecallNext == SearchStep \/ RecallStep

RecallSpec == RecallInit /\ [][RecallNext]_recallingVars

RecallTypes ==
    /\ part = "search" => Search!TypeOK
    /\ part = "recalls" => Recalls!TypeOK

(* What is recalled of the metadata, and what a conversation keeps of it.  *)
RecallsAreSafe ==
    /\ part = "search" => Search!SearchIsSound
    /\ part = "recalls" => Recalls!RecallsAreSafe
===============================================================================
