-------------------- MODULE ConversationLifecycleProofs --------------------
(***************************************************************************)
(* Proofs about ConversationLifecycle, for every number of conversations,  *)
(* processes, Runs, requests, uploads and Cleaners, and every number of    *)
(* failures and crashes.  IInv is inductive; the safety properties and the *)
(* refinement of SealedStores follow from it.                              *)
(***************************************************************************)
EXTENDS ConversationLifecycle, TLAPS

(* The sets of actors and phases, and the frames every action is built on. *)
USE DEF Local, Actors, Stores, RunPhases, CleanPhases, Phases, Holding, Live,
        Executing, FromSealing, FromDropCheckpoint, FromDropRecall, FromSealFiles,
        FromDropFiles, FromDropRow, Goto, Acquire, Release, Advance, Exists, Visible,
        rowVars, storeVars, actorVars, runVars, cleanVars, faultVars
USE SubsetAssumption, HomeAssumption, DisjointAssumption, NoneAssumption, BoundAssumption

-----------------------------------------------------------------------------
(* The inductive invariant.                                                *)

(* Nothing has happened yet: every conjunct holds for want of a case.      *)
LEMMA InitIInv == Init => IInv
<1> SUFFICES ASSUME Init PROVE IInv
  OBVIOUS
<1> USE DEF Init
<1>1. TypeOK
  BY DEF TypeOK
<1>2. PhasesByKind /\ BusyActorsHaveTargets /\ LockMatchesPhases /\ LiveRunsAreRegistered
  BY DEF PhasesByKind, BusyActorsHaveTargets, LockMatchesPhases, LiveRunsAreRegistered
<1>3. ExecutingRunsOwnTheirRow /\ RunsWorkUnsealed /\ WorkNeedsRow
  BY DEF ExecutingRunsOwnTheirRow, RunsWorkUnsealed, WorkNeedsRow
<1>4. CleanersProgress /\ GoneIsSealed /\ NoOrphans /\ DeletionsAreFounded
  BY DEF CleanersProgress, GoneIsSealed, NoOrphans, DeletionsAreFounded
<1> QED BY <1>1, <1>2, <1>3, <1>4 DEF IInv


(* Removing the row: nobody else is at work on the conversation, and its   *)
(* stores were closed and emptied on the way.                              *)
LEMMA DropRowInductive ==
    ASSUME IInv, NEW k \in Cleaners, DropRow(k) PROVE IInv'
<1> DEFINE c == target[k]
<1> USE DEF DropRow, Returns
<1>1. c \in Conversations /\ lock[c] = k /\ Exists(c)
  BY DEF IInv, LockMatchesPhases, CleanersProgress
<1>2. /\ c \in tombstone \cap filesTombstone
      /\ <<c, "checkpoint">> \notin held /\ <<c, "recall">> \notin held /\ <<c, "files">> \notin held
  BY DEF IInv, CleanersProgress
<1>3. \A a \in Actors : a # k /\ pc[a] \in Holding => target[a] # c
  BY <1>1 DEF IInv, LockMatchesPhases
<1>4. \A p \in Processes : <<p, c>> \notin jobs
  BY <1>1, <1>2 DEF IInv, WorkNeedsRow, SandboxOpen, TypeOK
<1>5. /\ row' = [row EXCEPT ![c] = "gone"] /\ deleting' = deleting \ {c}
      /\ lock' = [lock EXCEPT ![c] = None] /\ pc'[k] \in {"idle", "batch"}
      /\ mode[k] = "task" => pc'[k] = "idle"
      /\ \A a \in Actors : a # k => pc'[a] = pc[a]
      /\ target' = target /\ UNCHANGED <<storeVars, runVars, mode, batch>>
      /\ queue' \subseteq queue
  BY DEF c, IInv, TypeOK
<1>6. TypeOK' /\ PhasesByKind' /\ BusyActorsHaveTargets'
  BY <1>1 DEF IInv, TypeOK, PhasesByKind, BusyActorsHaveTargets
<1>7. LockMatchesPhases' /\ LiveRunsAreRegistered'
  BY DEF IInv, TypeOK, PhasesByKind, BusyActorsHaveTargets, LockMatchesPhases, LiveRunsAreRegistered
<1> HIDE DEF c, DropRow, Returns
<1>8. /\ row'[c] = "gone"
      /\ \A d \in Conversations : d # c => row'[d] = row[d]
  BY <1>1, <1>5 DEF IInv, TypeOK
<1>9. \A a \in Actors : pc'[a] \in Holding =>
        /\ pc'[a] = pc[a] /\ target'[a] = target[a]
        /\ target[a] \in Conversations /\ row'[target[a]] = row[target[a]]
  BY <1>3, <1>5, <1>8 DEF IInv, BusyActorsHaveTargets
<1>10. ExecutingRunsOwnTheirRow' /\ RunsWorkUnsealed'
  BY <1>5, <1>9 DEF IInv, ExecutingRunsOwnTheirRow, RunsWorkUnsealed, Sealed
<1>11. WorkNeedsRow'
  <2>1. \A d \in deleting' : Exists(d)'
    BY <1>1, <1>5, <1>8 DEF IInv, TypeOK, WorkNeedsRow
  <2>2. \A d \in Conversations : <<d, "checkpoint">> \in held' => row'[d] = "formal"
    BY <1>2, <1>5, <1>8 DEF IInv, WorkNeedsRow
  <2>3. \A u \in Uploads : pc'[u] = "writing" => Exists(target[u])'
    BY <1>9, <1>5 DEF IInv, WorkNeedsRow
  <2>4. \A j \in jobs' : Exists(j[2])' /\ SandboxOpen(j[2])'
    BY <1>4, <1>5, <1>8 DEF IInv, TypeOK, WorkNeedsRow, SandboxOpen
  <2> QED BY <2>1, <2>2, <2>3, <2>4 DEF WorkNeedsRow
<1>12. CleanersProgress'
  BY <1>9, <1>5 DEF IInv, CleanersProgress
<1>13. GoneIsSealed' /\ NoOrphans'
  <2>1. GoneIsSealed'
    BY <1>2, <1>5, <1>8 DEF IInv, GoneIsSealed
  <2>2. NoOrphans'
    BY <1>2, <1>5, <1>8 DEF IInv, NoOrphans
  <2> QED BY <2>1, <2>2
<1>14. DeletionsAreFounded'
  <2>1. Doomed \subseteq Doomed'
    BY <1>1, <1>5, <1>8 DEF Doomed
  <2> QED BY <2>1, <1>5, <1>9 DEF IInv, DeletionsAreFounded, PhasesByKind
<1> QED BY <1>6, <1>7, <1>10, <1>11, <1>12, <1>13, <1>14 DEF IInv

(* Accepting a turn: the conversation becomes formal, and nobody else holds *)
(* its lock.                                                               *)
LEMMA PrepareAcceptsInductive ==
    ASSUME IInv, NEW r \in Runs, PrepareAccepts(r) PROVE IInv'
<1> DEFINE c == target[r]
<1> USE DEF PrepareAccepts
<1>1. /\ c \in Conversations /\ lock[c] = r /\ pc[r] = "preparing"
      /\ Exists(c) /\ c \notin deleting
  BY DEF IInv, LockMatchesPhases
<1>2. \A a \in Actors : a # r /\ pc[a] \in Holding => target[a] # c
  BY <1>1 DEF IInv, LockMatchesPhases
<1> HIDE DEF c
<1>3. /\ \A d \in Conversations : d # c => row'[d] = row[d]
      /\ deleting' = deleting /\ stale' \subseteq stale /\ lock' = lock /\ target' = target
      /\ pc' = [pc EXCEPT ![r] = "admitted"]
      /\ UNCHANGED <<storeVars, runVars, cleanVars, faultVars>>
  BY DEF c, IInv, TypeOK
<1>4. row' \in [Conversations -> {"absent", "draft", "formal", "gone"}] /\ row'[c] = "formal"
  <2>1. CASE r \in ResumeRuns
    BY <2>1, <1>1 DEF IInv, WorkNeedsRow, TypeOK, Resumable, c
  <2>2. CASE r \notin ResumeRuns
    BY <2>2, <1>1 DEF IInv, TypeOK, c
  <2> QED BY <2>1, <2>2
<1>5. TypeOK'
  BY <1>3, <1>4 DEF IInv, TypeOK, PhasesByKind
<1>6. PhasesByKind' /\ BusyActorsHaveTargets' /\ LockMatchesPhases' /\ LiveRunsAreRegistered'
  BY <1>1, <1>3 DEF IInv, TypeOK, PhasesByKind, BusyActorsHaveTargets, LockMatchesPhases,
                        LiveRunsAreRegistered
<1>7. ExecutingRunsOwnTheirRow' /\ RunsWorkUnsealed'
  <2>1. ExecutingRunsOwnTheirRow'
    BY <1>1, <1>2, <1>3, <1>4 DEF IInv, TypeOK, BusyActorsHaveTargets, c,
                                  ExecutingRunsOwnTheirRow
  <2>2. RunsWorkUnsealed'
    BY <1>3 DEF IInv, TypeOK, RunsWorkUnsealed, Sealed
  <2> QED BY <2>1, <2>2
<1>8. WorkNeedsRow'
  <2>1. \A d \in Conversations : Exists(d) => Exists(d)'
    BY <1>3, <1>4
  <2>2. \A d \in Conversations : <<d, "checkpoint">> \in held' => row'[d] = "formal"
    BY <1>3, <1>4 DEF IInv, WorkNeedsRow
  <2>3. \A u \in Uploads : pc'[u] = "writing" => Exists(target[u])'
    BY <2>1, <1>1, <1>3 DEF IInv, WorkNeedsRow, BusyActorsHaveTargets, TypeOK
  <2>4. \A j \in jobs' : Exists(j[2])' /\ SandboxOpen(j[2])'
    BY <2>1, <1>3 DEF IInv, WorkNeedsRow, TypeOK, SandboxOpen
  <2>5. \A d \in deleting' : Exists(d)'
    BY <2>1, <1>3 DEF IInv, WorkNeedsRow, TypeOK
  <2> QED BY <2>2, <2>3, <2>4, <2>5 DEF WorkNeedsRow
<1>9. CleanersProgress'
  <2>1. \A j \in Cleaners : pc'[j] \in FromSealing =>
          pc'[j] = pc[j] /\ target[j] \in Conversations /\ row'[target[j]] = row[target[j]]
    BY <1>1, <1>2, <1>3, <1>4 DEF IInv, BusyActorsHaveTargets, TypeOK
  <2> QED BY <2>1, <1>3 DEF IInv, CleanersProgress
<1>10. GoneIsSealed' /\ NoOrphans'
  BY <1>1, <1>3, <1>4 DEF IInv, GoneIsSealed, NoOrphans
<1>11. DeletionsAreFounded'
  <2>1. Doomed' = Doomed
    BY <1>1, <1>3, <1>4 DEF Doomed
  <2> QED BY <2>1, <1>1, <1>2, <1>3, <1>4 DEF IInv, DeletionsAreFounded, TypeOK,
                               BusyActorsHaveTargets, PhasesByKind
<1> QED BY <1>5, <1>6, <1>7, <1>8, <1>9, <1>10, <1>11 DEF IInv

(* Creating, renaming and ageing rows touches no store and no actor.       *)
LEMMA DirectoryInductive ==
    ASSUME IInv, NEW c \in Conversations, Create(c) \/ Rename(c) \/ Age(c) PROVE IInv'
<1>1. CASE Create(c)
  <2> USE <1>1 DEF IInv, Create
  <2>1. TypeOK'
    BY DEF TypeOK, PhasesByKind, BusyActorsHaveTargets
  <2>2. PhasesByKind' /\ BusyActorsHaveTargets' /\ LockMatchesPhases' /\ LiveRunsAreRegistered'
    BY DEF PhasesByKind, BusyActorsHaveTargets, LockMatchesPhases,
        LiveRunsAreRegistered, TypeOK
  <2>3. ExecutingRunsOwnTheirRow' /\ RunsWorkUnsealed' /\ WorkNeedsRow'
    BY DEF ExecutingRunsOwnTheirRow, RunsWorkUnsealed, WorkNeedsRow, TypeOK,
        PhasesByKind, BusyActorsHaveTargets, LockMatchesPhases,
        CleanersProgress, Sealed, SandboxOpen
  <2>4. CleanersProgress' /\ GoneIsSealed' /\ NoOrphans'
    BY DEF CleanersProgress, GoneIsSealed, NoOrphans, TypeOK, PhasesByKind,
        BusyActorsHaveTargets, LockMatchesPhases, ExecutingRunsOwnTheirRow,
        RunsWorkUnsealed, WorkNeedsRow, Sealed, SandboxOpen
  <2>5. DeletionsAreFounded'
    BY DEF DeletionsAreFounded, TypeOK, PhasesByKind, BusyActorsHaveTargets,
        LockMatchesPhases, CleanersProgress, WorkNeedsRow, Doomed
  <2> QED BY <2>1, <2>2, <2>3, <2>4, <2>5
<1>2. CASE Rename(c)
  <2> USE <1>2 DEF IInv, Rename
  <2>1. TypeOK'
    BY DEF TypeOK, PhasesByKind, BusyActorsHaveTargets
  <2>2. PhasesByKind' /\ BusyActorsHaveTargets' /\ LockMatchesPhases' /\ LiveRunsAreRegistered'
    BY DEF PhasesByKind, BusyActorsHaveTargets, LockMatchesPhases,
        LiveRunsAreRegistered, TypeOK
  <2>3. ExecutingRunsOwnTheirRow' /\ RunsWorkUnsealed' /\ WorkNeedsRow'
    BY DEF ExecutingRunsOwnTheirRow, RunsWorkUnsealed, WorkNeedsRow, TypeOK,
        PhasesByKind, BusyActorsHaveTargets, LockMatchesPhases,
        CleanersProgress, Sealed, SandboxOpen
  <2>4. CleanersProgress' /\ GoneIsSealed' /\ NoOrphans'
    BY DEF CleanersProgress, GoneIsSealed, NoOrphans, TypeOK, PhasesByKind,
        BusyActorsHaveTargets, LockMatchesPhases, ExecutingRunsOwnTheirRow,
        RunsWorkUnsealed, WorkNeedsRow, Sealed, SandboxOpen
  <2>5. DeletionsAreFounded'
    BY DEF DeletionsAreFounded, TypeOK, PhasesByKind, BusyActorsHaveTargets,
        LockMatchesPhases, CleanersProgress, WorkNeedsRow, Doomed
  <2> QED BY <2>1, <2>2, <2>3, <2>4, <2>5
<1>3. CASE Age(c)
  <2> USE <1>3 DEF IInv, Age
  <2>1. TypeOK'
    BY DEF TypeOK, PhasesByKind, BusyActorsHaveTargets
  <2>2. PhasesByKind' /\ BusyActorsHaveTargets' /\ LockMatchesPhases' /\ LiveRunsAreRegistered'
    BY DEF PhasesByKind, BusyActorsHaveTargets, LockMatchesPhases,
        LiveRunsAreRegistered, TypeOK
  <2>3. ExecutingRunsOwnTheirRow' /\ RunsWorkUnsealed' /\ WorkNeedsRow'
    BY DEF ExecutingRunsOwnTheirRow, RunsWorkUnsealed, WorkNeedsRow, TypeOK,
        PhasesByKind, BusyActorsHaveTargets, LockMatchesPhases,
        CleanersProgress, Sealed, SandboxOpen
  <2>4. CleanersProgress' /\ GoneIsSealed' /\ NoOrphans'
    BY DEF CleanersProgress, GoneIsSealed, NoOrphans, TypeOK, PhasesByKind,
        BusyActorsHaveTargets, LockMatchesPhases, ExecutingRunsOwnTheirRow,
        RunsWorkUnsealed, WorkNeedsRow, Sealed, SandboxOpen
  <2>5. DeletionsAreFounded'
    BY DEF DeletionsAreFounded, TypeOK, PhasesByKind, BusyActorsHaveTargets,
        LockMatchesPhases, CleanersProgress, WorkNeedsRow, Doomed
  <2> QED BY <2>1, <2>2, <2>3, <2>4, <2>5
<1> QED BY <1>1, <1>2, <1>3 DEF IInv

(* What a Run does by itself, from its registration to its callback.       *)
LEMMA RunStepInductive ==
    ASSUME IInv, NEW r \in Runs, RunStep(r) PROVE IInv'
<1>1. CASE RunLocks(r)
  <2> USE <1>1 DEF IInv, RunLocks
  <2>1. TypeOK'
    <3>1. /\ lock' \in [Conversations -> Actors \cup {None}]
          /\ target' \in [Actors -> Conversations \cup {None}]
      BY DEF TypeOK
    <3>2. pc' \in [Actors -> Phases]
      BY DEF TypeOK
    <3>3. /\ registry' \in [Processes -> [Conversations -> Runs \cup {None}]]
          /\ cancelled' \subseteq Runs /\ awaits' \in [Requests -> Runs \cup {None}]
      BY DEF TypeOK, PhasesByKind, BusyActorsHaveTargets
    <3> QED BY <3>1, <3>2, <3>3 DEF TypeOK
  <2>2. PhasesByKind' /\ BusyActorsHaveTargets' /\ LockMatchesPhases' /\ LiveRunsAreRegistered'
    BY DEF PhasesByKind, BusyActorsHaveTargets, LockMatchesPhases,
        LiveRunsAreRegistered, TypeOK
  <2>3. ExecutingRunsOwnTheirRow' /\ RunsWorkUnsealed' /\ WorkNeedsRow'
    BY DEF ExecutingRunsOwnTheirRow, RunsWorkUnsealed, WorkNeedsRow, TypeOK,
        PhasesByKind, BusyActorsHaveTargets, LockMatchesPhases,
        CleanersProgress, Sealed, SandboxOpen
  <2>4. CleanersProgress' /\ GoneIsSealed' /\ NoOrphans'
    BY DEF CleanersProgress, GoneIsSealed, NoOrphans, TypeOK, PhasesByKind,
        BusyActorsHaveTargets, LockMatchesPhases, ExecutingRunsOwnTheirRow,
        RunsWorkUnsealed, WorkNeedsRow, Sealed, SandboxOpen
  <2>5. DeletionsAreFounded'
    BY DEF DeletionsAreFounded, TypeOK, PhasesByKind, BusyActorsHaveTargets,
        LockMatchesPhases, CleanersProgress, WorkNeedsRow, Doomed
  <2> QED BY <2>1, <2>2, <2>3, <2>4, <2>5
<1>2. CASE RunNotAdmitted(r)
  <2> USE <1>2 DEF IInv, RunNotAdmitted
  <2>1. TypeOK'
    BY DEF TypeOK, PhasesByKind, BusyActorsHaveTargets
  <2>2. PhasesByKind' /\ BusyActorsHaveTargets' /\ LockMatchesPhases' /\ LiveRunsAreRegistered'
    BY DEF PhasesByKind, BusyActorsHaveTargets, LockMatchesPhases,
        LiveRunsAreRegistered, TypeOK
  <2>3. ExecutingRunsOwnTheirRow' /\ RunsWorkUnsealed' /\ WorkNeedsRow'
    BY DEF ExecutingRunsOwnTheirRow, RunsWorkUnsealed, WorkNeedsRow, TypeOK,
        PhasesByKind, BusyActorsHaveTargets, LockMatchesPhases,
        CleanersProgress, Sealed, SandboxOpen
  <2>4. CleanersProgress' /\ GoneIsSealed' /\ NoOrphans'
    BY DEF CleanersProgress, GoneIsSealed, NoOrphans, TypeOK, PhasesByKind,
        BusyActorsHaveTargets, LockMatchesPhases, ExecutingRunsOwnTheirRow,
        RunsWorkUnsealed, WorkNeedsRow, Sealed, SandboxOpen
  <2>5. DeletionsAreFounded'
    BY DEF DeletionsAreFounded, TypeOK, PhasesByKind, BusyActorsHaveTargets,
        LockMatchesPhases, CleanersProgress, WorkNeedsRow, Doomed
  <2> QED BY <2>1, <2>2, <2>3, <2>4, <2>5
<1>3. CASE PrepareAccepts(r)
  BY <1>3, PrepareAcceptsInductive
<1>4. CASE PrepareRejects(r)
  <2> USE <1>4 DEF IInv, PrepareRejects
  <2>1. TypeOK'
    BY DEF TypeOK, PhasesByKind, BusyActorsHaveTargets
  <2>2. PhasesByKind' /\ BusyActorsHaveTargets' /\ LockMatchesPhases' /\ LiveRunsAreRegistered'
    BY DEF PhasesByKind, BusyActorsHaveTargets, LockMatchesPhases,
        LiveRunsAreRegistered, TypeOK
  <2>3. ExecutingRunsOwnTheirRow' /\ RunsWorkUnsealed' /\ WorkNeedsRow'
    BY DEF ExecutingRunsOwnTheirRow, RunsWorkUnsealed, WorkNeedsRow, TypeOK,
        PhasesByKind, BusyActorsHaveTargets, LockMatchesPhases,
        CleanersProgress, Sealed, SandboxOpen
  <2>4. CleanersProgress' /\ GoneIsSealed' /\ NoOrphans'
    BY DEF CleanersProgress, GoneIsSealed, NoOrphans, TypeOK, PhasesByKind,
        BusyActorsHaveTargets, LockMatchesPhases, ExecutingRunsOwnTheirRow,
        RunsWorkUnsealed, WorkNeedsRow, Sealed, SandboxOpen
  <2>5. DeletionsAreFounded'
    BY DEF DeletionsAreFounded, TypeOK, PhasesByKind, BusyActorsHaveTargets,
        LockMatchesPhases, CleanersProgress, WorkNeedsRow, Doomed
  <2> QED BY <2>1, <2>2, <2>3, <2>4, <2>5
<1>5. CASE EnterRuntime(r)
  <2> USE <1>5 DEF IInv, EnterRuntime, CheckTombstone
  <2>1. TypeOK'
    BY DEF TypeOK, PhasesByKind, BusyActorsHaveTargets
  <2>2. PhasesByKind' /\ BusyActorsHaveTargets' /\ LockMatchesPhases' /\ LiveRunsAreRegistered'
    BY DEF PhasesByKind, BusyActorsHaveTargets, LockMatchesPhases,
        LiveRunsAreRegistered, TypeOK
  <2>3. ExecutingRunsOwnTheirRow' /\ RunsWorkUnsealed' /\ WorkNeedsRow'
    BY DEF ExecutingRunsOwnTheirRow, RunsWorkUnsealed, WorkNeedsRow, TypeOK,
        PhasesByKind, BusyActorsHaveTargets, LockMatchesPhases,
        CleanersProgress, Sealed, SandboxOpen
  <2>4. CleanersProgress' /\ GoneIsSealed' /\ NoOrphans'
    BY DEF CleanersProgress, GoneIsSealed, NoOrphans, TypeOK, PhasesByKind,
        BusyActorsHaveTargets, LockMatchesPhases, ExecutingRunsOwnTheirRow,
        RunsWorkUnsealed, WorkNeedsRow, Sealed, SandboxOpen
  <2>5. DeletionsAreFounded'
    BY DEF DeletionsAreFounded, TypeOK, PhasesByKind, BusyActorsHaveTargets,
        LockMatchesPhases, CleanersProgress, WorkNeedsRow, Doomed
  <2> QED BY <2>1, <2>2, <2>3, <2>4, <2>5
<1>6. CASE UseRuntime(r)
  <2> USE <1>6 DEF IInv, UseRuntime, CheckTombstone
  <2>1. TypeOK'
    BY DEF TypeOK, PhasesByKind, BusyActorsHaveTargets
  <2>2. PhasesByKind' /\ BusyActorsHaveTargets' /\ LockMatchesPhases' /\ LiveRunsAreRegistered'
    BY DEF PhasesByKind, BusyActorsHaveTargets, LockMatchesPhases,
        LiveRunsAreRegistered, TypeOK
  <2>3. ExecutingRunsOwnTheirRow' /\ RunsWorkUnsealed' /\ WorkNeedsRow'
    BY DEF ExecutingRunsOwnTheirRow, RunsWorkUnsealed, WorkNeedsRow, TypeOK,
        PhasesByKind, BusyActorsHaveTargets, LockMatchesPhases,
        CleanersProgress, Sealed, SandboxOpen
  <2>4. CleanersProgress' /\ GoneIsSealed' /\ NoOrphans'
    BY DEF CleanersProgress, GoneIsSealed, NoOrphans, TypeOK, PhasesByKind,
        BusyActorsHaveTargets, LockMatchesPhases, ExecutingRunsOwnTheirRow,
        RunsWorkUnsealed, WorkNeedsRow, Sealed, SandboxOpen
  <2>5. DeletionsAreFounded'
    BY DEF DeletionsAreFounded, TypeOK, PhasesByKind, BusyActorsHaveTargets,
        LockMatchesPhases, CleanersProgress, WorkNeedsRow, Doomed
  <2> QED BY <2>1, <2>2, <2>3, <2>4, <2>5
<1>7. CASE RunCancelled(r)
  <2> USE <1>7 DEF IInv, RunCancelled
  <2>1. TypeOK'
    BY DEF TypeOK, PhasesByKind, BusyActorsHaveTargets
  <2>2. PhasesByKind' /\ BusyActorsHaveTargets' /\ LockMatchesPhases' /\ LiveRunsAreRegistered'
    BY DEF PhasesByKind, BusyActorsHaveTargets, LockMatchesPhases,
        LiveRunsAreRegistered, TypeOK
  <2>3. ExecutingRunsOwnTheirRow' /\ RunsWorkUnsealed' /\ WorkNeedsRow'
    BY DEF ExecutingRunsOwnTheirRow, RunsWorkUnsealed, WorkNeedsRow, TypeOK,
        PhasesByKind, BusyActorsHaveTargets, LockMatchesPhases,
        CleanersProgress, Sealed, SandboxOpen
  <2>4. CleanersProgress' /\ GoneIsSealed' /\ NoOrphans'
    BY DEF CleanersProgress, GoneIsSealed, NoOrphans, TypeOK, PhasesByKind,
        BusyActorsHaveTargets, LockMatchesPhases, ExecutingRunsOwnTheirRow,
        RunsWorkUnsealed, WorkNeedsRow, Sealed, SandboxOpen
  <2>5. DeletionsAreFounded'
    BY DEF DeletionsAreFounded, TypeOK, PhasesByKind, BusyActorsHaveTargets,
        LockMatchesPhases, CleanersProgress, WorkNeedsRow, Doomed
  <2> QED BY <2>1, <2>2, <2>3, <2>4, <2>5
<1>8. CASE RunUnlocks(r)
  <2> USE <1>8 DEF IInv, RunUnlocks
  <2>1. TypeOK'
    BY DEF TypeOK, PhasesByKind, BusyActorsHaveTargets
  <2>2. PhasesByKind' /\ BusyActorsHaveTargets' /\ LockMatchesPhases' /\ LiveRunsAreRegistered'
    BY DEF PhasesByKind, BusyActorsHaveTargets, LockMatchesPhases,
        LiveRunsAreRegistered, TypeOK
  <2>3. ExecutingRunsOwnTheirRow' /\ RunsWorkUnsealed' /\ WorkNeedsRow'
    BY DEF ExecutingRunsOwnTheirRow, RunsWorkUnsealed, WorkNeedsRow, TypeOK,
        PhasesByKind, BusyActorsHaveTargets, LockMatchesPhases,
        CleanersProgress, Sealed, SandboxOpen
  <2>4. CleanersProgress' /\ GoneIsSealed' /\ NoOrphans'
    BY DEF CleanersProgress, GoneIsSealed, NoOrphans, TypeOK, PhasesByKind,
        BusyActorsHaveTargets, LockMatchesPhases, ExecutingRunsOwnTheirRow,
        RunsWorkUnsealed, WorkNeedsRow, Sealed, SandboxOpen
  <2>5. DeletionsAreFounded'
    BY DEF DeletionsAreFounded, TypeOK, PhasesByKind, BusyActorsHaveTargets,
        LockMatchesPhases, CleanersProgress, WorkNeedsRow, Doomed
  <2> QED BY <2>1, <2>2, <2>3, <2>4, <2>5
<1>9. CASE FinishRun(r)
  <2> USE <1>9 DEF IInv, FinishRun
  <2>1. TypeOK'
    BY DEF TypeOK, PhasesByKind, BusyActorsHaveTargets
  <2>2. PhasesByKind' /\ BusyActorsHaveTargets' /\ LockMatchesPhases' /\ LiveRunsAreRegistered'
    BY DEF PhasesByKind, BusyActorsHaveTargets, LockMatchesPhases,
        LiveRunsAreRegistered, TypeOK
  <2>3. ExecutingRunsOwnTheirRow' /\ RunsWorkUnsealed' /\ WorkNeedsRow'
    BY DEF ExecutingRunsOwnTheirRow, RunsWorkUnsealed, WorkNeedsRow, TypeOK,
        PhasesByKind, BusyActorsHaveTargets, LockMatchesPhases,
        CleanersProgress, Sealed, SandboxOpen
  <2>4. CleanersProgress' /\ GoneIsSealed' /\ NoOrphans'
    BY DEF CleanersProgress, GoneIsSealed, NoOrphans, TypeOK, PhasesByKind,
        BusyActorsHaveTargets, LockMatchesPhases, ExecutingRunsOwnTheirRow,
        RunsWorkUnsealed, WorkNeedsRow, Sealed, SandboxOpen
  <2>5. DeletionsAreFounded'
    BY DEF DeletionsAreFounded, TypeOK, PhasesByKind, BusyActorsHaveTargets,
        LockMatchesPhases, CleanersProgress, WorkNeedsRow, Doomed
  <2> QED BY <2>1, <2>2, <2>3, <2>4, <2>5
<1> QED BY <1>1, <1>2, <1>3, <1>4, <1>5, <1>6, <1>7, <1>8, <1>9 DEF RunStep

(* Starting and cancelling Runs, and what a streaming Run writes.          *)
LEMMA RunWorkInductive ==
    ASSUME IInv, NEW r \in Runs, RunWork(r) PROVE IInv'
<1>1. ASSUME NEW c \in Conversations, StartRun(r, c) PROVE IInv'
  <2> USE <1>1 DEF IInv, StartRun, RegistryFree
  <2>1. TypeOK'
    BY DEF TypeOK, PhasesByKind, BusyActorsHaveTargets
  <2>2. PhasesByKind' /\ BusyActorsHaveTargets' /\ LockMatchesPhases' /\ LiveRunsAreRegistered'
    BY DEF PhasesByKind, BusyActorsHaveTargets, LockMatchesPhases,
        LiveRunsAreRegistered, TypeOK
  <2>3. ExecutingRunsOwnTheirRow' /\ RunsWorkUnsealed' /\ WorkNeedsRow'
    BY DEF ExecutingRunsOwnTheirRow, RunsWorkUnsealed, WorkNeedsRow, TypeOK,
        PhasesByKind, BusyActorsHaveTargets, LockMatchesPhases,
        CleanersProgress, Sealed, SandboxOpen
  <2>4. CleanersProgress' /\ GoneIsSealed' /\ NoOrphans'
    BY DEF CleanersProgress, GoneIsSealed, NoOrphans, TypeOK, PhasesByKind,
        BusyActorsHaveTargets, LockMatchesPhases, ExecutingRunsOwnTheirRow,
        RunsWorkUnsealed, WorkNeedsRow, Sealed, SandboxOpen
  <2>5. DeletionsAreFounded'
    BY DEF DeletionsAreFounded, TypeOK, PhasesByKind, BusyActorsHaveTargets,
        LockMatchesPhases, CleanersProgress, WorkNeedsRow, Doomed
  <2> QED BY <2>1, <2>2, <2>3, <2>4, <2>5
<1>2. CASE WriteCheckpoint(r)
  <2> USE <1>2 DEF IInv, WriteCheckpoint
  <2>1. TypeOK'
    BY DEF TypeOK, PhasesByKind, BusyActorsHaveTargets
  <2>2. PhasesByKind' /\ BusyActorsHaveTargets' /\ LockMatchesPhases' /\ LiveRunsAreRegistered'
    BY DEF PhasesByKind, BusyActorsHaveTargets, LockMatchesPhases,
        LiveRunsAreRegistered, TypeOK
  <2>3. ExecutingRunsOwnTheirRow' /\ RunsWorkUnsealed' /\ WorkNeedsRow'
    BY DEF ExecutingRunsOwnTheirRow, RunsWorkUnsealed, WorkNeedsRow, TypeOK,
        PhasesByKind, BusyActorsHaveTargets, LockMatchesPhases,
        CleanersProgress, Sealed, SandboxOpen
  <2>4. CleanersProgress' /\ GoneIsSealed' /\ NoOrphans'
    BY DEF CleanersProgress, GoneIsSealed, NoOrphans, TypeOK, PhasesByKind,
        BusyActorsHaveTargets, LockMatchesPhases, ExecutingRunsOwnTheirRow,
        RunsWorkUnsealed, WorkNeedsRow, Sealed, SandboxOpen
  <2>5. DeletionsAreFounded'
    BY DEF DeletionsAreFounded, TypeOK, PhasesByKind, BusyActorsHaveTargets,
        LockMatchesPhases, CleanersProgress, WorkNeedsRow, Doomed
  <2> QED BY <2>1, <2>2, <2>3, <2>4, <2>5
<1>3. CASE WriteRecall(r)
  <2> USE <1>3 DEF IInv, WriteRecall
  <2>1. TypeOK'
    BY DEF TypeOK, PhasesByKind, BusyActorsHaveTargets
  <2>2. PhasesByKind' /\ BusyActorsHaveTargets' /\ LockMatchesPhases' /\ LiveRunsAreRegistered'
    BY DEF PhasesByKind, BusyActorsHaveTargets, LockMatchesPhases,
        LiveRunsAreRegistered, TypeOK
  <2>3. ExecutingRunsOwnTheirRow' /\ RunsWorkUnsealed' /\ WorkNeedsRow'
    BY DEF ExecutingRunsOwnTheirRow, RunsWorkUnsealed, WorkNeedsRow, TypeOK,
        PhasesByKind, BusyActorsHaveTargets, LockMatchesPhases,
        CleanersProgress, Sealed, SandboxOpen
  <2>4. CleanersProgress' /\ GoneIsSealed' /\ NoOrphans'
    BY DEF CleanersProgress, GoneIsSealed, NoOrphans, TypeOK, PhasesByKind,
        BusyActorsHaveTargets, LockMatchesPhases, ExecutingRunsOwnTheirRow,
        RunsWorkUnsealed, WorkNeedsRow, Sealed, SandboxOpen
  <2>5. DeletionsAreFounded'
    BY DEF DeletionsAreFounded, TypeOK, PhasesByKind, BusyActorsHaveTargets,
        LockMatchesPhases, CleanersProgress, WorkNeedsRow, Doomed
  <2> QED BY <2>1, <2>2, <2>3, <2>4, <2>5
<1>4. CASE StartJob(r)
  <2> USE <1>4 DEF IInv, StartJob
  <2>1. TypeOK'
    BY DEF TypeOK, PhasesByKind, BusyActorsHaveTargets
  <2>2. PhasesByKind' /\ BusyActorsHaveTargets' /\ LockMatchesPhases' /\ LiveRunsAreRegistered'
    BY DEF PhasesByKind, BusyActorsHaveTargets, LockMatchesPhases,
        LiveRunsAreRegistered, TypeOK
  <2>3. ExecutingRunsOwnTheirRow' /\ RunsWorkUnsealed' /\ WorkNeedsRow'
    BY DEF ExecutingRunsOwnTheirRow, RunsWorkUnsealed, WorkNeedsRow, TypeOK,
        PhasesByKind, BusyActorsHaveTargets, LockMatchesPhases,
        CleanersProgress, Sealed, SandboxOpen
  <2>4. CleanersProgress' /\ GoneIsSealed' /\ NoOrphans'
    BY DEF CleanersProgress, GoneIsSealed, NoOrphans, TypeOK, PhasesByKind,
        BusyActorsHaveTargets, LockMatchesPhases, ExecutingRunsOwnTheirRow,
        RunsWorkUnsealed, WorkNeedsRow, Sealed, SandboxOpen
  <2>5. DeletionsAreFounded'
    BY DEF DeletionsAreFounded, TypeOK, PhasesByKind, BusyActorsHaveTargets,
        LockMatchesPhases, CleanersProgress, WorkNeedsRow, Doomed
  <2> QED BY <2>1, <2>2, <2>3, <2>4, <2>5
<1>5. CASE TurnEnds(r)
  <2> USE <1>5 DEF IInv, TurnEnds
  <2>1. TypeOK'
    BY DEF TypeOK, PhasesByKind, BusyActorsHaveTargets
  <2>2. PhasesByKind' /\ BusyActorsHaveTargets' /\ LockMatchesPhases' /\ LiveRunsAreRegistered'
    BY DEF PhasesByKind, BusyActorsHaveTargets, LockMatchesPhases,
        LiveRunsAreRegistered, TypeOK
  <2>3. ExecutingRunsOwnTheirRow' /\ RunsWorkUnsealed' /\ WorkNeedsRow'
    BY DEF ExecutingRunsOwnTheirRow, RunsWorkUnsealed, WorkNeedsRow, TypeOK,
        PhasesByKind, BusyActorsHaveTargets, LockMatchesPhases,
        CleanersProgress, Sealed, SandboxOpen
  <2>4. CleanersProgress' /\ GoneIsSealed' /\ NoOrphans'
    BY DEF CleanersProgress, GoneIsSealed, NoOrphans, TypeOK, PhasesByKind,
        BusyActorsHaveTargets, LockMatchesPhases, ExecutingRunsOwnTheirRow,
        RunsWorkUnsealed, WorkNeedsRow, Sealed, SandboxOpen
  <2>5. DeletionsAreFounded'
    BY DEF DeletionsAreFounded, TypeOK, PhasesByKind, BusyActorsHaveTargets,
        LockMatchesPhases, CleanersProgress, WorkNeedsRow, Doomed
  <2> QED BY <2>1, <2>2, <2>3, <2>4, <2>5
<1>6. CASE CancelRun(r)
  <2> USE <1>6 DEF IInv, CancelRun
  <2>1. TypeOK'
    BY DEF TypeOK, PhasesByKind, BusyActorsHaveTargets
  <2>2. PhasesByKind' /\ BusyActorsHaveTargets' /\ LockMatchesPhases' /\ LiveRunsAreRegistered'
    BY DEF PhasesByKind, BusyActorsHaveTargets, LockMatchesPhases,
        LiveRunsAreRegistered, TypeOK
  <2>3. ExecutingRunsOwnTheirRow' /\ RunsWorkUnsealed' /\ WorkNeedsRow'
    BY DEF ExecutingRunsOwnTheirRow, RunsWorkUnsealed, WorkNeedsRow, TypeOK,
        PhasesByKind, BusyActorsHaveTargets, LockMatchesPhases,
        CleanersProgress, Sealed, SandboxOpen
  <2>4. CleanersProgress' /\ GoneIsSealed' /\ NoOrphans'
    BY DEF CleanersProgress, GoneIsSealed, NoOrphans, TypeOK, PhasesByKind,
        BusyActorsHaveTargets, LockMatchesPhases, ExecutingRunsOwnTheirRow,
        RunsWorkUnsealed, WorkNeedsRow, Sealed, SandboxOpen
  <2>5. DeletionsAreFounded'
    BY DEF DeletionsAreFounded, TypeOK, PhasesByKind, BusyActorsHaveTargets,
        LockMatchesPhases, CleanersProgress, WorkNeedsRow, Doomed
  <2> QED BY <2>1, <2>2, <2>3, <2>4, <2>5
<1> QED BY <1>1, <1>2, <1>3, <1>4, <1>5, <1>6 DEF RunWork

(* Sandbox work that outlives its Run writes only while the sandbox is open. *)
LEMMA JobInductive ==
    ASSUME IInv, NEW p \in Processes, NEW c \in Conversations,
           JobWritesFiles(p, c) \/ EndJob(p, c) PROVE IInv'
<1>1. CASE JobWritesFiles(p, c)
  <2> USE <1>1 DEF IInv, JobWritesFiles
  <2>1. TypeOK'
    BY DEF TypeOK, PhasesByKind, BusyActorsHaveTargets
  <2>2. PhasesByKind' /\ BusyActorsHaveTargets' /\ LockMatchesPhases' /\ LiveRunsAreRegistered'
    BY DEF PhasesByKind, BusyActorsHaveTargets, LockMatchesPhases,
        LiveRunsAreRegistered, TypeOK
  <2>3. ExecutingRunsOwnTheirRow' /\ RunsWorkUnsealed' /\ WorkNeedsRow'
    BY DEF ExecutingRunsOwnTheirRow, RunsWorkUnsealed, WorkNeedsRow, TypeOK,
        PhasesByKind, BusyActorsHaveTargets, LockMatchesPhases,
        CleanersProgress, Sealed, SandboxOpen
  <2>4. CleanersProgress' /\ GoneIsSealed' /\ NoOrphans'
    BY DEF CleanersProgress, GoneIsSealed, NoOrphans, TypeOK, PhasesByKind,
        BusyActorsHaveTargets, LockMatchesPhases, ExecutingRunsOwnTheirRow,
        RunsWorkUnsealed, WorkNeedsRow, Sealed, SandboxOpen
  <2>5. DeletionsAreFounded'
    BY DEF DeletionsAreFounded, TypeOK, PhasesByKind, BusyActorsHaveTargets,
        LockMatchesPhases, CleanersProgress, WorkNeedsRow, Doomed
  <2> QED BY <2>1, <2>2, <2>3, <2>4, <2>5
<1>2. CASE EndJob(p, c)
  <2> USE <1>2 DEF IInv, EndJob
  <2>1. TypeOK'
    BY DEF TypeOK, PhasesByKind, BusyActorsHaveTargets
  <2>2. PhasesByKind' /\ BusyActorsHaveTargets' /\ LockMatchesPhases' /\ LiveRunsAreRegistered'
    BY DEF PhasesByKind, BusyActorsHaveTargets, LockMatchesPhases,
        LiveRunsAreRegistered, TypeOK
  <2>3. ExecutingRunsOwnTheirRow' /\ RunsWorkUnsealed' /\ WorkNeedsRow'
    BY DEF ExecutingRunsOwnTheirRow, RunsWorkUnsealed, WorkNeedsRow, TypeOK,
        PhasesByKind, BusyActorsHaveTargets, LockMatchesPhases,
        CleanersProgress, Sealed, SandboxOpen
  <2>4. CleanersProgress' /\ GoneIsSealed' /\ NoOrphans'
    BY DEF CleanersProgress, GoneIsSealed, NoOrphans, TypeOK, PhasesByKind,
        BusyActorsHaveTargets, LockMatchesPhases, ExecutingRunsOwnTheirRow,
        RunsWorkUnsealed, WorkNeedsRow, Sealed, SandboxOpen
  <2>5. DeletionsAreFounded'
    BY DEF DeletionsAreFounded, TypeOK, PhasesByKind, BusyActorsHaveTargets,
        LockMatchesPhases, CleanersProgress, WorkNeedsRow, Doomed
  <2> QED BY <2>1, <2>2, <2>3, <2>4, <2>5
<1> QED BY <1>1, <1>2 DEF IInv

(* Deletion requests.                                                      *)
LEMMA RequestInductive ==
    ASSUME IInv, NEW q \in Requests,
           RequestStep(q) \/ \E c \in Conversations : RequestDeletion(q, c) PROVE IInv'
<1>1. ASSUME NEW c \in Conversations, RequestDeletion(q, c) PROVE IInv'
  <2> USE <1>1 DEF IInv, RequestDeletion, MayDelete
  <2>1. TypeOK'
    BY DEF TypeOK, PhasesByKind, BusyActorsHaveTargets
  <2>2. PhasesByKind' /\ BusyActorsHaveTargets' /\ LockMatchesPhases' /\ LiveRunsAreRegistered'
    BY DEF PhasesByKind, BusyActorsHaveTargets, LockMatchesPhases,
        LiveRunsAreRegistered, TypeOK
  <2>3. ExecutingRunsOwnTheirRow' /\ RunsWorkUnsealed' /\ WorkNeedsRow'
    BY DEF ExecutingRunsOwnTheirRow, RunsWorkUnsealed, WorkNeedsRow, TypeOK,
        PhasesByKind, BusyActorsHaveTargets, LockMatchesPhases,
        CleanersProgress, Sealed, SandboxOpen
  <2>4. CleanersProgress' /\ GoneIsSealed' /\ NoOrphans'
    BY DEF CleanersProgress, GoneIsSealed, NoOrphans, TypeOK, PhasesByKind,
        BusyActorsHaveTargets, LockMatchesPhases, ExecutingRunsOwnTheirRow,
        RunsWorkUnsealed, WorkNeedsRow, Sealed, SandboxOpen
  <2>5. DeletionsAreFounded'
    BY DEF DeletionsAreFounded, TypeOK, PhasesByKind, BusyActorsHaveTargets,
        LockMatchesPhases, CleanersProgress, WorkNeedsRow, Doomed
  <2> QED BY <2>1, <2>2, <2>3, <2>4, <2>5
<1>2. CASE RequestStops(q)
  <2> USE <1>2 DEF IInv, RequestStops, RegistryFree
  <2>1. TypeOK'
    <3>1. /\ lock' \in [Conversations -> Actors \cup {None}]
          /\ target' \in [Actors -> Conversations \cup {None}]
      BY DEF TypeOK
    <3>2. pc' \in [Actors -> Phases]
      BY DEF TypeOK
    <3>3. /\ target[q] \in Conversations /\ Home[q] \in Processes
          /\ ~RegistryFree(Home[q], target[q]) => registry[Home[q]][target[q]] \in Runs
      BY DEF TypeOK, BusyActorsHaveTargets
    <3>4. /\ registry' \in [Processes -> [Conversations -> Runs \cup {None}]]
          /\ cancelled' \subseteq Runs /\ awaits' \in [Requests -> Runs \cup {None}]
      BY <3>3 DEF TypeOK
    <3> QED BY <3>1, <3>2, <3>4 DEF TypeOK
  <2>2. PhasesByKind' /\ BusyActorsHaveTargets' /\ LockMatchesPhases' /\ LiveRunsAreRegistered'
    BY DEF PhasesByKind, BusyActorsHaveTargets, LockMatchesPhases,
        LiveRunsAreRegistered, TypeOK
  <2>3. ExecutingRunsOwnTheirRow' /\ RunsWorkUnsealed' /\ WorkNeedsRow'
    BY DEF ExecutingRunsOwnTheirRow, RunsWorkUnsealed, WorkNeedsRow, TypeOK,
        PhasesByKind, BusyActorsHaveTargets, LockMatchesPhases,
        CleanersProgress, Sealed, SandboxOpen
  <2>4. CleanersProgress' /\ GoneIsSealed' /\ NoOrphans'
    BY DEF CleanersProgress, GoneIsSealed, NoOrphans, TypeOK, PhasesByKind,
        BusyActorsHaveTargets, LockMatchesPhases, ExecutingRunsOwnTheirRow,
        RunsWorkUnsealed, WorkNeedsRow, Sealed, SandboxOpen
  <2>5. DeletionsAreFounded'
    BY DEF DeletionsAreFounded, TypeOK, PhasesByKind, BusyActorsHaveTargets,
        LockMatchesPhases, CleanersProgress, WorkNeedsRow, Doomed
  <2> QED BY <2>1, <2>2, <2>3, <2>4, <2>5
<1>3. CASE RequestLocks(q)
  <2> USE <1>3 DEF IInv, RequestLocks
  <2>1. TypeOK'
    <3>1. /\ lock' \in [Conversations -> Actors \cup {None}]
          /\ target' \in [Actors -> Conversations \cup {None}]
      BY DEF TypeOK
    <3>2. pc' \in [Actors -> Phases]
      BY DEF TypeOK
    <3>3. /\ registry' \in [Processes -> [Conversations -> Runs \cup {None}]]
          /\ cancelled' \subseteq Runs /\ awaits' \in [Requests -> Runs \cup {None}]
      BY DEF TypeOK, PhasesByKind, BusyActorsHaveTargets
    <3> QED BY <3>1, <3>2, <3>3 DEF TypeOK
  <2>2. PhasesByKind' /\ BusyActorsHaveTargets' /\ LockMatchesPhases' /\ LiveRunsAreRegistered'
    BY DEF PhasesByKind, BusyActorsHaveTargets, LockMatchesPhases,
        LiveRunsAreRegistered, TypeOK
  <2>3. ExecutingRunsOwnTheirRow' /\ RunsWorkUnsealed' /\ WorkNeedsRow'
    BY DEF ExecutingRunsOwnTheirRow, RunsWorkUnsealed, WorkNeedsRow, TypeOK,
        PhasesByKind, BusyActorsHaveTargets, LockMatchesPhases,
        CleanersProgress, Sealed, SandboxOpen
  <2>4. CleanersProgress' /\ GoneIsSealed' /\ NoOrphans'
    BY DEF CleanersProgress, GoneIsSealed, NoOrphans, TypeOK, PhasesByKind,
        BusyActorsHaveTargets, LockMatchesPhases, ExecutingRunsOwnTheirRow,
        RunsWorkUnsealed, WorkNeedsRow, Sealed, SandboxOpen
  <2>5. DeletionsAreFounded'
    BY DEF DeletionsAreFounded, TypeOK, PhasesByKind, BusyActorsHaveTargets,
        LockMatchesPhases, CleanersProgress, WorkNeedsRow, Doomed
  <2> QED BY <2>1, <2>2, <2>3, <2>4, <2>5
<1>4. CASE RequestBusy(q)
  <2> USE <1>4 DEF IInv, RequestBusy
  <2>1. TypeOK'
    BY DEF TypeOK, PhasesByKind, BusyActorsHaveTargets
  <2>2. PhasesByKind' /\ BusyActorsHaveTargets' /\ LockMatchesPhases' /\ LiveRunsAreRegistered'
    BY DEF PhasesByKind, BusyActorsHaveTargets, LockMatchesPhases,
        LiveRunsAreRegistered, TypeOK
  <2>3. ExecutingRunsOwnTheirRow' /\ RunsWorkUnsealed' /\ WorkNeedsRow'
    BY DEF ExecutingRunsOwnTheirRow, RunsWorkUnsealed, WorkNeedsRow, TypeOK,
        PhasesByKind, BusyActorsHaveTargets, LockMatchesPhases,
        CleanersProgress, Sealed, SandboxOpen
  <2>4. CleanersProgress' /\ GoneIsSealed' /\ NoOrphans'
    BY DEF CleanersProgress, GoneIsSealed, NoOrphans, TypeOK, PhasesByKind,
        BusyActorsHaveTargets, LockMatchesPhases, ExecutingRunsOwnTheirRow,
        RunsWorkUnsealed, WorkNeedsRow, Sealed, SandboxOpen
  <2>5. DeletionsAreFounded'
    BY DEF DeletionsAreFounded, TypeOK, PhasesByKind, BusyActorsHaveTargets,
        LockMatchesPhases, CleanersProgress, WorkNeedsRow, Doomed
  <2> QED BY <2>1, <2>2, <2>3, <2>4, <2>5
<1>5. CASE RequestMarks(q)
  <2> USE <1>5 DEF IInv, RequestMarks, MayDelete
  <2>1. TypeOK'
    <3>1. /\ lock' \in [Conversations -> Actors \cup {None}]
          /\ target' \in [Actors -> Conversations \cup {None}]
      BY DEF TypeOK
    <3>2. pc' \in [Actors -> Phases]
      BY DEF TypeOK
    <3>3. /\ registry' \in [Processes -> [Conversations -> Runs \cup {None}]]
          /\ cancelled' \subseteq Runs /\ awaits' \in [Requests -> Runs \cup {None}]
      BY DEF TypeOK, PhasesByKind, BusyActorsHaveTargets
    <3> QED BY <3>1, <3>2, <3>3 DEF TypeOK
  <2>2. PhasesByKind' /\ BusyActorsHaveTargets' /\ LockMatchesPhases' /\ LiveRunsAreRegistered'
    BY DEF PhasesByKind, BusyActorsHaveTargets, LockMatchesPhases,
        LiveRunsAreRegistered, TypeOK
  <2>3. ExecutingRunsOwnTheirRow' /\ RunsWorkUnsealed' /\ WorkNeedsRow'
    BY DEF ExecutingRunsOwnTheirRow, RunsWorkUnsealed, WorkNeedsRow, TypeOK,
        PhasesByKind, BusyActorsHaveTargets, LockMatchesPhases,
        CleanersProgress, Sealed, SandboxOpen
  <2>4. CleanersProgress' /\ GoneIsSealed' /\ NoOrphans'
    BY DEF CleanersProgress, GoneIsSealed, NoOrphans, TypeOK, PhasesByKind,
        BusyActorsHaveTargets, LockMatchesPhases, ExecutingRunsOwnTheirRow,
        RunsWorkUnsealed, WorkNeedsRow, Sealed, SandboxOpen
  <2>5. DeletionsAreFounded'
    BY DEF DeletionsAreFounded, TypeOK, PhasesByKind, BusyActorsHaveTargets,
        LockMatchesPhases, CleanersProgress, WorkNeedsRow, Doomed
  <2> QED BY <2>1, <2>2, <2>3, <2>4, <2>5
<1> QED BY <1>1, <1>2, <1>3, <1>4, <1>5 DEF RequestStep

(* Attachment uploads.                                                     *)
LEMMA UploadInductive ==
    ASSUME IInv, NEW u \in Uploads,
           UploadStep(u) \/ \E c \in Conversations : UploadLocks(u, c) PROVE IInv'
<1>1. ASSUME NEW c \in Conversations, UploadLocks(u, c) PROVE IInv'
  <2> USE <1>1 DEF IInv, UploadLocks
  <2>1. TypeOK'
    BY DEF TypeOK, PhasesByKind, BusyActorsHaveTargets
  <2>2. PhasesByKind' /\ BusyActorsHaveTargets' /\ LockMatchesPhases' /\ LiveRunsAreRegistered'
    BY DEF PhasesByKind, BusyActorsHaveTargets, LockMatchesPhases,
        LiveRunsAreRegistered, TypeOK
  <2>3. ExecutingRunsOwnTheirRow' /\ RunsWorkUnsealed' /\ WorkNeedsRow'
    BY DEF ExecutingRunsOwnTheirRow, RunsWorkUnsealed, WorkNeedsRow, TypeOK,
        PhasesByKind, BusyActorsHaveTargets, LockMatchesPhases,
        CleanersProgress, Sealed, SandboxOpen
  <2>4. CleanersProgress' /\ GoneIsSealed' /\ NoOrphans'
    BY DEF CleanersProgress, GoneIsSealed, NoOrphans, TypeOK, PhasesByKind,
        BusyActorsHaveTargets, LockMatchesPhases, ExecutingRunsOwnTheirRow,
        RunsWorkUnsealed, WorkNeedsRow, Sealed, SandboxOpen
  <2>5. DeletionsAreFounded'
    BY DEF DeletionsAreFounded, TypeOK, PhasesByKind, BusyActorsHaveTargets,
        LockMatchesPhases, CleanersProgress, WorkNeedsRow, Doomed
  <2> QED BY <2>1, <2>2, <2>3, <2>4, <2>5
<1>2. CASE UploadChecks(u)
  <2> USE <1>2 DEF IInv, UploadChecks
  <2>1. TypeOK'
    BY DEF TypeOK, PhasesByKind, BusyActorsHaveTargets
  <2>2. PhasesByKind' /\ BusyActorsHaveTargets' /\ LockMatchesPhases' /\ LiveRunsAreRegistered'
    BY DEF PhasesByKind, BusyActorsHaveTargets, LockMatchesPhases,
        LiveRunsAreRegistered, TypeOK
  <2>3. ExecutingRunsOwnTheirRow' /\ RunsWorkUnsealed' /\ WorkNeedsRow'
    BY DEF ExecutingRunsOwnTheirRow, RunsWorkUnsealed, WorkNeedsRow, TypeOK,
        PhasesByKind, BusyActorsHaveTargets, LockMatchesPhases,
        CleanersProgress, Sealed, SandboxOpen
  <2>4. CleanersProgress' /\ GoneIsSealed' /\ NoOrphans'
    BY DEF CleanersProgress, GoneIsSealed, NoOrphans, TypeOK, PhasesByKind,
        BusyActorsHaveTargets, LockMatchesPhases, ExecutingRunsOwnTheirRow,
        RunsWorkUnsealed, WorkNeedsRow, Sealed, SandboxOpen
  <2>5. DeletionsAreFounded'
    BY DEF DeletionsAreFounded, TypeOK, PhasesByKind, BusyActorsHaveTargets,
        LockMatchesPhases, CleanersProgress, WorkNeedsRow, Doomed
  <2> QED BY <2>1, <2>2, <2>3, <2>4, <2>5
<1>3. CASE UploadRefused(u)
  <2> USE <1>3 DEF IInv, UploadRefused
  <2>1. TypeOK'
    <3>1. /\ lock' \in [Conversations -> Actors \cup {None}]
          /\ target' \in [Actors -> Conversations \cup {None}]
      BY DEF TypeOK
    <3>2. pc' \in [Actors -> Phases]
      BY DEF TypeOK
    <3>3. /\ registry' \in [Processes -> [Conversations -> Runs \cup {None}]]
          /\ cancelled' \subseteq Runs /\ awaits' \in [Requests -> Runs \cup {None}]
      BY DEF TypeOK, PhasesByKind, BusyActorsHaveTargets
    <3> QED BY <3>1, <3>2, <3>3 DEF TypeOK
  <2>2. PhasesByKind' /\ BusyActorsHaveTargets' /\ LockMatchesPhases' /\ LiveRunsAreRegistered'
    BY DEF PhasesByKind, BusyActorsHaveTargets, LockMatchesPhases,
        LiveRunsAreRegistered, TypeOK
  <2>3. ExecutingRunsOwnTheirRow' /\ RunsWorkUnsealed' /\ WorkNeedsRow'
    BY DEF ExecutingRunsOwnTheirRow, RunsWorkUnsealed, WorkNeedsRow, TypeOK,
        PhasesByKind, BusyActorsHaveTargets, LockMatchesPhases,
        CleanersProgress, Sealed, SandboxOpen
  <2>4. CleanersProgress' /\ GoneIsSealed' /\ NoOrphans'
    BY DEF CleanersProgress, GoneIsSealed, NoOrphans, TypeOK, PhasesByKind,
        BusyActorsHaveTargets, LockMatchesPhases, ExecutingRunsOwnTheirRow,
        RunsWorkUnsealed, WorkNeedsRow, Sealed, SandboxOpen
  <2>5. DeletionsAreFounded'
    BY DEF DeletionsAreFounded, TypeOK, PhasesByKind, BusyActorsHaveTargets,
        LockMatchesPhases, CleanersProgress, WorkNeedsRow, Doomed
  <2> QED BY <2>1, <2>2, <2>3, <2>4, <2>5
<1>4. CASE UploadWrites(u)
  <2> USE <1>4 DEF IInv, UploadWrites
  <2>1. target[u] \in Conversations
    BY DEF BusyActorsHaveTargets
  <2>2. TypeOK'
    BY <2>1 DEF TypeOK, PhasesByKind
  <2>3. PhasesByKind' /\ BusyActorsHaveTargets' /\ LockMatchesPhases' /\ LiveRunsAreRegistered'
    BY DEF PhasesByKind, BusyActorsHaveTargets, LockMatchesPhases,
        LiveRunsAreRegistered, TypeOK
  <2>4. ExecutingRunsOwnTheirRow' /\ RunsWorkUnsealed' /\ WorkNeedsRow'
    BY DEF ExecutingRunsOwnTheirRow, RunsWorkUnsealed, WorkNeedsRow, TypeOK,
        PhasesByKind, BusyActorsHaveTargets, LockMatchesPhases,
        CleanersProgress, Sealed, SandboxOpen
  <2>5. CleanersProgress' /\ GoneIsSealed' /\ NoOrphans'
    BY DEF CleanersProgress, GoneIsSealed, NoOrphans, TypeOK, PhasesByKind,
        BusyActorsHaveTargets, LockMatchesPhases, ExecutingRunsOwnTheirRow,
        RunsWorkUnsealed, WorkNeedsRow, Sealed, SandboxOpen
  <2>6. DeletionsAreFounded'
    BY DEF DeletionsAreFounded, TypeOK, PhasesByKind, BusyActorsHaveTargets,
        LockMatchesPhases, CleanersProgress, WorkNeedsRow, Doomed
  <2> QED BY <2>2, <2>3, <2>4, <2>5, <2>6
<1> QED BY <1>1, <1>2, <1>3, <1>4 DEF UploadStep

(* A Cleaner working through its list and through one deletion.            *)
LEMMA CleanerStepInductive ==
    ASSUME IInv, NEW k \in Cleaners, CleanerStep(k) PROVE IInv'
<1>1. CASE ListExpired(k)
  <2> USE <1>1 DEF IInv, ListExpired, ExpiredDrafts
  <2>1. TypeOK'
    BY DEF TypeOK, PhasesByKind, BusyActorsHaveTargets
  <2>2. PhasesByKind' /\ BusyActorsHaveTargets' /\ LockMatchesPhases' /\ LiveRunsAreRegistered'
    BY DEF PhasesByKind, BusyActorsHaveTargets, LockMatchesPhases,
        LiveRunsAreRegistered, TypeOK
  <2>3. ExecutingRunsOwnTheirRow' /\ RunsWorkUnsealed' /\ WorkNeedsRow'
    BY DEF ExecutingRunsOwnTheirRow, RunsWorkUnsealed, WorkNeedsRow, TypeOK,
        PhasesByKind, BusyActorsHaveTargets, LockMatchesPhases,
        CleanersProgress, Sealed, SandboxOpen
  <2>4. CleanersProgress' /\ GoneIsSealed' /\ NoOrphans'
    BY DEF CleanersProgress, GoneIsSealed, NoOrphans, TypeOK, PhasesByKind,
        BusyActorsHaveTargets, LockMatchesPhases, ExecutingRunsOwnTheirRow,
        RunsWorkUnsealed, WorkNeedsRow, Sealed, SandboxOpen
  <2>5. DeletionsAreFounded'
    BY DEF DeletionsAreFounded, TypeOK, PhasesByKind, BusyActorsHaveTargets,
        LockMatchesPhases, CleanersProgress, WorkNeedsRow, Doomed
  <2> QED BY <2>1, <2>2, <2>3, <2>4, <2>5
<1>2. CASE EndBatch(k)
  <2> USE <1>2 DEF IInv, EndBatch
  <2>1. TypeOK'
    BY DEF TypeOK, PhasesByKind, BusyActorsHaveTargets
  <2>2. PhasesByKind' /\ BusyActorsHaveTargets' /\ LockMatchesPhases' /\ LiveRunsAreRegistered'
    BY DEF PhasesByKind, BusyActorsHaveTargets, LockMatchesPhases,
        LiveRunsAreRegistered, TypeOK
  <2>3. ExecutingRunsOwnTheirRow' /\ RunsWorkUnsealed' /\ WorkNeedsRow'
    BY DEF ExecutingRunsOwnTheirRow, RunsWorkUnsealed, WorkNeedsRow, TypeOK,
        PhasesByKind, BusyActorsHaveTargets, LockMatchesPhases,
        CleanersProgress, Sealed, SandboxOpen
  <2>4. CleanersProgress' /\ GoneIsSealed' /\ NoOrphans'
    BY DEF CleanersProgress, GoneIsSealed, NoOrphans, TypeOK, PhasesByKind,
        BusyActorsHaveTargets, LockMatchesPhases, ExecutingRunsOwnTheirRow,
        RunsWorkUnsealed, WorkNeedsRow, Sealed, SandboxOpen
  <2>5. DeletionsAreFounded'
    BY DEF DeletionsAreFounded, TypeOK, PhasesByKind, BusyActorsHaveTargets,
        LockMatchesPhases, CleanersProgress, WorkNeedsRow, Doomed
  <2> QED BY <2>1, <2>2, <2>3, <2>4, <2>5
<1>3. CASE CleanerBusy(k)
  <2> USE <1>3 DEF IInv, CleanerBusy, Raises
  <2>1. TypeOK'
    BY DEF TypeOK, PhasesByKind, BusyActorsHaveTargets
  <2>2. PhasesByKind' /\ BusyActorsHaveTargets' /\ LockMatchesPhases' /\ LiveRunsAreRegistered'
    BY DEF PhasesByKind, BusyActorsHaveTargets, LockMatchesPhases,
        LiveRunsAreRegistered, TypeOK
  <2>3. ExecutingRunsOwnTheirRow' /\ RunsWorkUnsealed' /\ WorkNeedsRow'
    BY DEF ExecutingRunsOwnTheirRow, RunsWorkUnsealed, WorkNeedsRow, TypeOK,
        PhasesByKind, BusyActorsHaveTargets, LockMatchesPhases,
        CleanersProgress, Sealed, SandboxOpen
  <2>4. CleanersProgress' /\ GoneIsSealed' /\ NoOrphans'
    BY DEF CleanersProgress, GoneIsSealed, NoOrphans, TypeOK, PhasesByKind,
        BusyActorsHaveTargets, LockMatchesPhases, ExecutingRunsOwnTheirRow,
        RunsWorkUnsealed, WorkNeedsRow, Sealed, SandboxOpen
  <2>5. DeletionsAreFounded'
    BY DEF DeletionsAreFounded, TypeOK, PhasesByKind, BusyActorsHaveTargets,
        LockMatchesPhases, CleanersProgress, WorkNeedsRow, Doomed
  <2> QED BY <2>1, <2>2, <2>3, <2>4, <2>5
<1>4. ASSUME NEW c \in Conversations, NextOfBatch(k, c) PROVE IInv'
  <2> USE <1>4 DEF IInv, NextOfBatch
  <2>1. TypeOK'
    BY DEF TypeOK, PhasesByKind, BusyActorsHaveTargets
  <2>2. PhasesByKind' /\ BusyActorsHaveTargets' /\ LockMatchesPhases' /\ LiveRunsAreRegistered'
    BY DEF PhasesByKind, BusyActorsHaveTargets, LockMatchesPhases,
        LiveRunsAreRegistered, TypeOK
  <2>3. ExecutingRunsOwnTheirRow' /\ RunsWorkUnsealed' /\ WorkNeedsRow'
    BY DEF ExecutingRunsOwnTheirRow, RunsWorkUnsealed, WorkNeedsRow, TypeOK,
        PhasesByKind, BusyActorsHaveTargets, LockMatchesPhases,
        CleanersProgress, Sealed, SandboxOpen
  <2>4. CleanersProgress' /\ GoneIsSealed' /\ NoOrphans'
    BY DEF CleanersProgress, GoneIsSealed, NoOrphans, TypeOK, PhasesByKind,
        BusyActorsHaveTargets, LockMatchesPhases, ExecutingRunsOwnTheirRow,
        RunsWorkUnsealed, WorkNeedsRow, Sealed, SandboxOpen
  <2>5. Doomed' = Doomed
    BY DEF Doomed
  <2>6. DeletionsAreFounded'
    BY <2>5 DEF DeletionsAreFounded, TypeOK, PhasesByKind
  <2> QED BY <2>1, <2>2, <2>3, <2>4, <2>6
<1>5. CASE CleanerProceeds(k)
  <2> USE <1>5 DEF IInv, CleanerProceeds, Eligible
  <2>1. TypeOK'
    BY DEF TypeOK, PhasesByKind, BusyActorsHaveTargets
  <2>2. PhasesByKind' /\ BusyActorsHaveTargets' /\ LockMatchesPhases' /\ LiveRunsAreRegistered'
    BY DEF PhasesByKind, BusyActorsHaveTargets, LockMatchesPhases,
        LiveRunsAreRegistered, TypeOK
  <2>3. ExecutingRunsOwnTheirRow' /\ RunsWorkUnsealed' /\ WorkNeedsRow'
    BY DEF ExecutingRunsOwnTheirRow, RunsWorkUnsealed, WorkNeedsRow, TypeOK,
        PhasesByKind, BusyActorsHaveTargets, LockMatchesPhases,
        CleanersProgress, Sealed, SandboxOpen
  <2>4. CleanersProgress' /\ GoneIsSealed' /\ NoOrphans'
    BY DEF CleanersProgress, GoneIsSealed, NoOrphans, TypeOK, PhasesByKind,
        BusyActorsHaveTargets, LockMatchesPhases, ExecutingRunsOwnTheirRow,
        RunsWorkUnsealed, WorkNeedsRow, Sealed, SandboxOpen
  <2>5. DeletionsAreFounded'
    BY DEF DeletionsAreFounded, TypeOK, PhasesByKind, BusyActorsHaveTargets,
        LockMatchesPhases, CleanersProgress, WorkNeedsRow, Doomed
  <2> QED BY <2>1, <2>2, <2>3, <2>4, <2>5
<1>6. CASE CleanerSkips(k)
  <2> USE <1>6 DEF IInv, CleanerSkips, Eligible, Returns
  <2>1. TypeOK'
    <3>1. /\ lock' \in [Conversations -> Actors \cup {None}]
          /\ target' \in [Actors -> Conversations \cup {None}]
      BY DEF TypeOK
    <3>2. pc' \in [Actors -> Phases]
      BY DEF TypeOK
    <3>3. /\ registry' \in [Processes -> [Conversations -> Runs \cup {None}]]
          /\ cancelled' \subseteq Runs /\ awaits' \in [Requests -> Runs \cup {None}]
      BY DEF TypeOK, PhasesByKind, BusyActorsHaveTargets
    <3> QED BY <3>1, <3>2, <3>3 DEF TypeOK
  <2>2. PhasesByKind' /\ BusyActorsHaveTargets' /\ LockMatchesPhases' /\ LiveRunsAreRegistered'
    BY DEF PhasesByKind, BusyActorsHaveTargets, LockMatchesPhases,
        LiveRunsAreRegistered, TypeOK
  <2>3. ExecutingRunsOwnTheirRow' /\ RunsWorkUnsealed' /\ WorkNeedsRow'
    BY DEF ExecutingRunsOwnTheirRow, RunsWorkUnsealed, WorkNeedsRow, TypeOK,
        PhasesByKind, BusyActorsHaveTargets, LockMatchesPhases,
        CleanersProgress, Sealed, SandboxOpen
  <2>4. CleanersProgress' /\ GoneIsSealed' /\ NoOrphans'
    BY DEF CleanersProgress, GoneIsSealed, NoOrphans, TypeOK, PhasesByKind,
        BusyActorsHaveTargets, LockMatchesPhases, ExecutingRunsOwnTheirRow,
        RunsWorkUnsealed, WorkNeedsRow, Sealed, SandboxOpen
  <2>5. DeletionsAreFounded'
    BY DEF DeletionsAreFounded, TypeOK, PhasesByKind, BusyActorsHaveTargets,
        LockMatchesPhases, CleanersProgress, WorkNeedsRow, Doomed
  <2> QED BY <2>1, <2>2, <2>3, <2>4, <2>5
<1>7. CASE SaveTombstone(k)
  <2> USE <1>7 DEF IInv, SaveTombstone
  <2>1. TypeOK'
    BY DEF TypeOK, PhasesByKind, BusyActorsHaveTargets
  <2>2. PhasesByKind' /\ BusyActorsHaveTargets' /\ LockMatchesPhases' /\ LiveRunsAreRegistered'
    BY DEF PhasesByKind, BusyActorsHaveTargets, LockMatchesPhases,
        LiveRunsAreRegistered, TypeOK
  <2>3. ExecutingRunsOwnTheirRow' /\ RunsWorkUnsealed'
    BY DEF ExecutingRunsOwnTheirRow, RunsWorkUnsealed, TypeOK, PhasesByKind,
        BusyActorsHaveTargets, LockMatchesPhases, Sealed
  <2>4. WorkNeedsRow'
    BY DEF WorkNeedsRow, TypeOK, PhasesByKind, BusyActorsHaveTargets,
        SandboxOpen
  <2>5. CleanersProgress' /\ GoneIsSealed' /\ NoOrphans'
    BY DEF CleanersProgress, GoneIsSealed, NoOrphans, TypeOK, PhasesByKind,
        BusyActorsHaveTargets, LockMatchesPhases, ExecutingRunsOwnTheirRow,
        RunsWorkUnsealed, WorkNeedsRow, Sealed, SandboxOpen
  <2>6. DeletionsAreFounded'
    BY DEF DeletionsAreFounded, TypeOK, PhasesByKind, BusyActorsHaveTargets,
        LockMatchesPhases, CleanersProgress, WorkNeedsRow, Doomed
  <2> QED BY <2>1, <2>2, <2>3, <2>4, <2>5, <2>6
<1>8. CASE DropCheckpoint(k)
  <2> USE <1>8 DEF IInv, DropCheckpoint, DropStore
  <2>1. TypeOK'
    BY DEF TypeOK, PhasesByKind, BusyActorsHaveTargets
  <2>2. PhasesByKind' /\ BusyActorsHaveTargets' /\ LockMatchesPhases' /\ LiveRunsAreRegistered'
    BY DEF PhasesByKind, BusyActorsHaveTargets, LockMatchesPhases,
        LiveRunsAreRegistered, TypeOK
  <2>3. ExecutingRunsOwnTheirRow' /\ RunsWorkUnsealed' /\ WorkNeedsRow'
    BY DEF ExecutingRunsOwnTheirRow, RunsWorkUnsealed, WorkNeedsRow, TypeOK,
        PhasesByKind, BusyActorsHaveTargets, LockMatchesPhases,
        CleanersProgress, Sealed, SandboxOpen
  <2>4. CleanersProgress' /\ GoneIsSealed' /\ NoOrphans'
    BY DEF CleanersProgress, GoneIsSealed, NoOrphans, TypeOK, PhasesByKind,
        BusyActorsHaveTargets, LockMatchesPhases, ExecutingRunsOwnTheirRow,
        RunsWorkUnsealed, WorkNeedsRow, Sealed, SandboxOpen
  <2>5. DeletionsAreFounded'
    BY DEF DeletionsAreFounded, TypeOK, PhasesByKind, BusyActorsHaveTargets,
        LockMatchesPhases, CleanersProgress, WorkNeedsRow, Doomed
  <2> QED BY <2>1, <2>2, <2>3, <2>4, <2>5
<1>9. CASE DropRecall(k)
  <2> USE <1>9 DEF IInv, DropRecall, DropStore
  <2>1. TypeOK'
    BY DEF TypeOK, PhasesByKind, BusyActorsHaveTargets
  <2>2. PhasesByKind' /\ BusyActorsHaveTargets' /\ LockMatchesPhases' /\ LiveRunsAreRegistered'
    BY DEF PhasesByKind, BusyActorsHaveTargets, LockMatchesPhases,
        LiveRunsAreRegistered, TypeOK
  <2>3. ExecutingRunsOwnTheirRow' /\ RunsWorkUnsealed' /\ WorkNeedsRow'
    BY DEF ExecutingRunsOwnTheirRow, RunsWorkUnsealed, WorkNeedsRow, TypeOK,
        PhasesByKind, BusyActorsHaveTargets, LockMatchesPhases,
        CleanersProgress, Sealed, SandboxOpen
  <2>4. CleanersProgress' /\ GoneIsSealed' /\ NoOrphans'
    BY DEF CleanersProgress, GoneIsSealed, NoOrphans, TypeOK, PhasesByKind,
        BusyActorsHaveTargets, LockMatchesPhases, ExecutingRunsOwnTheirRow,
        RunsWorkUnsealed, WorkNeedsRow, Sealed, SandboxOpen
  <2>5. DeletionsAreFounded'
    BY DEF DeletionsAreFounded, TypeOK, PhasesByKind, BusyActorsHaveTargets,
        LockMatchesPhases, CleanersProgress, WorkNeedsRow, Doomed
  <2> QED BY <2>1, <2>2, <2>3, <2>4, <2>5
<1>10. CASE SealFiles(k)
  <2> USE <1>10 DEF IInv, SealFiles, Idle
  <2>1. TypeOK'
    BY DEF TypeOK, PhasesByKind, BusyActorsHaveTargets
  <2>2. PhasesByKind' /\ BusyActorsHaveTargets' /\ LockMatchesPhases' /\ LiveRunsAreRegistered'
    BY DEF PhasesByKind, BusyActorsHaveTargets, LockMatchesPhases,
        LiveRunsAreRegistered, TypeOK
  <2>3. ExecutingRunsOwnTheirRow' /\ RunsWorkUnsealed' /\ WorkNeedsRow'
    BY DEF ExecutingRunsOwnTheirRow, RunsWorkUnsealed, WorkNeedsRow, TypeOK,
        PhasesByKind, BusyActorsHaveTargets, LockMatchesPhases,
        CleanersProgress, Sealed, SandboxOpen
  <2>4. CleanersProgress' /\ GoneIsSealed' /\ NoOrphans'
    BY DEF CleanersProgress, GoneIsSealed, NoOrphans, TypeOK, PhasesByKind,
        BusyActorsHaveTargets, LockMatchesPhases, ExecutingRunsOwnTheirRow,
        RunsWorkUnsealed, WorkNeedsRow, Sealed, SandboxOpen
  <2>5. DeletionsAreFounded'
    BY DEF DeletionsAreFounded, TypeOK, PhasesByKind, BusyActorsHaveTargets,
        LockMatchesPhases, CleanersProgress, WorkNeedsRow, Doomed
  <2> QED BY <2>1, <2>2, <2>3, <2>4, <2>5
<1>11. CASE DropFiles(k)
  <2> USE <1>11 DEF IInv, DropFiles, DropStore
  <2>1. TypeOK'
    BY DEF TypeOK, PhasesByKind, BusyActorsHaveTargets
  <2>2. PhasesByKind' /\ BusyActorsHaveTargets' /\ LockMatchesPhases' /\ LiveRunsAreRegistered'
    BY DEF PhasesByKind, BusyActorsHaveTargets, LockMatchesPhases,
        LiveRunsAreRegistered, TypeOK
  <2>3. ExecutingRunsOwnTheirRow' /\ RunsWorkUnsealed' /\ WorkNeedsRow'
    BY DEF ExecutingRunsOwnTheirRow, RunsWorkUnsealed, WorkNeedsRow, TypeOK,
        PhasesByKind, BusyActorsHaveTargets, LockMatchesPhases,
        CleanersProgress, Sealed, SandboxOpen
  <2>4. CleanersProgress' /\ GoneIsSealed' /\ NoOrphans'
    BY DEF CleanersProgress, GoneIsSealed, NoOrphans, TypeOK, PhasesByKind,
        BusyActorsHaveTargets, LockMatchesPhases, ExecutingRunsOwnTheirRow,
        RunsWorkUnsealed, WorkNeedsRow, Sealed, SandboxOpen
  <2>5. DeletionsAreFounded'
    BY DEF DeletionsAreFounded, TypeOK, PhasesByKind, BusyActorsHaveTargets,
        LockMatchesPhases, CleanersProgress, WorkNeedsRow, Doomed
  <2> QED BY <2>1, <2>2, <2>3, <2>4, <2>5
<1>12. CASE DropRow(k)
  BY <1>12, DropRowInductive
<1> QED BY <1>1, <1>2, <1>3, <1>4, <1>5, <1>6, <1>7, <1>8, <1>9, <1>10, <1>11,
        <1>12 DEF CleanerStep

(* A Cleaner starting, obtaining the lock, and failing.                    *)
LEMMA CleanerStartInductive ==
    ASSUME IInv, NEW k \in Cleaners,
           \/ CleanerLocks(k) \/ ListPending(k) \/ CleanerFails(k)
           \/ \E c \in Conversations : TakeTask(k, c) PROVE IInv'
<1>1. CASE CleanerLocks(k)
  <2> USE <1>1 DEF IInv, CleanerLocks
  <2>1. TypeOK'
    BY DEF TypeOK, PhasesByKind, BusyActorsHaveTargets
  <2>2. PhasesByKind' /\ BusyActorsHaveTargets' /\ LockMatchesPhases' /\ LiveRunsAreRegistered'
    BY DEF PhasesByKind, BusyActorsHaveTargets, LockMatchesPhases,
        LiveRunsAreRegistered, TypeOK
  <2>3. ExecutingRunsOwnTheirRow' /\ RunsWorkUnsealed' /\ WorkNeedsRow'
    BY DEF ExecutingRunsOwnTheirRow, RunsWorkUnsealed, WorkNeedsRow, TypeOK,
        PhasesByKind, BusyActorsHaveTargets, LockMatchesPhases,
        CleanersProgress, Sealed, SandboxOpen
  <2>4. CleanersProgress' /\ GoneIsSealed' /\ NoOrphans'
    BY DEF CleanersProgress, GoneIsSealed, NoOrphans, TypeOK, PhasesByKind,
        BusyActorsHaveTargets, LockMatchesPhases, ExecutingRunsOwnTheirRow,
        RunsWorkUnsealed, WorkNeedsRow, Sealed, SandboxOpen
  <2>5. DeletionsAreFounded'
    BY DEF DeletionsAreFounded, TypeOK, PhasesByKind, BusyActorsHaveTargets,
        LockMatchesPhases, CleanersProgress, WorkNeedsRow, Doomed
  <2> QED BY <2>1, <2>2, <2>3, <2>4, <2>5
<1>2. CASE ListPending(k)
  <2> USE <1>2 DEF IInv, ListPending, PendingDeletions
  <2>1. TypeOK'
    BY DEF TypeOK, PhasesByKind, BusyActorsHaveTargets
  <2>2. PhasesByKind' /\ BusyActorsHaveTargets' /\ LockMatchesPhases' /\ LiveRunsAreRegistered'
    BY DEF PhasesByKind, BusyActorsHaveTargets, LockMatchesPhases,
        LiveRunsAreRegistered, TypeOK
  <2>3. ExecutingRunsOwnTheirRow' /\ RunsWorkUnsealed' /\ WorkNeedsRow'
    BY DEF ExecutingRunsOwnTheirRow, RunsWorkUnsealed, WorkNeedsRow, TypeOK,
        PhasesByKind, BusyActorsHaveTargets, LockMatchesPhases,
        CleanersProgress, Sealed, SandboxOpen
  <2>4. CleanersProgress' /\ GoneIsSealed' /\ NoOrphans'
    BY DEF CleanersProgress, GoneIsSealed, NoOrphans, TypeOK, PhasesByKind,
        BusyActorsHaveTargets, LockMatchesPhases, ExecutingRunsOwnTheirRow,
        RunsWorkUnsealed, WorkNeedsRow, Sealed, SandboxOpen
  <2>5. DeletionsAreFounded'
    BY DEF DeletionsAreFounded, TypeOK, PhasesByKind, BusyActorsHaveTargets,
        LockMatchesPhases, CleanersProgress, WorkNeedsRow, Doomed
  <2> QED BY <2>1, <2>2, <2>3, <2>4, <2>5
<1>3. CASE CleanerFails(k)
  <2> USE <1>3 DEF IInv, CleanerFails, Raises
  <2>1. TypeOK'
    BY DEF TypeOK, PhasesByKind, BusyActorsHaveTargets
  <2>2. PhasesByKind' /\ BusyActorsHaveTargets' /\ LockMatchesPhases' /\ LiveRunsAreRegistered'
    BY DEF PhasesByKind, BusyActorsHaveTargets, LockMatchesPhases,
        LiveRunsAreRegistered, TypeOK
  <2>3. ExecutingRunsOwnTheirRow' /\ RunsWorkUnsealed' /\ WorkNeedsRow'
    BY DEF ExecutingRunsOwnTheirRow, RunsWorkUnsealed, WorkNeedsRow, TypeOK,
        PhasesByKind, BusyActorsHaveTargets, LockMatchesPhases,
        CleanersProgress, Sealed, SandboxOpen
  <2>4. CleanersProgress' /\ GoneIsSealed' /\ NoOrphans'
    BY DEF CleanersProgress, GoneIsSealed, NoOrphans, TypeOK, PhasesByKind,
        BusyActorsHaveTargets, LockMatchesPhases, ExecutingRunsOwnTheirRow,
        RunsWorkUnsealed, WorkNeedsRow, Sealed, SandboxOpen
  <2>5. DeletionsAreFounded'
    BY DEF DeletionsAreFounded, TypeOK, PhasesByKind, BusyActorsHaveTargets,
        LockMatchesPhases, CleanersProgress, WorkNeedsRow, Doomed
  <2> QED BY <2>1, <2>2, <2>3, <2>4, <2>5
<1>4. ASSUME NEW c \in Conversations, TakeTask(k, c) PROVE IInv'
  <2> USE <1>4 DEF IInv, TakeTask
  <2>1. TypeOK'
    BY DEF TypeOK, PhasesByKind, BusyActorsHaveTargets
  <2>2. PhasesByKind' /\ BusyActorsHaveTargets' /\ LockMatchesPhases' /\ LiveRunsAreRegistered'
    BY DEF PhasesByKind, BusyActorsHaveTargets, LockMatchesPhases,
        LiveRunsAreRegistered, TypeOK
  <2>3. ExecutingRunsOwnTheirRow' /\ RunsWorkUnsealed' /\ WorkNeedsRow'
    BY DEF ExecutingRunsOwnTheirRow, RunsWorkUnsealed, WorkNeedsRow, TypeOK,
        PhasesByKind, BusyActorsHaveTargets, LockMatchesPhases,
        CleanersProgress, Sealed, SandboxOpen
  <2>4. CleanersProgress' /\ GoneIsSealed' /\ NoOrphans'
    BY DEF CleanersProgress, GoneIsSealed, NoOrphans, TypeOK, PhasesByKind,
        BusyActorsHaveTargets, LockMatchesPhases, ExecutingRunsOwnTheirRow,
        RunsWorkUnsealed, WorkNeedsRow, Sealed, SandboxOpen
  <2>5. DeletionsAreFounded'
    BY DEF DeletionsAreFounded, TypeOK, PhasesByKind, BusyActorsHaveTargets,
        LockMatchesPhases, CleanersProgress, WorkNeedsRow, Doomed
  <2> QED BY <2>1, <2>2, <2>3, <2>4, <2>5
<1> QED BY <1>1, <1>2, <1>3, <1>4 DEF IInv

(* A crash takes the actors, locks, registrations and jobs of one process. *)
LEMMA CrashInductive ==
    ASSUME IInv, NEW p \in Processes, CrashProcess(p) PROVE IInv'
<1>1. CASE CrashProcess(p)
  <2> USE <1>1 DEF IInv, CrashProcess
  <2>1. TypeOK'
    BY DEF TypeOK, PhasesByKind, BusyActorsHaveTargets
  <2>2. PhasesByKind' /\ BusyActorsHaveTargets' /\ LockMatchesPhases' /\ LiveRunsAreRegistered'
    BY DEF PhasesByKind, BusyActorsHaveTargets, LockMatchesPhases,
        LiveRunsAreRegistered, TypeOK
  <2>3. ExecutingRunsOwnTheirRow' /\ RunsWorkUnsealed' /\ WorkNeedsRow'
    BY DEF ExecutingRunsOwnTheirRow, RunsWorkUnsealed, WorkNeedsRow, TypeOK,
        PhasesByKind, BusyActorsHaveTargets, LockMatchesPhases,
        CleanersProgress, Sealed, SandboxOpen
  <2>4. CleanersProgress' /\ GoneIsSealed' /\ NoOrphans'
    BY DEF CleanersProgress, GoneIsSealed, NoOrphans, TypeOK, PhasesByKind,
        BusyActorsHaveTargets, LockMatchesPhases, ExecutingRunsOwnTheirRow,
        RunsWorkUnsealed, WorkNeedsRow, Sealed, SandboxOpen
  <2>5. DeletionsAreFounded'
    BY DEF DeletionsAreFounded, TypeOK, PhasesByKind, BusyActorsHaveTargets,
        LockMatchesPhases, CleanersProgress, WorkNeedsRow, Doomed
  <2> QED BY <2>1, <2>2, <2>3, <2>4, <2>5
<1> QED BY <1>1 DEF IInv

(* Every step of the specification preserves the invariant.                *)
LEMMA NextIInv == IInv /\ [Next]_vars => IInv'
<1> SUFFICES ASSUME IInv, [Next]_vars PROVE IInv'
  OBVIOUS
<1>1. CASE DirectoryNext
  BY <1>1, DirectoryInductive DEF DirectoryNext
<1>2. CASE \E r \in Runs : RunStep(r) \/ RunWork(r)
  BY <1>2, RunStepInductive, RunWorkInductive
<1>3. CASE JobNext
  BY <1>3, JobInductive DEF JobNext
<1>4. CASE RequestNext
  BY <1>4, RequestInductive DEF RequestNext
<1>5. CASE UploadNext
  BY <1>5, UploadInductive DEF UploadNext
<1>6. CASE CleanerNext
  BY <1>6, CleanerStepInductive, CleanerStartInductive DEF CleanerNext
<1>7. CASE \E p \in Processes : CrashProcess(p)
  BY <1>7, CrashInductive
<1>8. CASE UNCHANGED vars
  <2> USE <1>8 DEF vars, IInv
  <2>1. TypeOK' /\ PhasesByKind' /\ BusyActorsHaveTargets' /\ LockMatchesPhases'
    BY DEF TypeOK, PhasesByKind, BusyActorsHaveTargets, LockMatchesPhases
  <2>2. LiveRunsAreRegistered' /\ ExecutingRunsOwnTheirRow' /\ RunsWorkUnsealed' /\ WorkNeedsRow'
    BY DEF LiveRunsAreRegistered, ExecutingRunsOwnTheirRow, RunsWorkUnsealed, WorkNeedsRow,
           Sealed, SandboxOpen
  <2>3. CleanersProgress' /\ GoneIsSealed' /\ NoOrphans' /\ DeletionsAreFounded'
    BY DEF CleanersProgress, GoneIsSealed, NoOrphans, DeletionsAreFounded, Doomed
  <2> QED BY <2>1, <2>2, <2>3
<1> QED BY <1>1, <1>2, <1>3, <1>4, <1>5, <1>6, <1>7, <1>8 DEF Next

(* The invariant holds in every reachable state.                           *)
THEOREM InductiveInvariant == Spec => []IInv
<1> QED BY InitIInv, NextIInv, PTL DEF Spec

-----------------------------------------------------------------------------
(* The invariants the runs check.                                          *)

(* Every variable keeps its type.                                          *)
THEOREM TypeCorrect == Spec => []TypeOK
<1>1. IInv => TypeOK BY DEF IInv
<1> QED BY <1>1, InductiveInvariant, PTL

(* The lifecycle lock has one holder, inside its critical section, and no  *)
(* failure, cancellation or crash leaves it locked without one.            *)
THEOREM LockIsHeldByItsUser == Spec => []LockMatchesPhases
<1>1. IInv => LockMatchesPhases BY DEF IInv
<1> QED BY <1>1, InductiveInvariant, PTL

(* No store keeps data of a conversation whose row is gone.                *)
THEOREM DeletionLeavesNoOrphans == Spec => []NoOrphans
<1>1. IInv => NoOrphans BY DEF IInv
<1> QED BY <1>1, InductiveInvariant, PTL

(* A late completion callback never hides a younger Run from stop().       *)
THEOREM LiveRunsStayRegistered == Spec => []LiveRunsAreRegistered
<1>1. IInv => LiveRunsAreRegistered BY DEF IInv
<1> QED BY <1>1, InductiveInvariant, PTL

(* An accepted turn works on a formal conversation nobody marks or deletes *)
(* before the Run has released the lock.                                   *)
THEOREM AcceptedTurnsOwnTheirRow == Spec => []ExecutingRunsOwnTheirRow
<1>1. IInv => ExecutingRunsOwnTheirRow BY DEF IInv
<1> QED BY <1>1, InductiveInvariant, PTL

-----------------------------------------------------------------------------
(* What a step may never do.                                               *)

(* A formal conversation without a mark is never removed: the only action  *)
(* that removes rows is DropRow, whose conversation was marked, or was a   *)
(* draft when it was looked at under the lock that is still held.          *)
THEOREM UnmarkedFormalAlwaysSurvives == Spec => UnmarkedFormalSurvives
<1>1. ASSUME IInv, [Next]_vars, NEW c \in Conversations, row[c] = "formal", c \notin deleting
      PROVE  row'[c] = "formal"
  <2> USE <1>1 DEF IInv, TypeOK
  <2>1. CASE DirectoryNext
    BY <2>1 DEF DirectoryNext, Create, Rename, Age
  <2>2. ASSUME NEW r \in Runs, RunStep(r) PROVE row'[c] = "formal"
    <3>1. CASE PrepareAccepts(r)
      BY <3>1 DEF PrepareAccepts
    <3>2. CASE ~PrepareAccepts(r)
      BY <2>2, <3>2 DEF RunStep, RunLocks, RunNotAdmitted, PrepareRejects, EnterRuntime,
                        UseRuntime, CheckTombstone, RunCancelled, RunUnlocks, FinishRun
    <3> QED BY <3>1, <3>2
  <2>3. ASSUME NEW r \in Runs, RunWork(r) PROVE row'[c] = "formal"
    BY <2>3 DEF RunWork, StartRun, WriteCheckpoint, WriteRecall, StartJob, TurnEnds, CancelRun
  <2>4. CASE JobNext
    BY <2>4 DEF JobNext, JobWritesFiles, EndJob
  <2>5. CASE RequestNext
    BY <2>5 DEF RequestNext, RequestStep, RequestDeletion, RequestStops, RequestLocks,
                RequestBusy, RequestMarks
  <2>6. CASE UploadNext
    BY <2>6 DEF UploadNext, UploadStep, UploadLocks, UploadChecks, UploadRefused, UploadWrites
  <2>7. ASSUME NEW k \in Cleaners, DropRow(k) PROVE row'[c] = "formal"
    <3>1. target[k] # c
      BY <2>7 DEF DropRow, DeletionsAreFounded, Doomed, LockMatchesPhases
    <3> QED BY <2>7, <3>1 DEF DropRow
  <2>8. CASE CleanerNext /\ ~\E k \in Cleaners : DropRow(k)
    BY <2>8 DEF CleanerNext, CleanerStep, TakeTask, ListPending, ListExpired, NextOfBatch,
                EndBatch, CleanerLocks, CleanerBusy, CleanerProceeds, CleanerSkips,
                SaveTombstone, DropCheckpoint, DropRecall, DropFiles, DropStore, SealFiles,
                CleanerFails
  <2>9. CASE \E p \in Processes : CrashProcess(p)
    BY <2>9 DEF CrashProcess
  <2>10. CASE UNCHANGED vars
    BY <2>10 DEF vars
  <2> QED
    BY <2>1, <2>2, <2>3, <2>4, <2>5, <2>6, <2>7, <2>8, <2>9, <2>10 DEF Next
<1>2. IInv /\ [Next]_vars => [\A c \in Conversations :
        row[c] = "formal" /\ c \notin deleting => row'[c] = "formal"]_vars
  BY <1>1
<1> QED BY <1>2, InductiveInvariant, PTL DEF Spec, UnmarkedFormalSurvives

-----------------------------------------------------------------------------
(* Deletion as SealedStores promises it.                                   *)

(* A step that leaves the rows, the tombstones and the stores alone is not *)
(* a step of the abstract specification.                                   *)
LEMMA StoresUntouched ==
    ASSUME UNCHANGED <<row, tombstone, filesTombstone, held>>
    PROVE  UNCHANGED Promise!vars
BY DEF Promise!vars, Life, SealedPairs

(* Data enters an open store of a conversation that exists.                *)
LEMMA StorePut ==
    ASSUME NEW c \in Conversations, NEW s \in Stores, Exists(c), <<c, s>> \notin SealedPairs,
           held' = held \cup {<<c, s>>}, UNCHANGED <<row, tombstone, filesTombstone>>
    PROVE  Promise!Next
<1>1. Promise!Put(c, s)
  BY DEF Promise!Put, Life, SealedPairs
<1> QED BY <1>1 DEF Promise!Next

(* Data leaves a store that is closed.                                     *)
LEMMA StoreDrop ==
    ASSUME NEW c \in Conversations, NEW s \in Stores, <<c, s>> \in SealedPairs,
           held' = held \ {<<c, s>>}, UNCHANGED <<row, tombstone, filesTombstone>>
    PROVE  Promise!Next
<1>1. Promise!Drop(c, s)
  BY DEF Promise!Drop, Life, SealedPairs
<1> QED BY <1>1 DEF Promise!Next

(* Every step of a Cleaner is a step of the promise or leaves it alone.    *)
LEMMA CleanerRefines ==
    ASSUME IInv, NEW k \in Cleaners, CleanerStep(k)
    PROVE  Promise!Next \/ UNCHANGED Promise!vars
<1> DEFINE c == target[k]
<1> USE DEF IInv, TypeOK
<1>1. CASE SaveTombstone(k)
  <2>1. c \in Conversations /\ Exists(c)
    BY <1>1 DEF SaveTombstone, CleanersProgress, BusyActorsHaveTargets
  <2>2. SealedPairs' = SealedPairs \cup ({c} \X {"checkpoint", "recall"})
    BY <1>1, <2>1 DEF SaveTombstone, SealedPairs
  <2>3. Promise!Seal(c, {"checkpoint", "recall"})
    BY <1>1, <2>1, <2>2 DEF SaveTombstone, Promise!Seal, Life
  <2> QED BY <2>1, <2>3 DEF Promise!Next
<1>2. CASE SealFiles(k)
  <2>1. c \in Conversations /\ Exists(c)
    BY <1>2 DEF SealFiles, CleanersProgress, BusyActorsHaveTargets
  <2>2. SealedPairs' = SealedPairs \cup ({c} \X {"files"})
    BY <1>2, <2>1 DEF SealFiles, SealedPairs
  <2>3. Promise!Seal(c, {"files"})
    BY <1>2, <2>1, <2>2 DEF SealFiles, Promise!Seal, Life
  <2> QED BY <2>1, <2>3 DEF Promise!Next
<1>3. CASE DropCheckpoint(k)
  BY <1>3, StoreDrop DEF DropCheckpoint, DropStore, CleanersProgress, BusyActorsHaveTargets,
                         SealedPairs
<1>4. CASE DropRecall(k)
  BY <1>4, StoreDrop DEF DropRecall, DropStore, CleanersProgress, BusyActorsHaveTargets,
                         SealedPairs
<1>5. CASE DropFiles(k)
  BY <1>5, StoreDrop DEF DropFiles, DropStore, CleanersProgress, BusyActorsHaveTargets,
                         SealedPairs
<1>6. CASE DropRow(k)
  <2>1. /\ c \in Conversations /\ Exists(c) /\ c \in tombstone /\ c \in filesTombstone
        /\ \A s \in Stores : <<c, s>> \notin held
    BY <1>6 DEF DropRow, CleanersProgress, BusyActorsHaveTargets
  <2>2. Life' = [Life EXCEPT ![c] = "gone"]
    BY <1>6, <2>1 DEF DropRow, Life
  <2>3. UNCHANGED <<SealedPairs, held>>
    BY <1>6 DEF DropRow, SealedPairs
  <2>4. Promise!Vanish(c)
    BY <2>1, <2>2, <2>3 DEF Promise!Vanish, Life, SealedPairs
  <2> QED BY <2>1, <2>4 DEF Promise!Next
<1>7. CASE \/ ListExpired(k) \/ EndBatch(k) \/ CleanerBusy(k) \/ CleanerProceeds(k)
           \/ CleanerSkips(k) \/ \E d \in Conversations : NextOfBatch(k, d)
  BY <1>7, StoresUntouched DEF ListExpired, EndBatch, CleanerBusy, CleanerProceeds,
                               CleanerSkips, NextOfBatch
<1> QED BY <1>1, <1>2, <1>3, <1>4, <1>5, <1>6, <1>7 DEF CleanerStep

(* The rows, the tombstones and the stores start out empty.                *)
LEMMA InitRefines == Init => Promise!Init
BY DEF Init, Promise!Init, Life, SealedPairs

(* Every step of the specification is one of the promise, or leaves it.    *)
LEMMA NextRefines ==
    ASSUME IInv, [Next]_vars PROVE [Promise!Next]_(Promise!vars)
<1> USE DEF IInv, TypeOK
<1>1. ASSUME NEW c \in Conversations, Create(c) PROVE Promise!Next
  <2>1. Promise!Create(c)
    BY <1>1 DEF Create, Promise!Create, Life, SealedPairs
  <2> QED BY <2>1 DEF Promise!Next
<1>2. ASSUME NEW c \in Conversations, Rename(c) \/ Age(c) PROVE UNCHANGED Promise!vars
  BY <1>2, StoresUntouched DEF Rename, Age
<1>3. ASSUME NEW r \in Runs, RunStep(r) PROVE UNCHANGED Promise!vars
  <2>1. CASE PrepareAccepts(r)
    <3>1. Life' = Life
      BY <2>1 DEF PrepareAccepts, Life
    <3> QED BY <2>1, <3>1 DEF PrepareAccepts, Promise!vars, SealedPairs
  <2>2. CASE ~PrepareAccepts(r)
    BY <1>3, <2>2, StoresUntouched
       DEF RunStep, RunLocks, RunNotAdmitted, PrepareRejects, EnterRuntime, UseRuntime,
           CheckTombstone, RunCancelled, RunUnlocks, FinishRun
  <2> QED BY <2>1, <2>2
<1>4. ASSUME NEW r \in Runs, WriteCheckpoint(r) \/ WriteRecall(r) PROVE Promise!Next
  <2>1. target[r] \in Conversations /\ Exists(target[r]) /\ target[r] \notin tombstone
    BY <1>4 DEF WriteCheckpoint, WriteRecall, BusyActorsHaveTargets, RunsWorkUnsealed, Sealed,
                ExecutingRunsOwnTheirRow
  <2> QED BY <1>4, <2>1, StorePut DEF WriteCheckpoint, WriteRecall, SealedPairs
<1>5. ASSUME NEW r \in Runs,
             \/ StartJob(r) \/ TurnEnds(r) \/ CancelRun(r)
             \/ \E c \in Conversations : StartRun(r, c)
      PROVE  UNCHANGED Promise!vars
  BY <1>5, StoresUntouched DEF StartJob, TurnEnds, CancelRun, StartRun
<1>6. CASE JobNext
  <2>1. ASSUME NEW p \in Processes, NEW c \in Conversations, JobWritesFiles(p, c)
        PROVE  Promise!Next
    <3>1. Exists(c) /\ c \notin filesTombstone
      BY <2>1 DEF JobWritesFiles, WorkNeedsRow, SandboxOpen
    <3> QED BY <2>1, <3>1, StorePut DEF JobWritesFiles, SealedPairs
  <2>2. ASSUME NEW p \in Processes, NEW c \in Conversations, EndJob(p, c)
        PROVE  UNCHANGED Promise!vars
    BY <2>2, StoresUntouched DEF EndJob
  <2> QED BY <1>6, <2>1, <2>2 DEF JobNext
<1>7. CASE RequestNext
  BY <1>7, StoresUntouched DEF RequestNext, RequestStep, RequestDeletion, RequestStops,
                               RequestLocks, RequestBusy, RequestMarks
<1>8. ASSUME NEW u \in Uploads, UploadWrites(u) PROVE Promise!Next
  <2>1. target[u] \in Conversations /\ Exists(target[u])
    BY <1>8 DEF UploadWrites, BusyActorsHaveTargets, WorkNeedsRow
  <2> QED BY <1>8, <2>1, StorePut DEF UploadWrites, SealedPairs, SandboxOpen
<1>9. ASSUME NEW u \in Uploads,
             UploadChecks(u) \/ UploadRefused(u) \/ \E c \in Conversations : UploadLocks(u, c)
      PROVE  UNCHANGED Promise!vars
  BY <1>9, StoresUntouched DEF UploadChecks, UploadRefused, UploadLocks
<1>10. ASSUME NEW k \in Cleaners,
              \/ CleanerLocks(k) \/ ListPending(k) \/ CleanerFails(k)
              \/ \E c \in Conversations : TakeTask(k, c)
       PROVE  UNCHANGED Promise!vars
  BY <1>10, StoresUntouched DEF CleanerLocks, ListPending, CleanerFails, TakeTask
<1>11. CASE \E p \in Processes : CrashProcess(p)
  BY <1>11, StoresUntouched DEF CrashProcess
<1>12. CASE UNCHANGED vars
  BY <1>12, StoresUntouched DEF vars
<1> QED
  BY <1>1, <1>2, <1>3, <1>4, <1>5, <1>6, <1>7, <1>8, <1>9, <1>10, <1>11, <1>12, CleanerRefines
     DEF Next, DirectoryNext, RunWork, UploadNext, UploadStep, CleanerNext

(* Deleting a conversation closes every store before it empties it, and    *)
(* forgets the conversation when all of them are closed and empty.         *)
THEOREM DeletionImplementsPromise == Spec => DeletionIsOrderly
<1>1. IInv /\ [Next]_vars => [Promise!Next]_(Promise!vars)
  BY NextRefines
<1> QED BY <1>1, InitRefines, InductiveInvariant, PTL DEF Spec, DeletionIsOrderly, Promise!Spec

(* A closed store stays empty: the promise lets data into open stores only.*)
THEOREM ClosedStoresStayEmpty == Spec => SealedStoresStayEmpty
<1> DEFINE Step == \A c \in Conversations :
        /\ c \in tombstone /\ <<c, "checkpoint">> \notin held => <<c, "checkpoint">> \notin held'
        /\ c \in filesTombstone /\ <<c, "files">> \notin held => <<c, "files">> \notin held'
<1>1. ASSUME IInv, [Next]_vars, NEW c \in Conversations, NEW s \in Stores,
             <<c, s>> \in SealedPairs, <<c, s>> \notin held
      PROVE  <<c, s>> \notin held'
  <2>1. [Promise!Next]_(Promise!vars)
    BY <1>1, NextRefines
  <2> QED
    BY <1>1, <2>1 DEF Promise!Next, Promise!vars, Promise!Create, Promise!Put, Promise!Seal,
                      Promise!Drop, Promise!Vanish
<1>2. IInv /\ [Next]_vars => [Step]_vars
  <2> SUFFICES ASSUME IInv, [Next]_vars PROVE Step
    OBVIOUS
  <2>1. \A c \in tombstone : c \in Conversations => <<c, "checkpoint">> \in SealedPairs
    BY DEF SealedPairs
  <2>2. \A c \in filesTombstone : c \in Conversations => <<c, "files">> \in SealedPairs
    BY DEF SealedPairs
  <2> QED BY <1>1, <2>1, <2>2 DEF Stores
<1> QED BY <1>2, InductiveInvariant, PTL DEF Spec, SealedStoresStayEmpty

(* While a draft-only request holds the lock nobody else marks its         *)
(* conversation, and the request itself looks at the row again.            *)
THEOREM DraftRequestsSpareFormal == Spec => DraftRequestSparesFormal
<1> DEFINE Step == \A q \in DraftRequests :
        pc[q] = "marking" /\ row[target[q]] = "formal" =>
            (target[q] \in deleting' => target[q] \in deleting)
<1>1. ASSUME [Next]_vars, ~\E q \in Requests : RequestMarks(q) PROVE deleting' \subseteq deleting
  <2>1. CASE DirectoryNext \/ JobNext \/ UploadNext
    BY <2>1 DEF DirectoryNext, Create, Rename, Age, JobNext, JobWritesFiles, EndJob, UploadNext,
                UploadStep, UploadLocks, UploadChecks, UploadRefused, UploadWrites
  <2>2. CASE \E r \in Runs : RunStep(r) \/ RunWork(r)
    BY <2>2 DEF RunStep, RunLocks, RunNotAdmitted, PrepareAccepts, PrepareRejects, EnterRuntime,
                UseRuntime, CheckTombstone, RunCancelled, RunUnlocks, FinishRun, RunWork, StartRun,
                WriteCheckpoint, WriteRecall, StartJob, TurnEnds, CancelRun
  <2>3. CASE RequestNext
    BY <1>1, <2>3 DEF RequestNext, RequestStep, RequestDeletion, RequestStops, RequestLocks,
                      RequestBusy
  <2>4. CASE CleanerNext
    BY <2>4 DEF CleanerNext, CleanerStep, TakeTask, ListPending, ListExpired, NextOfBatch,
                EndBatch, CleanerLocks, CleanerBusy, CleanerProceeds, CleanerSkips,
                SaveTombstone, DropCheckpoint, DropRecall, DropFiles, DropStore, SealFiles,
                DropRow, CleanerFails
  <2>5. CASE (\E p \in Processes : CrashProcess(p)) \/ UNCHANGED vars
    BY <2>5 DEF CrashProcess, vars
  <2> QED BY <1>1, <2>1, <2>2, <2>3, <2>4, <2>5 DEF Next
<1>2. ASSUME IInv, [Next]_vars, NEW q \in DraftRequests, pc[q] = "marking",
             row[target[q]] = "formal", target[q] \in deleting'
      PROVE  target[q] \in deleting
  <2>1. ASSUME NEW x \in Requests, RequestMarks(x) PROVE target[q] \in deleting
    <3>1. pc[x] = "marking" /\ (target[x] = target[q] => x = q)
      BY <1>2, <2>1, SubsetAssumption
         DEF RequestMarks, IInv, LockMatchesPhases, Holding, Actors, Local
    <3>2. ~MayDelete(q, target[q])
      BY <1>2 DEF MayDelete
    <3> QED BY <1>2, <2>1, <3>1, <3>2 DEF RequestMarks
  <2> QED BY <1>1, <1>2, <2>1
<1>3. IInv /\ [Next]_vars => [Step]_vars
  BY <1>2
<1> QED BY <1>3, InductiveInvariant, PTL DEF Spec, DraftRequestSparesFormal

-----------------------------------------------------------------------------
(* What liveness rests on besides fairness: cancellations and marks stay.  *)

(* How far the task of a Run is from its end.                              *)
Left(r) ==
    CASE pc[r] = "registered" -> 7
      [] pc[r] = "preparing" -> 6
      [] pc[r] = "admitted" -> 5
      [] pc[r] = "building" -> 4
      [] pc[r] = "streaming" -> 3
      [] pc[r] \in {"unwinding", "leaving"} -> 2
      [] pc[r] = "done" -> 1
      [] OTHER -> 0

(* A cancellation of a Run is not lost: no step of anybody removes it      *)
(* before the Run has ended, none takes the Run back to an earlier phase,  *)
(* and each step of the task brings the Run closer to its end.             *)
CancelledRunsComeCloser ==
    [][\A r \in cancelled :
          /\ r \in cancelled' \/ pc'[r] = "ended"
          /\ Left(r)' <= Left(r)
          /\ RunStep(r) => Left(r)' < Left(r)]_vars

(* A deletion request that waits for the task of a Run waits for one that  *)
(* was cancelled: stop() never awaits a Run that goes on by itself.        *)
DeletionsAwaitCancelledRuns ==
    \A q \in Requests : pc[q] = "waiting" /\ ~Stopped(q) => awaits[q] \in cancelled

(* The mark of a deletion is only taken away with the row, so that the     *)
(* periodic scan finds what tasks, retries and batches have lost.          *)
MarksStay == [][\A c \in deleting : c \in deleting' \/ row'[c] = "gone"]_vars

(* A cancelled Run is under way; the Run a request waits for was cancelled *)
(* or is over.                                                             *)
CancelInv ==
    /\ \A r \in cancelled : pc[r] \in RunPhases
    /\ \A q \in Requests : awaits[q] # None =>
          awaits[q] \in cancelled \/ pc[awaits[q]] \in {"done", "ended"}

(* What a step of a Run's task does.                                       *)
LEMMA RunMoves ==
    ASSUME IInv, NEW r \in Runs, RunStep(r)
    PROVE  /\ Left(r)' < Left(r) /\ pc[r] \in RunPhases /\ pc'[r] \in RunPhases \cup {"ended"}
           /\ pc[r] = "done" <=> pc'[r] = "ended"
           /\ pc'[r] = "ended" => r \notin cancelled'
           /\ pc'[r] # "ended" => cancelled' = cancelled
           /\ cancelled \ {r} \subseteq cancelled'
           /\ cancelled' \subseteq cancelled
           /\ \A a \in Actors \ {r} : pc'[a] = pc[a]
<1> USE DEF RunStep, RunLocks, RunNotAdmitted, PrepareAccepts, PrepareRejects, EnterRuntime,
            UseRuntime, CheckTombstone, RunCancelled, RunUnlocks, FinishRun
<1>1. pc \in [Actors -> Phases] /\ r \in Actors
  BY DEF IInv, TypeOK
<1>2. \/ pc[r] = "registered" /\ pc'[r] \in {"preparing", "done"}
      \/ pc[r] = "preparing" /\ pc'[r] \in {"admitted", "leaving"}
      \/ pc[r] = "admitted" /\ pc'[r] \in {"building", "leaving"}
      \/ pc[r] = "building" /\ pc'[r] \in {"streaming", "leaving"}
      \/ pc[r] = "streaming" /\ pc'[r] = "unwinding"
      \/ pc[r] \in {"unwinding", "leaving"} /\ pc'[r] = "done"
      \/ pc[r] = "done" /\ pc'[r] = "ended"
  BY <1>1
<1>3. Left(r)' < Left(r)
  BY <1>2 DEF Left
<1>4. \A a \in Actors \ {r} : pc'[a] = pc[a]
  BY <1>1
<1>5. IF pc[r] = "done" THEN cancelled' = cancelled \ {r} ELSE cancelled' = cancelled
  BY <1>1
<1> HIDE DEF RunStep, RunLocks, RunNotAdmitted, PrepareAccepts, PrepareRejects, EnterRuntime,
             UseRuntime, CheckTombstone, RunCancelled, RunUnlocks, FinishRun
<1> QED BY <1>2, <1>3, <1>4, <1>5

(* Nobody but the Run, a client or a crash moves a Run.                    *)
LEMMA OthersKeepRuns ==
    ASSUME IInv, [Next]_vars, ~\E r \in Runs : RunStep(r) \/ RunWork(r),
           ~\E p \in Processes : CrashProcess(p)
    PROVE  /\ \A r \in Runs : pc'[r] = pc[r]
           /\ cancelled \subseteq cancelled'
           /\ \A r \in cancelled' \ cancelled : pc[r] \in Live
<1>1. pc \in [Actors -> Phases] /\ Runs \subseteq Actors
  BY DEF IInv, TypeOK
<1>2. CASE DirectoryNext \/ JobNext \/ UNCHANGED vars
  BY <1>2 DEF DirectoryNext, Create, Rename, Age, JobNext, JobWritesFiles, EndJob, vars
<1>3. ASSUME NEW q \in Requests, RequestStep(q) \/ \E c \in Conversations : RequestDeletion(q, c)
      PROVE  /\ \A r \in Runs : pc'[r] = pc[r]
             /\ cancelled \subseteq cancelled'
             /\ \A r \in cancelled' \ cancelled : pc[r] \in Live
  <2>1. \A r \in Runs : r # q
    BY <1>3
  <2>2. \A r \in Runs : pc'[r] = pc[r]
    BY <1>1, <1>3, <2>1 DEF RequestStep, RequestDeletion, RequestStops, RequestLocks, RequestBusy, RequestMarks
  <2>3. CASE RequestStops(q)
    BY <2>2, <2>3 DEF RequestStops, RegistryFree
  <2>4. CASE ~RequestStops(q)
    BY <1>3, <2>2, <2>4 DEF RequestStep, RequestDeletion, RequestLocks, RequestBusy, RequestMarks
  <2> QED BY <2>3, <2>4
<1>4. ASSUME NEW u \in Uploads, UploadStep(u) \/ \E c \in Conversations : UploadLocks(u, c)
      PROVE  (\A r \in Runs : pc'[r] = pc[r]) /\ cancelled' = cancelled
  BY <1>1, <1>4 DEF UploadStep, UploadLocks, UploadChecks, UploadRefused, UploadWrites
<1>5. ASSUME NEW k \in Cleaners, \/ CleanerStep(k) \/ CleanerLocks(k) \/ ListPending(k) \/ CleanerFails(k)
                                 \/ \E c \in Conversations : TakeTask(k, c)
      PROVE  (\A r \in Runs : pc'[r] = pc[r]) /\ cancelled' = cancelled
  BY <1>1, <1>5 DEF CleanerStep, TakeTask, ListPending, ListExpired, NextOfBatch, EndBatch,
     CleanerLocks, CleanerBusy, CleanerProceeds, CleanerSkips, SaveTombstone, DropCheckpoint,
     DropRecall, DropFiles, DropStore, SealFiles, DropRow, CleanerFails, Returns
<1> QED BY <1>2, <1>3, <1>4, <1>5 DEF Next, RequestNext, UploadNext, CleanerNext

(* A user, a model and the runtime of a Run do not make it any younger.    *)
LEMMA WorkMoves ==
    ASSUME IInv, NEW r \in Runs, RunWork(r)
    PROVE  /\ \A a \in Actors : pc'[a] = pc[a] \/ (pc[a] = "streaming" /\ pc'[a] = "unwinding")
                                \/ (pc[a] = "idle" /\ pc'[a] = "registered")
           /\ cancelled \subseteq cancelled'
           /\ \A x \in cancelled' \ cancelled : pc[x] \in Live /\ pc' = pc
<1>1. pc \in [Actors -> Phases]
  BY DEF IInv, TypeOK
<1> QED BY <1>1 DEF RunWork, StartRun, WriteCheckpoint, WriteRecall, StartJob, TurnEnds, CancelRun

LEMMA CrashMoves ==
    ASSUME IInv, NEW p \in Processes, CrashProcess(p), NEW r \in Runs
    PROVE  \/ pc'[r] = pc[r] /\ (r \in cancelled' <=> r \in cancelled)
           \/ pc'[r] = "ended" /\ r \notin cancelled' /\ pc[r] # "idle"
BY DEF CrashProcess, IInv, TypeOK

(* A Run that was started never comes back to an earlier phase, and keeps  *)
(* its cancellation until it has ended.                                    *)
LEMMA RunProgress ==
    ASSUME IInv, [Next]_vars, NEW r \in Runs, pc[r] # "idle"
    PROVE  /\ Left(r)' <= Left(r) /\ pc'[r] # "idle"
           /\ RunStep(r) => Left(r)' < Left(r)
           /\ r \in cancelled => r \in cancelled' \/ pc'[r] = "ended"
<1>1. r \in Actors /\ Left(r) \in 0 .. 7
  BY DEF Left
<1>2. pc'[r] = pc[r] => Left(r)' = Left(r)
  BY DEF Left
<1>3. ASSUME NEW x \in Runs, RunStep(x)
      PROVE  /\ Left(r)' <= Left(r) /\ pc'[r] # "idle"
             /\ x = r => Left(r)' < Left(r)
             /\ r \in cancelled => r \in cancelled' \/ pc'[r] = "ended"
  <2>1. CASE x = r
    <3>1. Left(r)' < Left(r) /\ pc'[r] \in RunPhases \cup {"ended"} /\ (pc'[r] # "ended" => cancelled' = cancelled)
      BY <1>3, <2>1, RunMoves
    <3>2. Left(r)' \in 0 .. 7
      BY <3>1 DEF Left
    <3> QED BY <1>1, <3>1, <3>2
  <2>2. CASE x # r
    <3>1. pc'[r] = pc[r] /\ cancelled \ {x} \subseteq cancelled'
      BY <1>1, <1>3, <2>2, RunMoves
    <3> QED BY <1>1, <1>2, <2>2, <3>1
  <2> QED BY <2>1, <2>2
<1>4. ASSUME NEW x \in Runs, RunWork(x)
      PROVE  Left(r)' <= Left(r) /\ pc'[r] # "idle" /\ (r \in cancelled => r \in cancelled')
  <2>1. (pc'[r] = pc[r] \/ (pc[r] = "streaming" /\ pc'[r] = "unwinding")) /\ cancelled \subseteq cancelled'
    BY <1>1, <1>4, WorkMoves
  <2>2. Left(r)' <= Left(r)
    BY <1>1, <1>2, <2>1 DEF Left
  <2> QED BY <2>1, <2>2
<1>5. ASSUME NEW p \in Processes, CrashProcess(p)
      PROVE  /\ Left(r)' <= Left(r) /\ pc'[r] # "idle"
             /\ r \in cancelled => r \in cancelled' \/ pc'[r] = "ended"
  <2>1. CASE pc'[r] = pc[r] /\ (r \in cancelled' <=> r \in cancelled)
    BY <1>1, <1>2, <2>1
  <2>2. CASE pc'[r] = "ended"
    <3>1. Left(r)' = 0
      BY <2>2 DEF Left
    <3> QED BY <1>1, <2>2, <3>1
  <2> QED BY <1>5, <2>1, <2>2, CrashMoves
<1>6. CASE ~(\E x \in Runs : RunStep(x) \/ RunWork(x)) /\ ~\E p \in Processes : CrashProcess(p)
  BY <1>1, <1>2, <1>6, OthersKeepRuns
<1>7. RunStep(r) => Left(r)' < Left(r)
  BY RunMoves
<1> QED BY <1>3, <1>4, <1>5, <1>6, <1>7

(* Only a request's own stop() chooses what it waits for.                  *)
LEMMA AwaitsStay ==
    ASSUME IInv, [Next]_vars, NEW q \in Requests, ~RequestStops(q)
    PROVE  awaits'[q] = awaits[q]
<1>1. awaits \in [Requests -> Runs \cup {None}]
  BY DEF IInv, TypeOK
<1>2. CASE DirectoryNext \/ JobNext \/ UploadNext
  BY <1>2 DEF DirectoryNext, Create, Rename, Age, JobNext, JobWritesFiles, EndJob, UploadNext,
              UploadStep, UploadLocks, UploadChecks, UploadRefused, UploadWrites
<1>3. ASSUME NEW x \in Requests, RequestStops(x) PROVE awaits'[q] = awaits[q]
  BY <1>1, <1>3 DEF RequestStops
<1>4. CASE RequestNext /\ ~\E x \in Requests : RequestStops(x)
  BY <1>4 DEF RequestNext, RequestStep, RequestDeletion, RequestLocks, RequestBusy, RequestMarks
<1>5. CASE CleanerNext
  BY <1>5 DEF CleanerNext, CleanerStep, TakeTask, ListPending, ListExpired, NextOfBatch, EndBatch,
     CleanerLocks, CleanerBusy, CleanerProceeds, CleanerSkips, SaveTombstone, DropCheckpoint,
     DropRecall, DropFiles, DropStore, SealFiles, DropRow, CleanerFails
<1>6. CASE \E r \in Runs : RunStep(r) \/ RunWork(r)
  BY <1>6 DEF RunStep, RunLocks, RunNotAdmitted, PrepareAccepts, PrepareRejects, EnterRuntime,
              UseRuntime, CheckTombstone, RunCancelled, RunUnlocks, FinishRun, RunWork, StartRun,
              WriteCheckpoint, WriteRecall, StartJob, TurnEnds, CancelRun
<1>7. CASE (\E p \in Processes : CrashProcess(p)) \/ UNCHANGED vars
  BY <1>7 DEF CrashProcess, vars
<1> QED BY <1>2, <1>3, <1>4, <1>5, <1>6, <1>7 DEF Next

LEMMA CancelStays ==
    ASSUME IInv, IInv', CancelInv, [Next]_vars
    PROVE  CancelInv'
<1>1. /\ pc \in [Actors -> Phases] /\ cancelled \subseteq Runs /\ cancelled' \subseteq Runs
      /\ awaits \in [Requests -> Runs \cup {None}] /\ awaits' \in [Requests -> Runs \cup {None}]
      /\ Runs \subseteq Actors /\ Requests \subseteq Actors
  BY DEF IInv, TypeOK
<1>2. ASSUME NEW r \in cancelled' PROVE pc'[r] \in RunPhases
  <2>1. ASSUME NEW x \in Runs, RunStep(x) PROVE pc'[r] \in RunPhases
    BY <1>1, <1>2, <2>1, RunMoves DEF CancelInv
  <2>2. ASSUME NEW x \in Runs, RunWork(x) PROVE pc'[r] \in RunPhases
    <3>1. pc[r] \in RunPhases
      BY <1>2, <2>2, WorkMoves DEF CancelInv
    <3> QED BY <1>1, <1>2, <2>2, <3>1, WorkMoves
  <2>3. ASSUME NEW p \in Processes, CrashProcess(p) PROVE pc'[r] \in RunPhases
    BY <1>1, <1>2, <2>3, CrashMoves DEF CancelInv
  <2>4. CASE ~(\E x \in Runs : RunStep(x) \/ RunWork(x)) /\ ~\E p \in Processes : CrashProcess(p)
    BY <1>1, <1>2, <2>4, OthersKeepRuns DEF CancelInv
  <2> QED BY <2>1, <2>2, <2>3, <2>4
<1>3. ASSUME NEW q \in Requests, awaits'[q] # None
      PROVE  awaits'[q] \in cancelled' \/ pc'[awaits'[q]] \in {"done", "ended"}
  <2>1. CASE awaits'[q] = awaits[q]
    <3>1. PICK r \in Runs : r = awaits[q]
      BY <1>1, <1>3, <2>1
    <3>2. r \in cancelled \/ pc[r] \in {"done", "ended"}
      BY <1>3, <2>1, <3>1 DEF CancelInv
    <3>3. pc[r] # "idle"
      BY <3>2 DEF CancelInv
    <3>4. CASE r \in cancelled
      BY <2>1, <3>1, <3>3, <3>4, RunProgress
    <3>5. CASE pc[r] \in {"done", "ended"}
      <4>1. Left(r) \in 0 .. 1
        BY <3>5 DEF Left
      <4>2. Left(r)' <= Left(r) /\ pc'[r] # "idle"
        BY <3>3, RunProgress
      <4>3. pc'[r] \in {"idle", "ended"} \cup RunPhases
        BY DEF IInv, PhasesByKind
      <4>4. pc'[r] \in {"done", "ended"}
        BY <4>1, <4>2, <4>3 DEF Left
      <4> QED BY <2>1, <3>1, <4>4
    <3> QED BY <3>2, <3>4, <3>5
  <2>2. CASE RequestStops(q) /\ awaits'[q] # awaits[q]
    BY <1>1, <2>2 DEF RequestStops
  <2> QED BY <2>1, <2>2, AwaitsStay
<1> QED BY <1>2, <1>3 DEF CancelInv

LEMMA CancelInvHolds == Spec => []CancelInv
<1>1. Init => CancelInv
  BY DEF Init, CancelInv
<1>2. IInv /\ IInv' /\ CancelInv /\ [Next]_vars => CancelInv'
  BY CancelStays
<1> QED BY <1>1, <1>2, InductiveInvariant, PTL DEF Spec

(* Whoever is cancelled only has the way to its end left: the part of      *)
(* CancelledRunEnds that does not need fairness.                           *)
THEOREM CancelledRunsOnlyEnd == Spec => CancelledRunsComeCloser
<1> DEFINE Step == \A r \in cancelled :
          /\ r \in cancelled' \/ pc'[r] = "ended"
          /\ Left(r)' <= Left(r)
          /\ RunStep(r) => Left(r)' < Left(r)
<1>1. IInv /\ CancelInv /\ [Next]_vars => [Step]_vars
  <2> SUFFICES ASSUME IInv, CancelInv, [Next]_vars, NEW r \in cancelled
               PROVE  /\ r \in cancelled' \/ pc'[r] = "ended"
                      /\ Left(r)' <= Left(r)
                      /\ RunStep(r) => Left(r)' < Left(r)
    OBVIOUS
  <2>1. r \in Runs /\ pc[r] # "idle"
    BY DEF IInv, TypeOK, CancelInv
  <2> QED BY <2>1, RunProgress
<1> QED BY <1>1, InductiveInvariant, CancelInvHolds, PTL DEF Spec, CancelledRunsComeCloser

(* stop() waits for cancelled Runs only.                                   *)
THEOREM DeletionsOnlyAwaitCancelledRuns == Spec => []DeletionsAwaitCancelledRuns
<1>1. CancelInv => DeletionsAwaitCancelledRuns
  BY DEF CancelInv, DeletionsAwaitCancelledRuns, Stopped
<1> QED BY <1>1, CancelInvHolds, PTL

(* Nothing but the removal of the row takes a mark away.                   *)
THEOREM MarksAreKept == Spec => MarksStay
<1> DEFINE Step == \A c \in deleting : c \in deleting' \/ row'[c] = "gone"
<1>1. ASSUME IInv, [Next]_vars PROVE Step
  <2>1. CASE DirectoryNext \/ JobNext \/ UploadNext
    BY <2>1 DEF DirectoryNext, Create, Rename, Age, JobNext, JobWritesFiles, EndJob, UploadNext,
                UploadStep, UploadLocks, UploadChecks, UploadRefused, UploadWrites
  <2>2. CASE \E r \in Runs : RunStep(r) \/ RunWork(r)
    BY <2>2 DEF RunStep, RunLocks, RunNotAdmitted, PrepareAccepts, PrepareRejects, EnterRuntime,
                UseRuntime, CheckTombstone, RunCancelled, RunUnlocks, FinishRun, RunWork, StartRun,
                WriteCheckpoint, WriteRecall, StartJob, TurnEnds, CancelRun
  <2>3. CASE RequestNext
    BY <2>3 DEF RequestNext, RequestStep, RequestDeletion, RequestStops, RequestLocks,
                RequestBusy, RequestMarks
  <2>4. ASSUME NEW k \in Cleaners, DropRow(k) PROVE Step
    <3>1. target[k] \in Conversations /\ row \in [Conversations -> {"absent", "draft", "formal", "gone"}]
      <4>1. pc[k] = "dropRow" /\ k \in Actors
        BY <2>4 DEF DropRow
      <4> QED BY <1>1, <4>1 DEF IInv, TypeOK, BusyActorsHaveTargets
    <3>2. row' = [row EXCEPT ![target[k]] = "gone"] /\ deleting' = deleting \ {target[k]}
      BY <2>4 DEF DropRow
    <3> QED BY <3>1, <3>2
  <2>5. CASE CleanerNext /\ ~\E k \in Cleaners : DropRow(k)
    BY <2>5 DEF CleanerNext, CleanerStep, TakeTask, ListPending, ListExpired, NextOfBatch,
                EndBatch, CleanerLocks, CleanerBusy, CleanerProceeds, CleanerSkips,
                SaveTombstone, DropCheckpoint, DropRecall, DropFiles, DropStore, SealFiles,
                CleanerFails
  <2>6. CASE (\E p \in Processes : CrashProcess(p)) \/ UNCHANGED vars
    BY <2>6 DEF CrashProcess, vars
  <2> QED BY <1>1, <2>1, <2>2, <2>3, <2>4, <2>5, <2>6 DEF Next
<1>2. IInv /\ [Next]_vars => [Step]_vars
  BY <1>1
<1> QED BY <1>2, InductiveInvariant, PTL DEF Spec, MarksStay

=============================================================================
