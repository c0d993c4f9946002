------------------------------- MODULE Sandboxes -------------------------------
(***************************************************************************)
(* Who may touch a container, the uids of a volume, the files of a         *)
(* workspace and the paths that lead to them share no state in this model: *)
(* one of them moves, or a component that is not here.                     *)
(***************************************************************************)
EXTENDS Naturals, FiniteSets, Sequences, Parts

CONSTANTS SandboxUsers, SandboxChats, Workers, WorkerCrews, WorkerKind, WorkerUser, WorkerChat,
          MaxRunning
VARIABLES ownerPc, lock, leases, unrenewed, deleted, container, volumes, workspaces, candidates,
          victim, disturbed
Own == INSTANCE SandboxOwnership WITH
           Users <- SandboxUsers, Chats <- SandboxChats, Actors <- Workers,
           Crews <- WorkerCrews, Kind <- WorkerKind, UserOf <- WorkerUser,
           ChatOf <- WorkerChat, pc <- ownerPc
ownVars == <<ownerPc, lock, leases, unrenewed, deleted, container, volumes, workspaces,
             candidates, victim, disturbed>>

CONSTANTS StoredChats, StoredSessions, SessionHome, UidRange, UidDigests, UidReaders, NoRegistry
VARIABLES registry, owned, job, loaded, reader, reset
Store == INSTANCE SandboxStorage WITH
             Conversations <- StoredChats, Sessions <- StoredSessions, Home <- SessionHome,
             Uids <- UidRange, Digests <- UidDigests, Readers <- UidReaders
storeVars == <<registry, owned, job, loaded, reader, reset>>

CONSTANTS FileCalls, FileTool, MaxFileSize
VARIABLES fileStep, content, inode, partial, staged, scratch, base, opened, overlaps, answer,
          stranded
Files == INSTANCE SandboxFiles WITH
             Calls <- FileCalls, Tool <- FileTool, MaxSize <- MaxFileSize, step <- fileStep
fileVars == <<fileStep, content, inode, partial, staged, scratch, base, opened, overlaps, answer,
              stranded>>

CONSTANTS PathNames, HiddenNames, PathDepth, PathRoot, PathSession
VARIABLES asked, attached, found, artifact
Paths == INSTANCE SandboxPaths WITH
             Names <- PathNames, Hidden <- HiddenNames, Depth <- PathDepth, Root <- PathRoot,
             Session <- PathSession
pathVars == <<asked, attached, found, artifact>>

ASSUME SandboxAssumption ==
    /\ Own!OwnershipAssumption /\ Store!StorageAssumption
    /\ Files!FilesAssumption /\ Paths!PathsAssumption

sandboxVars == <<part, ownVars, storeVars, fileVars, pathVars>>

SandboxInit == Own!Init /\ Store!Init /\ Files!Init /\ Paths!Init

OwnStep == part = "owners" /\ Own!Next /\ UNCHANGED <<part, storeVars, fileVars, pathVars>>
StoreStep == part = "store" /\ Store!Next /\ UNCHANGED <<part, ownVars, fileVars, pathVars>>
FileStep == part = "files" /\ Files!Next /\ UNCHANGED <<part, ownVars, storeVars, pathVars>>
PathStep == part = "paths" /\ Paths!Next /\ UNCHANGED <<part, ownVars, storeVars, fileVars>>

SandboxNext == OwnStep \/ StoreStep \/ FileStep \/ PathStep

SandboxSpec == SandboxInit /\ [][SandboxNext]_sandboxVars

SandboxTypes ==
    /\ part = "owners" => Own!TypeOK
    /\ part = "store" => Store!TypeOK
    /\ part = "files" => Files!TypeOK

(* Sandbox ownership, uids, files and paths.                               *)
SandboxesAreSafe ==
    /\ part = "owners" => Own!SandboxesAreSafe
    /\ part = "store" => Store!UidsAreIsolated
    /\ part = "files" => Files!FilesAreSound
    /\ part = "paths" => Paths!PathsLeadHome
=============================================================================
