---------------------------- MODULE SandboxStorage ----------------------------
(***************************************************************************)
(* The volume of one user.  Every conversation and every agent session has *)
(* a Linux uid of its own, kept in a registry file on the volume; its      *)
(* directory belongs to that uid.  Jobs that change the volume run one at  *)
(* a time under the user's storage lock, in several calls of the Docker    *)
(* archive API any of which may fail; downloads read without the lock.     *)
(***************************************************************************)
EXTENDS Naturals, Sequences, FiniteSets

CONSTANTS
    Conversations,
    Sessions,
    Home,        \* conversation of each session
    Uids,        \* the uid range
    Digests,     \* candidates for each owner's uid, in the order of the attempts
    Readers,     \* downloads and look-ups of artifacts
    NoRegistry

Owners == Conversations \cup Sessions
UidMaps == UNION {[S -> Uids] : S \in SUBSET Owners}
StorageAssumption ==
    /\ Conversations # {} /\ Home \in [Sessions -> Conversations]
    /\ Digests \in [Owners -> Seq(Uids)] /\ NoRegistry \notin UidMaps

VARIABLES
    registry,   \* the registry file: uid of each registered owner
    owned,      \* uid of each directory that exists
    job,        \* the job under the storage lock
    loaded,     \* the registry it works with
    reader,     \* phase of each reader
    reset       \* history: a reader wrote the empty registry over a full one

vars == <<registry, owned, job, loaded, reader, reset>>

Empty == [o \in {} |-> 0]
Present == DOMAIN owned
UidsOf(f) == {f[o] : o \in DOMAIN f}
Put(f, o, u) == [x \in DOMAIN f \cup {o} |-> IF x = o THEN u ELSE f[x]]
Drop(f, S) == [x \in DOMAIN f \ S |-> f[x]]
Within(o) == IF o \in Conversations THEN {o} \cup {s \in Sessions : Home[s] = o} ELSE {o}

Job(op, o, step) == [op |-> op, owner |-> o, step |-> step]
Idle == Job("none", CHOOSE o \in Owners : TRUE, "idle")

Init ==
    /\ registry = NoRegistry
    /\ owned = Empty
    /\ job = Idle
    /\ loaded = Empty
    /\ reader = [r \in Readers |-> "new"]
    /\ reset = FALSE

-----------------------------------------------------------------------------
(* The jobs.                                                               *)

At(step) == job.step = step
Goes(step) == job' = [job EXCEPT !.step = step]
JobEnds == job' = Idle /\ loaded' = Empty

(* A missing registry is created on the way.                               *)
Begins(op, o) ==
    /\ At("idle")
    /\ registry' = IF registry = NoRegistry THEN Empty ELSE registry
    /\ loaded' = registry'
    /\ job' = Job(op, o, IF op = "delete" THEN "removing"
                         ELSE IF o \in Sessions THEN "outer" ELSE "allocating")
    /\ UNCHANGED <<owned, reader, reset>>

(* The first attempt whose uid nobody has.                                 *)
Free(o) == {i \in DOMAIN Digests[o] : Digests[o][i] \notin UidsOf(loaded)}
Allocated(o) == Digests[o][CHOOSE i \in Free(o) : \A j \in Free(o) : i <= j]

Registers(o, ready) ==
    IF o \in DOMAIN loaded
    THEN Goes(ready) /\ UNCHANGED <<registry, loaded>>
    ELSE IF Free(o) = {}
    THEN JobEnds /\ UNCHANGED registry
    ELSE /\ loaded' = Put(loaded, o, Allocated(o))
         /\ registry' = loaded'
         /\ Goes(ready)

(* The directory, unless one with another owner is there; a session's may   *)
(* still be its conversation's.                                            *)
Strange(o) ==
    o \in Present /\ owned[o] \notin
        {loaded[o]} \cup (IF o \in Sessions THEN {loaded[Home[o]]} ELSE {})

Makes(o, after) ==
    IF Strange(o)
    THEN JobEnds /\ UNCHANGED owned
    ELSE /\ owned' = Put(owned, o, loaded[o])
         /\ IF after = "idle" THEN JobEnds ELSE Goes(after) /\ UNCHANGED loaded

(* A session's workspace is prepared inside its conversation's.            *)
OuterRegisters ==
    /\ At("outer") /\ Registers(Home[job.owner], "outer made")
    /\ UNCHANGED <<owned, reader, reset>>
OuterMakes ==
    /\ At("outer made") /\ Makes(Home[job.owner], "allocating")
    /\ UNCHANGED <<registry, reader, reset>>
Allocates ==
    /\ At("allocating") /\ Registers(job.owner, "making")
    /\ UNCHANGED <<owned, reader, reset>>
Creates ==
    /\ At("making") /\ Makes(job.owner, "idle")
    /\ UNCHANGED <<registry, reader, reset>>

(* delete_session() and delete_conversation(): first the directories, then *)
(* the uids.  rm may stop half-way.                                        *)
Removes ==
    /\ At("removing")
    /\ \E S \in SUBSET Within(job.owner) :
        /\ job.owner \in S => S = Within(job.owner)
        /\ owned' = Drop(owned, S)
        /\ IF S = Within(job.owner)
           THEN Goes("forgetting") /\ UNCHANGED loaded
           ELSE JobEnds
    /\ UNCHANGED <<registry, reader, reset>>

Forgets ==
    /\ At("forgetting")
    /\ registry' = Drop(loaded, Within(job.owner))
    /\ JobEnds
    /\ UNCHANGED <<owned, reader, reset>>

(* An archive or a command fails, or the process dies.                     *)
Breaks ==
    /\ ~At("idle") /\ JobEnds
    /\ UNCHANGED <<registry, owned, reader, reset>>

-----------------------------------------------------------------------------
(* Downloads: they create a missing registry as well, but without the lock.*)

Reads(r) ==
    /\ reader[r] = "new"
    /\ reader' = [reader EXCEPT ![r] = IF registry = NoRegistry THEN "missing" ELSE "done"]
    /\ UNCHANGED <<registry, owned, job, loaded, reset>>

WritesEmpty(r) ==
    /\ reader[r] = "missing"
    /\ registry' = Empty
    /\ reset' = (reset \/ registry \notin {NoRegistry, Empty})
    /\ reader' = [reader EXCEPT ![r] = "done"]
    /\ UNCHANGED <<owned, job, loaded>>

Next ==
    \/ \E o \in Owners, op \in {"ensure", "delete"} : Begins(op, o)
    \/ OuterRegisters \/ OuterMakes \/ Allocates \/ Creates \/ Removes \/ Forgets \/ Breaks
    \/ \E r \in Readers : Reads(r) \/ WritesEmpty(r)

Spec == Init /\ [][Next]_vars

-----------------------------------------------------------------------------
(* Properties.                                                             *)

Steps == {"idle", "outer", "outer made", "allocating", "making", "removing", "forgetting"}

TypeOK ==
    /\ registry \in UidMaps \cup {NoRegistry}
    /\ owned \in UidMaps /\ loaded \in UidMaps
    /\ job \in [op : {"none", "ensure", "delete"}, owner : Owners, step : Steps]
    /\ reader \in [Readers -> {"new", "missing", "done"}]
    /\ reset \in BOOLEAN

(* Whatever fails half-way, a directory belongs to the uid its owner is    *)
(* registered with and no two owners share one: the registry is written    *)
(* before the directory is made and after it is gone.  A reader that finds *)
(* no registry and writes an empty one over a new one is the exception.    *)
UidsAreIsolated ==
    ~reset =>
        /\ \A o \in Present :
               registry # NoRegistry /\ o \in DOMAIN registry /\ registry[o] = owned[o]
        /\ \A o, p \in Present : owned[o] = owned[p] => o = p
=============================================================================
