--------------------------- MODULE SandboxOwnership ---------------------------
(***************************************************************************)
(* Who may touch a user's container.  Every user has one container and one *)
(* volume; the processes of a deployment share the Docker host and         *)
(* coordinate through Redis: operations hold leases, maintenance holds a   *)
(* gate and waits until the leases behind it are gone, one lock guards the *)
(* number of running containers and one per user its storage.              *)
(***************************************************************************)
EXTENDS Naturals, FiniteSets

CONSTANTS
    Users, Chats, Actors,
    Crews,      \* sets of actors that may meet
    Nobody,
    Kind,       \* what each actor does
    UserOf,     \* user of each actor
    ChatOf,     \* conversation of each actor
    MaxRunning  \* max_running_containers

Kinds == {"operate", "prepare", "removeChat", "tidy", "removeUser", "clean"}
OwnershipAssumption ==
    /\ Kind \in [Actors -> Kinds] /\ UserOf \in [Actors -> Users]
    /\ ChatOf \in [Actors -> Chats] /\ Nobody \notin Actors /\ Crews \subseteq SUBSET Actors
    /\ IsFiniteSet(Users) /\ MaxRunning \in Nat /\ Users \cap Chats = {}
    /\ \A a, b \in Actors : ChatOf[a] = ChatOf[b] => UserOf[a] = UserOf[b]

UserGate(u) == <<"user gate", u>>
ChatGate(k) == <<"chat gate", k>>
Mutation(u) == <<"mutation", u>>
Capacity == <<"capacity">>
Locks == {UserGate(u) : u \in Users} \cup {ChatGate(k) : k \in Chats}
         \cup {Mutation(u) : u \in Users} \cup {Capacity}

VARIABLES
    pc,
    lock,        \* holder of each lock
    leases,      \* operations registered in Redis
    unrenewed,   \* _operation_renewal_failures
    deleted,     \* tombstones of users and conversations
    container,   \* state of each user's container
    volumes,     \* users that have a volume
    workspaces,  \* conversations that have files
    candidates,  \* users whose container an actor may stop
    victim,      \* the one it has chosen
    disturbed    \* history: operations whose container was stopped or removed

storeVars == <<container, volumes, workspaces>>
vars == <<pc, lock, leases, unrenewed, deleted, storeVars, candidates, victim, disturbed>>

Operations == {a \in Actors : Kind[a] = "operate"}
Active(u) == \E o \in leases : UserOf[o] = u
RunningContainers == {u \in Users : container[u] = "running"}
Room == Cardinality(RunningContainers) < MaxRunning
Available(a) == UserOf[a] \notin deleted /\ ChatOf[a] \notin deleted

Init ==
    /\ \E crew \in Crews : pc = [a \in Actors |-> IF a \in crew THEN "new" ELSE "absent"]
    /\ lock = [l \in Locks |-> Nobody]
    /\ leases = {} /\ unrenewed = {} /\ deleted = {}
    /\ container = [u \in Users |-> "none"]
    /\ volumes = {} /\ workspaces = {}
    /\ candidates = [a \in Actors |-> {}]
    /\ victim = [a \in Actors |-> UserOf[a]]
    /\ disturbed = {}

-----------------------------------------------------------------------------
(* Locks, leases and waiting.                                              *)

(* The lock an actor waits for at each of its waiting points.              *)
Wants(a) ==
    CASE pc[a] = "new" /\ Kind[a] \in {"prepare", "removeChat", "tidy"} -> {ChatGate(ChatOf[a])}
      [] pc[a] = "new" /\ Kind[a] \in {"removeUser", "clean"} -> {UserGate(UserOf[a])}
      [] pc[a] = "seeking" /\ victim[a] # UserOf[a] -> {UserGate(victim[a])}
      [] pc[a] \in {"wants 1", "wants 2", "wants 3"} -> {Capacity}
      [] pc[a] = "wants storage" -> {Mutation(UserOf[a])}
      [] OTHER -> {}

(* Leases that maintenance waits for: of the conversation, of the user, of *)
(* the user whose container it may stop.                                   *)
Ahead(a) ==
    CASE pc[a] = "chat idle" -> {o \in leases : ChatOf[o] = ChatOf[a]}
      [] pc[a] = "user idle" -> {o \in leases : UserOf[o] = UserOf[a]}
      [] pc[a] = "victim idle" -> {o \in leases : UserOf[o] = victim[a]}
      [] OTHER -> {}

Freed(a, ls) == [l \in Locks |-> IF l \in ls /\ lock[l] = a THEN Nobody ELSE lock[l]]
FreedAll(a) == Freed(a, Locks)

Moves(a, p) == pc' = [pc EXCEPT ![a] = p]

(* After each wait for a lock: gates wait for idleness, the capacity lock  *)
(* is followed by one of three looks at the containers.                    *)
AfterLock(a) ==
    CASE pc[a] = "new" -> IF Kind[a] \in {"removeUser", "clean"} THEN "user idle" ELSE "chat idle"
      [] pc[a] = "seeking" -> "victim idle"
      [] pc[a] = "wants 1" -> "first look"
      [] pc[a] = "wants 2" -> CASE Kind[a] = "removeUser" -> "wants storage"
                                [] Kind[a] = "clean" -> "cleaning"
                                [] OTHER -> "second look"
      [] pc[a] = "wants 3" -> "last look"
      [] OTHER -> CASE Kind[a] = "prepare" -> "preparing"
                    [] Kind[a] = "removeUser" -> "marking"
                    [] OTHER -> "deleting"

Acquire(a) ==
    /\ \E l \in Wants(a) :
        /\ lock[l] = Nobody
        /\ lock' = [lock EXCEPT ![l] = a]
    /\ Moves(a, AfterLock(a))
    /\ UNCHANGED <<leases, unrenewed, deleted, storeVars, candidates, victim, disturbed>>

AfterIdle(a) ==
    CASE pc[a] \in {"user idle", "victim idle"} -> "wants 2"
      [] Kind[a] = "prepare" -> "wants storage"
      [] OTHER -> "gated"

FindsIdle(a) ==
    /\ pc[a] \in {"chat idle", "user idle", "victim idle"} /\ Ahead(a) = {}
    /\ Moves(a, AfterIdle(a))
    /\ UNCHANGED <<lock, leases, unrenewed, deleted, storeVars, candidates, victim, disturbed>>

(* The script registers the operation unless something is deleted or a     *)
(* gate is closed; a closed gate is tried again.                           *)
Blocked(a) == lock[UserGate(UserOf[a])] # Nobody \/ lock[ChatGate(ChatOf[a])] # Nobody

Register(a) ==
    /\ Kind[a] = "operate" /\ pc[a] = "new"
    /\ Available(a) => ~Blocked(a)
    /\ leases' = IF Available(a) THEN leases \cup {a} ELSE leases
    /\ Moves(a, IF Available(a) THEN "wants 1" ELSE "failed")
    /\ UNCHANGED <<lock, unrenewed, deleted, storeVars, candidates, victim, disturbed>>

(* Leaving by an exception: every context manager releases what it holds.  *)
Fails(a) ==
    /\ lock' = FreedAll(a)
    /\ leases' = leases \ {a} /\ unrenewed' = unrenewed \ {a}
    /\ Moves(a, "failed")
    /\ UNCHANGED <<deleted, disturbed>>

(* A wait that takes too long, or a request that is cancelled.             *)
Waiting(a) == Wants(a) # {} \/ Ahead(a) # {} \/ (pc[a] = "new" /\ Kind[a] = "operate")

TimesOut(a) ==
    /\ Waiting(a) /\ Fails(a)
    /\ UNCHANGED <<storeVars, candidates, victim>>

(* Deletions, preparations and clean-ups are tried again, and look for     *)
(* another container to stop.                                              *)
Retries(a) ==
    /\ pc[a] = "failed" /\ Kind[a] # "operate"
    /\ Moves(a, "new")
    /\ victim' = [victim EXCEPT ![a] = UserOf[a]]
    /\ UNCHANGED <<lock, leases, unrenewed, deleted, storeVars, candidates, disturbed>>

(* Redis cannot be reached when the leases are renewed; they expire unless *)
(* a later renewal comes in time.                                          *)
RenewalFails(a) ==
    /\ a \in leases /\ unrenewed' = unrenewed \cup {a}
    /\ UNCHANGED <<pc, lock, leases, deleted, storeVars, candidates, victim, disturbed>>

LeaseExpires(a) ==
    /\ a \in leases \cap unrenewed /\ leases' = leases \ {a}
    /\ UNCHANGED <<pc, lock, unrenewed, deleted, storeVars, candidates, victim, disturbed>>

-----------------------------------------------------------------------------
(* get_running(): start the container, stopping an idle one if need be.    *)

Stops(u, s) ==
    /\ container' = [container EXCEPT ![u] = s]
    /\ disturbed' = disturbed \cup {o \in Operations : UserOf[o] = u /\ pc[o] = "running"}

Created(u) == IF container[u] = "none" THEN "stopped" ELSE container[u]

Running(a) == IF Kind[a] = "operate" THEN "running" ELSE "wants storage"

(* Under the capacity lock, with the user's storage lock for a moment.     *)
StorageIsFree(a) == lock[Mutation(UserOf[a])] = Nobody
CanStart(a) == container[UserOf[a]] = "running" \/ Room

Starts(a, state) ==
    /\ container' = [container EXCEPT ![UserOf[a]] = state]
    /\ volumes' = volumes \cup {UserOf[a]}
    /\ UNCHANGED workspaces

(* Mutant: the wait for the idle user happens under the capacity lock.     *)
FirstLookKeepsCapacity(a) ==
    /\ pc[a] = "first look" /\ UserOf[a] \notin deleted /\ StorageIsFree(a)
    /\ Starts(a, IF CanStart(a) THEN "running" ELSE Created(UserOf[a]))
    /\ candidates' = [candidates EXCEPT ![a] =
           IF CanStart(a) THEN {} ELSE RunningContainers \ {UserOf[a]}]
    /\ lock' = IF CanStart(a) THEN Freed(a, {Capacity}) ELSE lock
    /\ Moves(a, IF CanStart(a) THEN Running(a) ELSE "seeking")
    /\ UNCHANGED <<leases, unrenewed, deleted, victim, disturbed>>

FirstLook(a) ==
    /\ pc[a] = "first look" /\ UserOf[a] \notin deleted /\ StorageIsFree(a)
    /\ Starts(a, IF CanStart(a) THEN "running" ELSE Created(UserOf[a]))
    /\ candidates' = [candidates EXCEPT ![a] =
           IF CanStart(a) THEN {} ELSE RunningContainers \ {UserOf[a]}]
    /\ lock' = Freed(a, {Capacity})
    /\ Moves(a, IF CanStart(a) THEN Running(a) ELSE "seeking")
    /\ UNCHANGED <<leases, unrenewed, deleted, victim, disturbed>>

FindsDeleted(a) ==
    /\ pc[a] \in {"first look", "last look"} /\ UserOf[a] \in deleted
    /\ Fails(a) /\ UNCHANGED <<storeVars, candidates, victim>>

(* The next candidate, passed over while an operation of it is registered. *)
Seek(a) ==
    /\ pc[a] = "seeking" /\ victim[a] = UserOf[a]
    /\ \E u \in candidates[a] :
        /\ candidates' = [candidates EXCEPT ![a] = @ \ {u}]
        /\ victim' = [victim EXCEPT ![a] = IF Active(u) THEN @ ELSE u]
    /\ UNCHANGED <<pc, lock, leases, unrenewed, deleted, storeVars, disturbed>>

NoCandidate(a) ==
    /\ pc[a] = "seeking" /\ victim[a] = UserOf[a] /\ candidates[a] = {}
    /\ Fails(a) /\ UNCHANGED <<storeVars, candidates, victim>>

Gives(a, p) ==
    /\ lock' = Freed(a, {Capacity, UserGate(victim[a])})
    /\ victim' = [victim EXCEPT ![a] = UserOf[a]]
    /\ Moves(a, p)
    /\ UNCHANGED <<leases, unrenewed, deleted, volumes, workspaces, candidates>>

(* Everything is looked at again; the container is stopped if there is no  *)
(* room by now.                                                            *)
SecondLook(a) ==
    /\ pc[a] = "second look"
    /\ IF container[victim[a]] # "running" \/ Active(victim[a])
       THEN Gives(a, "seeking") /\ UNCHANGED <<container, disturbed>>
       ELSE /\ Gives(a, "wants 3")
            /\ IF Room THEN UNCHANGED <<container, disturbed>> ELSE Stops(victim[a], "stopped")

LastLook(a) ==
    /\ pc[a] = "last look" /\ UserOf[a] \notin deleted /\ StorageIsFree(a)
    /\ IF CanStart(a)
       THEN /\ Starts(a, "running") /\ lock' = Freed(a, {Capacity}) /\ Moves(a, Running(a))
            /\ UNCHANGED <<leases, unrenewed, deleted, disturbed>>
       ELSE Starts(a, Created(UserOf[a])) /\ Fails(a)
    /\ UNCHANGED <<candidates, victim>>

GetRunning(a) ==
    FirstLook(a) \/ FindsDeleted(a) \/ Seek(a) \/ NoCandidate(a) \/ SecondLook(a) \/ LastLook(a)

-----------------------------------------------------------------------------
(* The work itself.                                                        *)

Ends(a, p) ==
    /\ lock' = FreedAll(a)
    /\ Moves(a, p)
    /\ UNCHANGED <<leases, unrenewed, candidates, victim>>

OperationEnds(a) ==
    /\ Kind[a] = "operate" /\ pc[a] = "running"
    /\ leases' = leases \ {a} /\ unrenewed' = unrenewed \ {a}
    /\ Moves(a, IF a \in unrenewed THEN "failed" ELSE "done")
    /\ UNCHANGED <<lock, deleted, storeVars, candidates, victim, disturbed>>

(* get_backend() and uploads: the workspace, in a container that may be    *)
(* stopped.                                                                *)
Prepares(a) ==
    /\ pc[a] = "preparing"
    /\ IF Available(a)
       THEN /\ container' = [container EXCEPT ![UserOf[a]] = Created(UserOf[a])]
            /\ volumes' = volumes \cup {UserOf[a]}
            /\ Moves(a, "filling")
            /\ UNCHANGED <<lock, leases, unrenewed, deleted, workspaces, disturbed>>
       ELSE Fails(a) /\ UNCHANGED storeVars
    /\ UNCHANGED <<candidates, victim>>

(* A container that was removed meanwhile makes the request fail.          *)
Fills(a) ==
    /\ pc[a] = "filling"
    /\ IF container[UserOf[a]] = "none"
       THEN Fails(a) /\ UNCHANGED <<storeVars, candidates, victim>>
       ELSE /\ workspaces' = workspaces \cup {ChatOf[a]}
            /\ Ends(a, "done")
            /\ UNCHANGED <<deleted, container, volumes, disturbed>>

(* The conversation's tombstone comes before its files are looked for;     *)
(* delete_session() and delete_user_attachment() want it available.        *)
Gated(a) ==
    /\ pc[a] = "gated"
    /\ IF Kind[a] = "tidy" /\ ~Available(a)
       THEN Fails(a) /\ UNCHANGED <<storeVars, candidates, victim>>
       ELSE /\ deleted' = IF Kind[a] = "removeChat" THEN deleted \cup {ChatOf[a]} ELSE deleted
            /\ IF container[UserOf[a]] = "none" /\ UserOf[a] \notin volumes
               THEN Ends(a, "done")
               ELSE Moves(a, "wants 1") /\ UNCHANGED <<lock, leases, unrenewed, candidates, victim>>
            /\ UNCHANGED <<storeVars, disturbed>>

(* Files are deleted by a command in the container: one that was stopped   *)
(* meanwhile makes the deletion fail.                                      *)
Deletes(a) ==
    /\ pc[a] = "deleting"
    /\ IF container[UserOf[a]] # "running"
       THEN Fails(a) /\ UNCHANGED <<storeVars, candidates, victim>>
       ELSE /\ workspaces' = IF Kind[a] = "removeChat" THEN workspaces \ {ChatOf[a]} ELSE workspaces
            /\ Ends(a, "done")
            /\ UNCHANGED <<deleted, container, volumes, disturbed>>

(* delete_user_sandbox()                                                   *)
MarksUser(a) ==
    /\ pc[a] = "marking"
    /\ deleted' = deleted \cup {UserOf[a]}
    /\ Moves(a, "erasing")
    /\ UNCHANGED <<lock, leases, unrenewed, storeVars, candidates, victim, disturbed>>

Erases(a) ==
    /\ pc[a] = "erasing"
    /\ Stops(UserOf[a], "none")
    /\ volumes' = volumes \ {UserOf[a]}
    /\ workspaces' = workspaces \ {ChatOf[b] : b \in {c \in Actors : UserOf[c] = UserOf[a]}}
    /\ Ends(a, "done")
    /\ UNCHANGED deleted

(* Docker refuses after the container was removed.                         *)
EraseFails(a) ==
    /\ pc[a] = "erasing"
    /\ Stops(UserOf[a], "none")
    /\ Ends(a, "failed")
    /\ UNCHANGED <<deleted, volumes, workspaces>>

(* cleanup_idle(), reconcile() and finalize(): stop or remove, or leave a  *)
(* container that was used lately.                                         *)
Cleans(a) ==
    /\ pc[a] = "cleaning"
    /\ \/ container[UserOf[a]] = "running" /\ Stops(UserOf[a], "stopped")
       \/ container[UserOf[a]] # "none" /\ Stops(UserOf[a], "none")
       \/ UNCHANGED <<container, disturbed>>
    /\ Ends(a, "new")
    /\ UNCHANGED <<deleted, volumes, workspaces>>

Work(a) ==
    OperationEnds(a) \/ Prepares(a) \/ Fills(a) \/ Gated(a) \/ Deletes(a) \/ MarksUser(a)
    \/ Erases(a) \/ EraseFails(a) \/ Cleans(a)

Next ==
    \E a \in Actors :
        Acquire(a) \/ FindsIdle(a) \/ Register(a) \/ TimesOut(a) \/ Retries(a)
        \/ RenewalFails(a) \/ LeaseExpires(a) \/ GetRunning(a) \/ Work(a)

Spec == Init /\ [][Next]_vars

-----------------------------------------------------------------------------
(* Properties.                                                             *)

TypeOK ==
    /\ lock \in [Locks -> Actors \cup {Nobody}]
    /\ leases \subseteq Operations /\ unrenewed \subseteq Operations
    /\ deleted \subseteq Users \cup Chats
    /\ container \in [Users -> {"none", "stopped", "running"}]
    /\ volumes \subseteq Users /\ workspaces \subseteq Chats
    /\ candidates \in [Actors -> SUBSET Users] /\ victim \in [Actors -> Users]
    /\ disturbed \subseteq Operations

(* No more containers run than max_running_containers, although room is    *)
(* made for one start and may be taken by another.                         *)
CapacityIsKept == Cardinality(RunningContainers) <= MaxRunning

(* An operation that reports success had its container all the time: what  *)
(* stopped or removed it waited for its lease, and an operation that lost  *)
(* its lease says so.                                                      *)
DisturbedOperationsFail == \A o \in disturbed : pc[o] # "done"

(* When a deletion has answered, nothing creates the storage again.        *)
DeletedStaysDeleted ==
    \A a \in Actors :
        pc[a] = "done" =>
            /\ Kind[a] = "removeChat" => ChatOf[a] \notin workspaces
            /\ Kind[a] = "removeUser" => UserOf[a] \notin volumes /\ container[UserOf[a]] = "none"

(* Nobody waits in a circle, which only a timeout would break: the gates   *)
(* come before the capacity lock and that before the storage locks, which  *)
(* a start waits for under the capacity lock, and an operation only waits  *)
(* for operations that registered after it.                                *)
Blockers(a) ==
    {lock[l] : l \in Wants(a)} \cup Ahead(a)
    \cup (IF pc[a] \in {"first look", "last look"} THEN {lock[Mutation(UserOf[a])]} ELSE {})
    \cup (IF pc[a] = "new" /\ Kind[a] = "operate"
          THEN {lock[UserGate(UserOf[a])], lock[ChatGate(ChatOf[a])]} ELSE {})
NoCircularWait ==
    ~ \E S \in SUBSET {a \in Actors : Blockers(a) \cap Actors # {}} :
        S # {} /\ \A a \in S : Blockers(a) \cap S # {}

SandboxesAreSafe ==
    CapacityIsKept /\ DisturbedOperationsFail /\ DeletedStaysDeleted /\ NoCircularWait
=============================================================================
